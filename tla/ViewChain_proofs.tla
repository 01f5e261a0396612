-------------------------- MODULE ViewChain_proofs --------------------------
(***************************************************************************)
(* Theorems about views on views, for every number of sources, every shape *)
(* of the graph of their inputs and every function that combines values.   *)
(*                                                                         *)
(* The argument: a source whose value is not what its inputs say now is    *)
(* `pending': it, or something below it, is stale.  A call of value()       *)
(* gives each source below it its turn, on the first visit: what is pending*)
(* is settled and gets a new version, which is how those above it come to  *)
(* know, and what is not is left alone.  Later visits find nothing to do.  *)
(* A derived view that counted versions as seen without computing anything *)
(* from them excuses what is above it until it computes again.             *)
(***************************************************************************)
EXTENDS ViewChain, WellFoundedInduction, TLAPS

-----------------------------------------------------------------------------
(* Induction over the places of a sequence.                                *)

\* A set of natural numbers that holds each number below which it has no gap.
LEMMA StrongInduction ==
  ASSUME NEW T, NEW n \in Nat, \A m \in 1..n : (\A l \in 1..(m - 1) : l \in T) => m \in T
  PROVE  \A m \in 1..n : m \in T
<1>. DEFINE gaps == {m \in Nat : m \in 1..n /\ m \notin T}
            less == OpToRel(<, Nat)
<1>. SUFFICES ASSUME gaps # {} PROVE FALSE
  OBVIOUS
<1>1. IsWellFoundedOn(less, Nat)
  BY NatLessThanWellFounded
<1>2. \A l, m \in Nat : l < m => <<l, m>> \in less
  BY DEF OpToRel
<1>3. gaps \subseteq Nat
  OBVIOUS
<1>. HIDE DEF less
<1>4. PICK m \in gaps : \A l \in gaps : ~(<<l, m>> \in less)
  <2>. HIDE DEF gaps
  <2>. QED
    BY <1>1, <1>3, WFMin
<1>5. ASSUME NEW l \in 1..(m - 1) PROVE l \in T
  <2>1. l \in Nat /\ m \in Nat /\ l < m /\ l \in 1..n
    OBVIOUS
  <2>. QED
    BY <1>2, <1>4, <2>1
<1>. QED
  BY <1>4, <1>5

\* Natural numbers, one by one from 0.
LEMMA SetInduction ==
  ASSUME NEW T, 0 \in T, \A n \in Nat : n \in T => n + 1 \in T
  PROVE  Nat \subseteq T
<1>. SUFFICES ASSUME Nat \ T # {} PROVE FALSE
  OBVIOUS
<1>. DEFINE less == OpToRel(<, Nat)
<1>1. IsWellFoundedOn(less, Nat)
  BY NatLessThanWellFounded
<1>2. \A m, n \in Nat : m < n => <<m, n>> \in less
  BY DEF OpToRel
<1>. HIDE DEF less
<1>3. PICK n \in Nat \ T : \A m \in Nat \ T : ~(<<m, n>> \in less)
  BY <1>1, WFMin
<1>4. n # 0 /\ n - 1 \in Nat /\ n - 1 < n /\ n = (n - 1) + 1
  OBVIOUS
<1>5. n - 1 \in T
  BY <1>2, <1>3, <1>4
<1>. QED
  BY <1>3, <1>4, <1>5

-----------------------------------------------------------------------------
(* The sources.                                                            *)

\* Every input is an earlier source.
Ordered(S) ==
  /\ Len(S) \in Nat
  /\ S = [m \in 1..Len(S) |-> S[m]]
  /\ \A m \in 1..Len(S) : /\ S[m].inputs \in Seq(Nat)
                          /\ \A i \in DOMAIN S[m].inputs : S[m].inputs[i] \in 1..(m - 1)

\* A view, and a derived view: no version that was seen is ahead of its input.
IsViewRecord(s) ==
  /\ s = [inputs |-> s.inputs, world |-> s.world, dirty |-> s.dirty,
          value |-> s.value, version |-> s.version]
  /\ s.dirty \in BOOLEAN

IsDerivedRecord(S, s) ==
  /\ s = [inputs |-> s.inputs, last_versions |-> s.last_versions,
          value |-> s.value, version |-> s.version]
  /\ s.last_versions = [i \in DOMAIN s.inputs |-> s.last_versions[i]]
  /\ \A i \in DOMAIN s.inputs : /\ s.last_versions[i] \in Nat
                                /\ s.last_versions[i] <= S[s.inputs[i]].version

WellFormed(S) ==
  /\ Ordered(S)
  /\ \A m \in 1..Len(S) :
       /\ S[m].version \in Nat
       /\ IsView(S[m]) => IsViewRecord(S[m])
       /\ ~IsView(S[m]) => IsDerivedRecord(S, S[m])

-----------------------------------------------------------------------------
(* Below and Truth are recursive functions: each has the value that its    *)
(* equation tells, because an equation of this shape has a solution.       *)

BelowAt(S, below, m) == {m} \cup UNION {below[S[m].inputs[i]] : i \in DOMAIN S[m].inputs}

IsBelow(S, below, n) == below = [m \in 1..n |-> BelowAt(S, below, m)]

\* The recursive function that collects what is below a source exists.
LEMMA BelowExists ==
  ASSUME NEW S, Ordered(S)
  PROVE  \E below : IsBelow(S, below, Len(S))
<1>. DEFINE T == {n \in Nat : n <= Len(S) => \E below : IsBelow(S, below, n)}
<1>1. 0 \in T
  <2>1. IsBelow(S, [m \in 1..0 |-> {}], 0)
    BY DEF IsBelow
  <2>. QED
    BY <2>1
<1>2. ASSUME NEW n \in Nat, n \in T PROVE n + 1 \in T
  <2>. SUFFICES ASSUME n + 1 <= Len(S) PROVE \E below : IsBelow(S, below, n + 1)
    OBVIOUS
  <2>0. Len(S) \in Nat
    BY DEF Ordered
  <2>1. PICK below : IsBelow(S, below, n)
    BY <1>2, <2>0
  <2>. DEFINE next == [m \in 1..(n + 1) |-> BelowAt(S, below, m)]
  <2>2. \A m \in 1..n : next[m] = below[m]
    <3>1. \A m \in 1..n : m \in 1..(n + 1)
      OBVIOUS
    <3>. QED
      BY <2>1, <3>1 DEF IsBelow
  <2>3. next = [m \in 1..(n + 1) |-> next[m]] /\ \A m \in 1..(n + 1) : next[m] = BelowAt(S, below, m)
    OBVIOUS
  <2>. HIDE DEF next
  <2>4. ASSUME NEW m \in 1..(n + 1) PROVE next[m] = BelowAt(S, next, m)
    <3>1. ASSUME NEW i \in DOMAIN S[m].inputs PROVE S[m].inputs[i] \in 1..n
      <4>1. m \in 1..Len(S)
        BY <2>0
      <4>2. S[m].inputs[i] \in 1..(m - 1)
        BY <4>1 DEF Ordered
      <4>. QED
        BY <4>2
    <3>2. BelowAt(S, next, m) = BelowAt(S, below, m)
      BY <2>2, <3>1 DEF BelowAt
    <3>. QED
      BY <2>3, <3>2
  <2>5. IsBelow(S, next, n + 1)
    BY <2>3, <2>4 DEF IsBelow
  <2>. QED
    BY <2>5
<1>. HIDE DEF T
<1>3. Len(S) \in T /\ Len(S) \in Nat /\ Len(S) <= Len(S)
  BY <1>1, <1>2, SetInduction DEF Ordered
<1>. QED
  BY <1>3 DEF T

\* Source m is below itself, and so is what is below its inputs.
LEMMA BelowStep ==
  ASSUME NEW S, Ordered(S), NEW m \in 1..Len(S)
  PROVE  Below(S, m) = {m} \cup UNION {Below(S, S[m].inputs[i]) : i \in DOMAIN S[m].inputs}
<1>1. DOMAIN S = 1..Len(S)
  BY DEF Ordered
<1>. DEFINE f == CHOOSE below : IsBelow(S, below, Len(S))
<1>2. \A n : Below(S, n) = f[n]
  BY <1>1 DEF Below, IsBelow, BelowAt
<1>3. IsBelow(S, f, Len(S))
  BY BelowExists
<1>. HIDE DEF f
<1>4. f[m] = BelowAt(S, f, m)
  BY <1>3 DEF IsBelow
<1>. QED
  BY <1>2, <1>4 DEF BelowAt

\* What is below m is not after m.
LEMMA BelowEarlier ==
  ASSUME NEW S, Ordered(S), NEW m \in 1..Len(S)
  PROVE  m \in Below(S, m) /\ Below(S, m) \subseteq 1..m
<1>. DEFINE T == {n \in Nat : Below(S, n) \subseteq 1..n}
<1>1. Len(S) \in Nat
  BY DEF Ordered
<1>2. ASSUME NEW n \in 1..Len(S), \A l \in 1..(n - 1) : l \in T PROVE n \in T
  <2>1. ASSUME NEW i \in DOMAIN S[n].inputs PROVE Below(S, S[n].inputs[i]) \subseteq 1..n
    <3>1. S[n].inputs[i] \in 1..(n - 1)
      BY DEF Ordered
    <3>2. Below(S, S[n].inputs[i]) \subseteq 1..S[n].inputs[i]
      BY <1>2, <3>1
    <3>. QED
      BY <1>1, <3>1, <3>2
  <2>2. n \in 1..n /\ n \in Nat
    BY <1>1
  <2>. QED
    BY <2>1, <2>2, BelowStep
<1>3. m \in T
  <2>. HIDE DEF T
  <2>. QED
    BY <1>1, <1>2, StrongInduction
<1>. QED
  BY <1>3, BelowStep

\* What is below n has its inputs below n.
LEMMA BelowClosed ==
  ASSUME NEW S, Ordered(S), NEW n \in 1..Len(S), NEW m \in Below(S, n),
         NEW i \in DOMAIN S[m].inputs
  PROVE  S[m].inputs[i] \in Below(S, n)
<1>. DEFINE u == S[m].inputs[i]
            T == {l \in Nat : m \in Below(S, l) => u \in Below(S, l)}
<1>1. Len(S) \in Nat
  BY DEF Ordered
<1>2. m \in 1..Len(S)
  BY <1>1, BelowEarlier
<1>3. u \in 1..(m - 1) /\ u \in 1..Len(S)
  BY <1>1, <1>2 DEF Ordered
<1>4. ASSUME NEW l \in 1..Len(S), \A k \in 1..(l - 1) : k \in T PROVE l \in T
  <2>. SUFFICES ASSUME m \in Below(S, l) PROVE u \in Below(S, l)
    BY <1>1
  <2>1. CASE m = l
    <3>1. u \in Below(S, u)
      BY <1>3, BelowEarlier
    <3>2. Below(S, u) \subseteq Below(S, m)
      BY <1>2, BelowStep
    <3>. QED
      BY <2>1, <3>1, <3>2
  <2>2. CASE m # l
    <3>1. PICK k \in DOMAIN S[l].inputs : m \in Below(S, S[l].inputs[k])
      BY <2>2, BelowStep
    <3>2. S[l].inputs[k] \in 1..(l - 1)
      BY DEF Ordered
    <3>3. u \in Below(S, S[l].inputs[k])
      BY <1>4, <3>1, <3>2
    <3>. QED
      BY <3>3, BelowStep
  <2>. QED
    BY <2>1, <2>2
<1>5. n \in T
  <2>. HIDE DEF T
  <2>. QED
    BY <1>1, <1>4, StrongInduction
<1>. QED
  BY <1>5

\* What is below something below a source is below it.
LEMMA BelowMore ==
  ASSUME NEW S, Ordered(S), NEW m \in 1..Len(S), NEW w \in Below(S, m)
  PROVE  w \in 1..Len(S) /\ Below(S, w) \subseteq Below(S, m)
<1>. DEFINE T == {l \in Nat : \A v \in Below(S, l) : v \in 1..Len(S) /\ Below(S, v) \subseteq Below(S, l)}
<1>1. Len(S) \in Nat
  BY DEF Ordered
<1>2. ASSUME NEW l \in 1..Len(S), \A k \in 1..(l - 1) : k \in T PROVE l \in T
  <2>. SUFFICES ASSUME NEW v \in Below(S, l)
                PROVE  v \in 1..Len(S) /\ Below(S, v) \subseteq Below(S, l)
    BY <1>1
  <2>1. Below(S, l) = {l} \cup UNION {Below(S, S[l].inputs[i]) : i \in DOMAIN S[l].inputs}
    BY BelowStep
  <2>2. CASE v = l
    BY <2>2
  <2>3. ASSUME NEW i \in DOMAIN S[l].inputs, v \in Below(S, S[l].inputs[i])
        PROVE  v \in 1..Len(S) /\ Below(S, v) \subseteq Below(S, l)
    <3>1. S[l].inputs[i] \in T
      BY <1>2 DEF Ordered
    <3>. QED
      BY <2>1, <2>3, <3>1
  <2>. QED
    BY <2>1, <2>2, <2>3
<1>3. m \in T
  <2>. HIDE DEF T
  <2>. QED
    BY <1>1, <1>2, StrongInduction
<1>. QED
  BY <1>3

\* What is below m is told by the inputs of the sources up to m.
LEMMA BelowSame ==
  ASSUME NEW S, Ordered(S), NEW S2, Ordered(S2), NEW m \in 1..Len(S), m \in 1..Len(S2),
         \A l \in 1..m : S2[l].inputs = S[l].inputs
  PROVE  Below(S2, m) = Below(S, m)
<1>. DEFINE T == {l \in Nat : Below(S2, l) = Below(S, l)}
<1>1. Len(S) \in Nat /\ Len(S2) \in Nat /\ m \in Nat
  BY DEF Ordered
<1>2. ASSUME NEW n \in 1..m, \A l \in 1..(n - 1) : l \in T PROVE n \in T
  <2>1. n \in 1..Len(S) /\ n \in 1..Len(S2) /\ S2[n].inputs = S[n].inputs
    BY <1>1
  <2>2. \A i \in DOMAIN S[n].inputs : S[n].inputs[i] \in 1..(n - 1)
    BY <2>1 DEF Ordered
  <2>3. \A i \in DOMAIN S[n].inputs : Below(S2, S[n].inputs[i]) = Below(S, S[n].inputs[i])
    BY <1>2, <2>2
  <2>4. /\ Below(S, n) = {n} \cup UNION {Below(S, S[n].inputs[i]) : i \in DOMAIN S[n].inputs}
        /\ Below(S2, n) = {n} \cup UNION {Below(S2, S[n].inputs[i]) : i \in DOMAIN S[n].inputs}
    BY <2>1, BelowStep
  <2>5. Below(S2, n) = Below(S, n)
    BY <2>3, <2>4
  <2>. QED
    BY <2>5
<1>3. m \in T
  <2>1. \A n \in 1..m : n \in T
    <3>. HIDE DEF T
    <3>. QED
      BY <1>1, <1>2, StrongInduction
  <2>. QED
    BY <1>1, <2>1
<1>. QED
  BY <1>3

TruthAt(truth, m) ==
  IF IsView(sources[m]) THEN sources[m].world
  ELSE Combine([i \in DOMAIN sources[m].inputs |-> truth[sources[m].inputs[i]]])

IsTruth(truth, n) == truth = [m \in 1..n |-> TruthAt(truth, m)]

\* So does the one that evaluates a chain from scratch.
LEMMA TruthExists ==
  ASSUME Ordered(sources)
  PROVE  \E truth : IsTruth(truth, Len(sources))
<1>. DEFINE T == {n \in Nat : n <= Len(sources) => \E truth : IsTruth(truth, n)}
<1>1. 0 \in T
  <2>1. IsTruth([m \in 1..0 |-> {}], 0)
    BY DEF IsTruth
  <2>. QED
    BY <2>1
<1>2. ASSUME NEW n \in Nat, n \in T PROVE n + 1 \in T
  <2>. SUFFICES ASSUME n + 1 <= Len(sources) PROVE \E truth : IsTruth(truth, n + 1)
    OBVIOUS
  <2>0. Len(sources) \in Nat
    BY DEF Ordered
  <2>1. PICK truth : IsTruth(truth, n)
    BY <1>2, <2>0
  <2>. DEFINE next == [m \in 1..(n + 1) |-> TruthAt(truth, m)]
  <2>2. \A m \in 1..n : next[m] = truth[m]
    <3>1. \A m \in 1..n : m \in 1..(n + 1)
      OBVIOUS
    <3>. QED
      BY <2>1, <3>1 DEF IsTruth
  <2>3. next = [m \in 1..(n + 1) |-> next[m]] /\ \A m \in 1..(n + 1) : next[m] = TruthAt(truth, m)
    OBVIOUS
  <2>. HIDE DEF next
  <2>4. ASSUME NEW m \in 1..(n + 1) PROVE next[m] = TruthAt(next, m)
    <3>. DEFINE inputs == sources[m].inputs
    <3>1. ASSUME NEW i \in DOMAIN inputs PROVE inputs[i] \in 1..n
      <4>1. m \in 1..Len(sources)
        BY <2>0
      <4>2. inputs[i] \in 1..(m - 1)
        BY <4>1 DEF Ordered
      <4>. QED
        BY <4>2
    <3>2. \A i \in DOMAIN inputs : next[inputs[i]] = truth[inputs[i]]
      BY <2>2, <3>1
    <3>3. [i \in DOMAIN inputs |-> next[inputs[i]]] = [i \in DOMAIN inputs |-> truth[inputs[i]]]
      BY <3>2
    <3>4. TruthAt(next, m) = TruthAt(truth, m)
      BY <3>3 DEF TruthAt
    <3>. QED
      BY <2>3, <3>4
  <2>5. IsTruth(next, n + 1)
    BY <2>3, <2>4 DEF IsTruth
  <2>. QED
    BY <2>5
<1>. HIDE DEF T
<1>3. Len(sources) \in T /\ Len(sources) \in Nat /\ Len(sources) <= Len(sources)
  BY <1>1, <1>2, SetInduction DEF Ordered
<1>. QED
  BY <1>3 DEF T

\* The truth of a view is its sum, that of a derived view the combination of the
\* truths of its inputs.
LEMMA TruthStep ==
  ASSUME Ordered(sources), NEW m \in 1..Len(sources)
  PROVE  Truth(m) = IF IsView(sources[m]) THEN sources[m].world
                    ELSE Combine([i \in DOMAIN sources[m].inputs |-> Truth(sources[m].inputs[i])])
<1>1. DOMAIN sources = 1..Len(sources)
  BY DEF Ordered
<1>. DEFINE f == CHOOSE truth : IsTruth(truth, Len(sources))
<1>2. \A n : Truth(n) = f[n]
  BY <1>1 DEF Truth, IsTruth, TruthAt
<1>3. IsTruth(f, Len(sources))
  BY TruthExists
<1>. HIDE DEF f
<1>4. f[m] = TruthAt(f, m)
  BY <1>3 DEF IsTruth
<1>5. [i \in DOMAIN sources[m].inputs |-> Truth(sources[m].inputs[i])] =
        [i \in DOMAIN sources[m].inputs |-> f[sources[m].inputs[i]]]
  BY <1>2
<1>. QED
  BY <1>2, <1>4, <1>5 DEF TruthAt

-----------------------------------------------------------------------------
(* Pending and settled sources.                                            *)

\* A view with events to work off; a derived view one of whose inputs has a
\* version that it has not seen.
Stale(S, m) == IF IsView(S[m]) THEN S[m].dirty
               ELSE Versions(S[m].inputs, S) # S[m].last_versions

Pending(S, m) == \E u \in Below(S, m) : Stale(S, u)

\* The value of a source is what its table, or its inputs, say now.
Settled(S, m) ==
  S[m].value = IF IsView(S[m]) THEN S[m].world
               ELSE Combine([i \in DOMAIN S[m].inputs |-> S[S[m].inputs[i]].value])

\* Excused: something below it owes a computation.
Excused(S, O, m) == Below(S, m) \cap O # {}

\* The inductive invariant: a source that is not settled is pending or excused.
ChainInv ==
  /\ WellFormed(sources)
  /\ \A m \in 1..Len(sources) :
       Pending(sources, m) \/ Settled(sources, m) \/ Excused(sources, owing, m)

\* A derived view that is not stale has seen the versions there are.
LEMMA SeenVersions ==
  ASSUME NEW S, WellFormed(S), NEW m \in 1..Len(S), ~IsView(S[m])
  PROVE  Stale(S, m) <=> \E i \in DOMAIN S[m].inputs :
                           S[m].last_versions[i] < S[S[m].inputs[i]].version
<1>. DEFINE inputs == S[m].inputs
            last == S[m].last_versions
<1>1. /\ last = [i \in DOMAIN inputs |-> last[i]]
      /\ \A i \in DOMAIN inputs : last[i] \in Nat /\ last[i] <= S[inputs[i]].version
  BY DEF WellFormed, IsDerivedRecord
<1>2. \A i \in DOMAIN inputs : inputs[i] \in 1..Len(S) /\ S[inputs[i]].version \in Nat
  <2>1. \A i \in DOMAIN inputs : inputs[i] \in 1..(m - 1)
    BY DEF WellFormed, Ordered
  <2>2. Len(S) \in Nat
    BY DEF WellFormed, Ordered
  <2>3. \A i \in DOMAIN inputs : inputs[i] \in 1..Len(S)
    BY <2>1, <2>2
  <2>. QED
    BY <2>3 DEF WellFormed
<1>3. Stale(S, m) <=> last # [i \in DOMAIN inputs |-> S[inputs[i]].version]
  BY DEF Stale, Versions
<1>. HIDE DEF inputs, last
<1>4. last # [i \in DOMAIN inputs |-> S[inputs[i]].version] <=>
        \E i \in DOMAIN inputs : last[i] # S[inputs[i]].version
  BY <1>1
<1>5. \A i \in DOMAIN inputs : last[i] # S[inputs[i]].version <=> last[i] < S[inputs[i]].version
  BY <1>1, <1>2
<1>. QED
  BY <1>3, <1>4, <1>5 DEF inputs, last

-----------------------------------------------------------------------------
(* The steps of a query.                                                   *)

\* Those that value() of some source has.
StepsOf(S) == {s \in Nat \X Nat : s[1] \in 1..Len(S) /\ s[2] \in 0..Len(S[s[1]].inputs)}

\* Lists put together, as SequencesExt does it.
IsFlat(flat, blocks, n) ==
  flat = [i \in 1..n |-> IF i = 1 THEN blocks[i] ELSE flat[i - 1] \o blocks[i]]

\* The loop that puts lists together has a result after each of them.
LEMMA FlatExists == ASSUME NEW blocks, NEW n \in Nat PROVE \E flat : IsFlat(flat, blocks, n)
<1>. DEFINE T == {m \in Nat : \E flat : IsFlat(flat, blocks, m)}
<1>1. 0 \in T
  <2>1. IsFlat([i \in 1..0 |-> 0], blocks, 0)
    BY DEF IsFlat
  <2>. QED
    BY <2>1
<1>2. ASSUME NEW m \in Nat, m \in T PROVE m + 1 \in T
  <2>1. PICK flat : IsFlat(flat, blocks, m)
    BY <1>2
  <2>. DEFINE last == IF m = 0 THEN blocks[1] ELSE flat[m] \o blocks[m + 1]
              more == [i \in 1..(m + 1) |-> IF i <= m THEN flat[i] ELSE last]
  <2>2. \A i \in 1..m : flat[i] = IF i = 1 THEN blocks[i] ELSE flat[i - 1] \o blocks[i]
    BY <2>1 DEF IsFlat
  <2>3. \A i \in 1..(m + 1) : more[i] = IF i <= m THEN flat[i] ELSE last
    OBVIOUS
  <2>. HIDE DEF more
  <2>4. ASSUME NEW i \in 1..(m + 1)
        PROVE  more[i] = IF i = 1 THEN blocks[i] ELSE more[i - 1] \o blocks[i]
    <3>1. CASE i <= m
      <4>1. i \in 1..m /\ (i # 1 => i - 1 \in 1..(m + 1) /\ i - 1 <= m)
        BY <3>1
      <4>2. more[i] = flat[i] /\ (i # 1 => more[i - 1] = flat[i - 1])
        BY <2>3, <3>1, <4>1
      <4>. QED
        BY <2>2, <4>1, <4>2
    <3>2. CASE ~(i <= m)
      <4>1. i = m + 1 /\ (i # 1 => m \in 1..(m + 1) /\ m # 0 /\ i - 1 = m)
        BY <3>2
      <4>2. more[i] = last /\ (i # 1 => more[i - 1] = flat[m])
        BY <2>3, <3>2, <4>1
      <4>. QED
        BY <4>1, <4>2
    <3>. QED
      BY <3>1, <3>2
  <2>5. more = [i \in 1..(m + 1) |-> more[i]]
    BY DEF more
  <2>6. IsFlat(more, blocks, m + 1)
    BY <2>4, <2>5 DEF IsFlat
  <2>. QED
    BY <2>6
<1>. HIDE DEF T
<1>3. n \in T
  BY <1>1, <1>2, SetInduction
<1>. QED
  BY <1>3 DEF T

\* What it has after each of them, from no list on.
LEMMA FlatStages ==
  ASSUME NEW T, NEW n \in Nat, NEW blocks \in [1..n -> Seq(T)]
  PROVE  \E flat \in [0..n -> Seq(T)] :
           /\ flat[0] = << >>
           /\ \A i \in 1..n : flat[i] = flat[i - 1] \o blocks[i]
           /\ Seqs!FlattenSeq(blocks) = flat[n]
<1>0. Len(blocks) = n
  OBVIOUS
<1>. DEFINE f == CHOOSE flat : IsFlat(flat, blocks, n)
            flat == [i \in 0..n |-> IF i = 0 THEN << >> ELSE f[i]]
<1>1. Seqs!FlattenSeq(blocks) = IF n = 0 THEN blocks ELSE f[n]
  BY <1>0 DEF Seqs!FlattenSeq, IsFlat
<1>2. \A i \in 1..n : f[i] = IF i = 1 THEN blocks[i] ELSE f[i - 1] \o blocks[i]
  <2>1. IsFlat(f, blocks, n)
    BY FlatExists
  <2>. HIDE DEF f
  <2>. QED
    BY <2>1 DEF IsFlat
<1>. HIDE DEF f
<1>3. flat[0] = << >> /\ \A i \in 1..n : flat[i] = f[i]
  OBVIOUS
<1>4. \A i \in 1..n : i - 1 \in 0..n /\ i \in 0..n /\ (i # 1 => i - 1 \in 1..n)
  OBVIOUS
<1>5. flat = [i \in 0..n |-> flat[i]]
  OBVIOUS
<1>. HIDE DEF flat
<1>6. \A i \in 1..n : flat[i] = flat[i - 1] \o blocks[i]
  <2>. SUFFICES ASSUME NEW i \in 1..n PROVE flat[i] = flat[i - 1] \o blocks[i]
    OBVIOUS
  <2>1. CASE i = 1
    <3>1. flat[i] = blocks[i] /\ flat[i - 1] = << >>
      BY <1>2, <1>3, <2>1
    <3>2. blocks[i] \in Seq(T)
      OBVIOUS
    <3>. QED
      BY <3>1, <3>2
  <2>2. CASE i # 1
    BY <1>2, <1>3, <1>4, <2>2
  <2>. QED
    BY <2>1, <2>2
<1>7. \A i \in 0..n : flat[i] \in Seq(T)
  <2>. DEFINE I == {i \in Nat : i <= n => flat[i] \in Seq(T)}
  <2>1. 0 \in I
    <3>1. << >> \in Seq(T)
      OBVIOUS
    <3>. QED
      BY <1>3, <3>1
  <2>2. ASSUME NEW i \in Nat, i \in I PROVE i + 1 \in I
    <3>. SUFFICES ASSUME i + 1 <= n PROVE flat[i + 1] \in Seq(T)
      OBVIOUS
    <3>1. i + 1 \in 1..n /\ (i + 1) - 1 = i /\ flat[i] \in Seq(T)
      BY <2>2
    <3>2. blocks[i + 1] \in Seq(T) /\ flat[i + 1] = flat[i] \o blocks[i + 1]
      BY <1>6, <3>1
    <3>. QED
      BY <3>1, <3>2
  <2>. HIDE DEF I
  <2>3. \A i \in Nat : i \in I
    BY <2>1, <2>2, SetInduction
  <2>. QED
    BY <2>3 DEF I
<1>8. flat \in [0..n -> Seq(T)]
  BY <1>5, <1>7
<1>9. Seqs!FlattenSeq(blocks) = flat[n]
  <2>1. CASE n = 0
    <3>1. blocks = << >>
      BY <2>1
    <3>. QED
      BY <1>1, <1>3, <2>1, <3>1
  <2>2. CASE n # 0
    <3>1. n \in 1..n
      BY <2>2
    <3>. QED
      BY <1>1, <1>3, <2>2, <3>1
  <2>. QED
    BY <2>1, <2>2
<1>. QED
  BY <1>3, <1>6, <1>8, <1>9

StepsAt(S, steps, m) ==
  Seqs!FlattenSeq([i \in DOMAIN S[m].inputs |-> Append(steps[S[m].inputs[i]], <<m, i>>)])
    \o << <<m, 0>> >>

IsSteps(S, steps, n) == steps = [m \in 1..n |-> StepsAt(S, steps, m)]

\* The recursive function that lists the steps of each source exists.
LEMMA StepsExist ==
  ASSUME NEW S, Ordered(S)
  PROVE  \E steps : IsSteps(S, steps, Len(S))
<1>. DEFINE T == {n \in Nat : n <= Len(S) => \E steps : IsSteps(S, steps, n)}
<1>1. 0 \in T
  <2>1. IsSteps(S, [m \in 1..0 |-> {}], 0)
    BY DEF IsSteps
  <2>. QED
    BY <2>1
<1>2. ASSUME NEW n \in Nat, n \in T PROVE n + 1 \in T
  <2>. SUFFICES ASSUME n + 1 <= Len(S) PROVE \E steps : IsSteps(S, steps, n + 1)
    OBVIOUS
  <2>0. Len(S) \in Nat
    BY DEF Ordered
  <2>1. PICK steps : IsSteps(S, steps, n)
    BY <1>2, <2>0
  <2>. DEFINE next == [m \in 1..(n + 1) |-> StepsAt(S, steps, m)]
  <2>2. \A m \in 1..n : next[m] = steps[m]
    <3>1. \A m \in 1..n : m \in 1..(n + 1)
      OBVIOUS
    <3>. QED
      BY <2>1, <3>1 DEF IsSteps
  <2>3. next = [m \in 1..(n + 1) |-> next[m]]
        /\ \A m \in 1..(n + 1) : next[m] = StepsAt(S, steps, m)
    OBVIOUS
  <2>. HIDE DEF next
  <2>4. ASSUME NEW m \in 1..(n + 1) PROVE next[m] = StepsAt(S, next, m)
    <3>1. ASSUME NEW i \in DOMAIN S[m].inputs PROVE S[m].inputs[i] \in 1..n
      <4>1. m \in 1..Len(S)
        BY <2>0
      <4>2. S[m].inputs[i] \in 1..(m - 1)
        BY <4>1 DEF Ordered
      <4>. QED
        BY <4>2
    <3>2. [i \in DOMAIN S[m].inputs |-> Append(next[S[m].inputs[i]], <<m, i>>)] =
            [i \in DOMAIN S[m].inputs |-> Append(steps[S[m].inputs[i]], <<m, i>>)]
      BY <2>2, <3>1
    <3>3. StepsAt(S, next, m) = StepsAt(S, steps, m)
      BY <3>2 DEF StepsAt
    <3>. QED
      BY <2>3, <3>3
  <2>5. IsSteps(S, next, n + 1)
    BY <2>3, <2>4 DEF IsSteps
  <2>. QED
    BY <2>5
<1>. HIDE DEF T
<1>3. Len(S) \in T /\ Len(S) \in Nat /\ Len(S) <= Len(S)
  BY <1>1, <1>2, SetInduction DEF Ordered
<1>. QED
  BY <1>3 DEF T

\* The steps of a source are those of its inputs, each list of them followed by
\* the step of the loop, and its own end.
LEMMA StepsStep ==
  ASSUME NEW S, Ordered(S), NEW m \in 1..Len(S)
  PROVE  Steps(S, m) =
           Seqs!FlattenSeq([i \in DOMAIN S[m].inputs |-> Append(Steps(S, S[m].inputs[i]), <<m, i>>)])
             \o << <<m, 0>> >>
<1>1. DOMAIN S = 1..Len(S)
  BY DEF Ordered
<1>. DEFINE f == CHOOSE steps : IsSteps(S, steps, Len(S))
<1>2. \A n : Steps(S, n) = f[n]
  BY <1>1 DEF Steps, IsSteps, StepsAt
<1>3. IsSteps(S, f, Len(S))
  BY StepsExist
<1>. HIDE DEF f
<1>4. f[m] = StepsAt(S, f, m)
  BY <1>3 DEF IsSteps
<1>5. [i \in DOMAIN S[m].inputs |-> Append(Steps(S, S[m].inputs[i]), <<m, i>>)] =
        [i \in DOMAIN S[m].inputs |-> Append(f[S[m].inputs[i]], <<m, i>>)]
  BY <1>2
<1>. QED
  BY <1>2, <1>4, <1>5 DEF StepsAt

\* They are steps of sources that there are.
LEMMA StepsSeq ==
  ASSUME NEW S, Ordered(S), NEW n \in 1..Len(S)
  PROVE  Steps(S, n) \in Seq(StepsOf(S))
<1>. DEFINE T == {m \in Nat : Steps(S, m) \in Seq(StepsOf(S))}
<1>1. Len(S) \in Nat
  BY DEF Ordered
<1>2. ASSUME NEW m \in 1..Len(S), \A l \in 1..(m - 1) : l \in T PROVE m \in T
  <2>. DEFINE inputs == S[m].inputs
              blocks == [i \in DOMAIN inputs |-> Append(Steps(S, inputs[i]), <<m, i>>)]
              U == StepsOf(S)
  <2>1. inputs \in Seq(Nat) /\ DOMAIN inputs = 1..Len(inputs) /\ Len(inputs) \in Nat
    <3>1. inputs \in Seq(Nat)
      BY DEF Ordered
    <3>. HIDE DEF inputs
    <3>. QED
      BY <3>1
  <2>2. m \in Nat /\ <<m, 0>> \in U /\ \A i \in DOMAIN inputs : <<m, i>> \in U
    BY <1>1, <2>1 DEF StepsOf
  <2>3. \A i \in DOMAIN inputs : Steps(S, inputs[i]) \in Seq(U)
    <3>1. \A i \in DOMAIN inputs : inputs[i] \in 1..(m - 1)
      BY DEF Ordered
    <3>. QED
      BY <1>2, <3>1
  <2>. HIDE DEF U, inputs
  <2>4. blocks \in [1..Len(inputs) -> Seq(U)]
    <3>1. \A i \in DOMAIN inputs : Append(Steps(S, inputs[i]), <<m, i>>) \in Seq(U)
      BY <2>2, <2>3
    <3>. QED
      BY <2>1, <3>1
  <2>. HIDE DEF blocks
  <2>5. Seqs!FlattenSeq(blocks) \in Seq(U)
    <3>. DEFINE c == Len(inputs)
    <3>0. c \in Nat /\ blocks \in [1..c -> Seq(U)]
      BY <2>1, <2>4
    <3>. HIDE DEF c
    <3>1. PICK flat \in [0..c -> Seq(U)] : /\ flat[0] = << >>
                                           /\ \A i \in 1..c : flat[i] = flat[i - 1] \o blocks[i]
                                           /\ Seqs!FlattenSeq(blocks) = flat[c]
      BY <3>0, FlatStages
    <3>2. c \in 0..c
      BY <3>0
    <3>. QED
      BY <3>1, <3>2
  <2>6. Steps(S, m) = Seqs!FlattenSeq(blocks) \o << <<m, 0>> >>
    BY StepsStep DEF blocks, inputs
  <2>7. << <<m, 0>> >> \in Seq(U)
    BY <2>2
  <2>8. Steps(S, m) \in Seq(U)
    BY <2>5, <2>6, <2>7
  <2>. QED
    BY <2>2, <2>8 DEF U
<1>3. n \in T
  <2>. HIDE DEF T
  <2>. QED
    BY <1>1, <1>2, StrongInduction
<1>. QED
  BY <1>3

\* The list t stands in the list s, after its first a elements.
Segment(s, a, t) == /\ a + Len(t) <= Len(s)
                    /\ \A j \in 1..Len(t) : s[a + j] = t[j]

\* What stands in a segment of a list stands in the list.
LEMMA SegmentTransitive ==
  ASSUME NEW U, NEW r \in Seq(U), NEW s \in Seq(U), NEW t \in Seq(U), NEW a \in Nat, NEW b \in Nat,
         Segment(r, a, s), Segment(s, b, t)
  PROVE  Segment(r, a + b, t)
<1>. DEFINE n == Len(r)
            m == Len(s)
            k == Len(t)
<1>1. n \in Nat /\ m \in Nat /\ k \in Nat /\ a + m <= n /\ b + k <= m
  BY DEF Segment
<1>2. \A j \in 1..m : r[a + j] = s[j]
  BY DEF Segment
<1>3. \A j \in 1..k : s[b + j] = t[j]
  BY DEF Segment
<1>. HIDE DEF n, m, k
<1>4. (a + b) + k <= n
  BY <1>1
<1>5. \A j \in 1..k : b + j \in 1..m /\ a + (b + j) = (a + b) + j
  BY <1>1
<1>6. \A j \in 1..k : r[(a + b) + j] = t[j]
  BY <1>2, <1>3, <1>5
<1>. QED
  BY <1>4, <1>6 DEF Segment, n, k

\* Two lists stand in the one that they are put together to.
LEMMA SegmentsOfJoin ==
  ASSUME NEW U, NEW s \in Seq(U), NEW t \in Seq(U)
  PROVE  Segment(s \o t, 0, s) /\ Segment(s \o t, Len(s), t)
  BY DEF Segment

\* Where the steps of the inputs stand in those of a derived view: after the
\* first i inputs it has taken off[i] steps.
IsLayout(S, m, off) ==
  LET inputs == S[m].inputs
      steps  == Steps(S, m)
  IN  /\ off \in [0..Len(inputs) -> Nat]
      /\ off[0] = 0
      /\ Len(steps) = off[Len(inputs)] + 1
      /\ steps[Len(steps)] = <<m, 0>>
      /\ \A i \in 1..Len(inputs) :
           /\ Segment(steps, off[i - 1], Steps(S, inputs[i]))
           /\ off[i] = off[i - 1] + Len(Steps(S, inputs[i])) + 1
           /\ off[i] <= Len(steps)
           /\ steps[off[i]] = <<m, i>>

\* There are such places.
LEMMA CallLayout ==
  ASSUME NEW S, Ordered(S), NEW m \in 1..Len(S)
  PROVE  \E off : IsLayout(S, m, off)
<1>. DEFINE inputs == S[m].inputs
            steps == Steps(S, m)
            part(i) == Steps(S, inputs[i])
            blocks == [i \in DOMAIN inputs |-> Append(part(i), <<m, i>>)]
            U == StepsOf(S)
            c == Len(inputs)
<1>1. DOMAIN inputs = 1..c /\ c \in Nat
  <2>1. inputs \in Seq(Nat)
    BY DEF Ordered
  <2>. HIDE DEF inputs
  <2>. QED
    BY <2>1
<1>2. /\ <<m, 0>> \in U
      /\ \A i \in 1..c : <<m, i>> \in U
      /\ \A i \in 1..c : part(i) \in Seq(U)
  <2>1. Len(S) \in Nat
    BY DEF Ordered
  <2>2. \A i \in 1..c : inputs[i] \in 1..Len(S)
    <3>1. \A i \in DOMAIN inputs : inputs[i] \in 1..(m - 1)
      BY DEF Ordered
    <3>. HIDE DEF inputs, c
    <3>. QED
      BY <1>1, <2>1, <3>1
  <2>3. <<m, 0>> \in U /\ \A i \in 1..c : <<m, i>> \in U
    BY <1>1, <2>1 DEF StepsOf
  <2>. QED
    BY <2>2, <2>3, StepsSeq
<1>3. steps = Seqs!FlattenSeq(blocks) \o << <<m, 0>> >>
  BY StepsStep
<1>. HIDE DEF inputs, steps, part, c, U
<1>4. blocks \in [1..c -> Seq(U)] /\ \A i \in 1..c : blocks[i] = Append(part(i), <<m, i>>)
  BY <1>1, <1>2
<1>. HIDE DEF blocks
<1>5. PICK flat \in [0..c -> Seq(U)] : /\ flat[0] = << >>
                                       /\ \A i \in 1..c : flat[i] = flat[i - 1] \o blocks[i]
                                       /\ Seqs!FlattenSeq(blocks) = flat[c]
  BY <1>1, <1>4, FlatStages
<1>6. steps = flat[c] \o << <<m, 0>> >> /\ flat[c] \in Seq(U) /\ << <<m, 0>> >> \in Seq(U)
  BY <1>1, <1>2, <1>3, <1>5
<1>7. /\ steps \in Seq(U) /\ Len(steps) = Len(flat[c]) + 1 /\ steps[Len(steps)] = <<m, 0>>
      /\ Segment(steps, 0, flat[c])
  <2>1. Segment(steps, 0, flat[c])
    BY <1>6, SegmentsOfJoin
  <2>2. \A s, t : s \in Seq(U) /\ t \in U => /\ s \o <<t>> \in Seq(U) /\ Len(s \o <<t>>) = Len(s) + 1
                                            /\ (s \o <<t>>)[Len(s) + 1] = t
    OBVIOUS
  <2>. QED
    BY <1>2, <1>6, <2>1, <2>2
<1>8. \A i \in 0..c : Segment(steps, 0, flat[i])
  <2>. DEFINE I == {i \in Nat : i <= c => Segment(steps, 0, flat[c - i])}
  <2>1. 0 \in I
    <3>1. c - 0 = c
      BY <1>1
    <3>. QED
      BY <1>7, <3>1
  <2>2. ASSUME NEW i \in Nat, i \in I PROVE i + 1 \in I
    <3>. SUFFICES ASSUME i + 1 <= c PROVE Segment(steps, 0, flat[c - (i + 1)])
      OBVIOUS
    <3>. DEFINE j == c - i
    <3>1. j \in 1..c /\ j - 1 \in 0..c /\ c - (i + 1) = j - 1 /\ i <= c /\ j \in 0..c
      BY <1>1
    <3>. HIDE DEF j
    <3>2. flat[j] = flat[j - 1] \o blocks[j] /\ flat[j - 1] \in Seq(U) /\ blocks[j] \in Seq(U)
          /\ flat[j] \in Seq(U)
      BY <1>4, <1>5, <3>1
    <3>3. Segment(flat[j], 0, flat[j - 1])
      BY <3>2, SegmentsOfJoin
    <3>4. Segment(steps, 0, flat[j])
      BY <2>2, <3>1 DEF j
    <3>5. Segment(steps, 0 + 0, flat[j - 1])
      BY <1>7, <3>2, <3>3, <3>4, SegmentTransitive
    <3>. QED
      BY <3>1, <3>5
  <2>. HIDE DEF I
  <2>3. \A i \in Nat : i \in I
    BY <2>1, <2>2, SetInduction
  <2>4. \A i \in 0..c : c - i \in Nat /\ c - i <= c /\ c - (c - i) = i
    BY <1>1
  <2>. QED
    BY <2>3, <2>4 DEF I
<1>. DEFINE off == [i \in 0..c |-> Len(flat[i])]
<1>9. off \in [0..c -> Nat] /\ off[0] = 0 /\ Len(steps) = off[c] + 1
  <2>1. \A i \in 0..c : Len(flat[i]) \in Nat
    BY <1>5
  <2>2. Len(flat[0]) = 0 /\ c \in 0..c /\ 0 \in 0..c
    BY <1>1, <1>5
  <2>. QED
    BY <1>7, <2>1, <2>2
<1>10. ASSUME NEW i \in 1..c
       PROVE  /\ Segment(steps, off[i - 1], part(i))
              /\ off[i] = off[i - 1] + Len(part(i)) + 1
              /\ off[i] <= Len(steps)
              /\ steps[off[i]] = <<m, i>>
  <2>1. i \in 0..c /\ i - 1 \in 0..c
    BY <1>1
  <2>2. /\ flat[i] \in Seq(U) /\ flat[i - 1] \in Seq(U) /\ flat[i] = flat[i - 1] \o blocks[i]
        /\ part(i) \in Seq(U) /\ <<m, i>> \in U /\ blocks[i] = Append(part(i), <<m, i>>)
    BY <1>2, <1>4, <1>5, <2>1
  <2>3. off[i] = Len(flat[i]) /\ off[i - 1] = Len(flat[i - 1])
    BY <2>1
  <2>4. /\ blocks[i] \in Seq(U) /\ Len(blocks[i]) = Len(part(i)) + 1
        /\ blocks[i][Len(blocks[i])] = <<m, i>> /\ Segment(blocks[i], 0, part(i))
    <3>. DEFINE t == part(i)
    <3>1. \A x \in U : /\ Append(t, x) \in Seq(U) /\ Len(Append(t, x)) = Len(t) + 1
                       /\ Append(t, x)[Len(t) + 1] = x
      BY <2>2
    <3>2. \A x \in U : Segment(Append(t, x), 0, t)
      BY <2>2 DEF Segment
    <3>. QED
      BY <2>2, <3>1, <3>2
  <2>5. Segment(flat[i], Len(flat[i - 1]), blocks[i])
    BY <2>2, <2>4, SegmentsOfJoin
  <2>6. Segment(steps, 0 + Len(flat[i - 1]), blocks[i])
    <3>. DEFINE x == flat[i]
                y == Len(flat[i - 1])
                z == blocks[i]
    <3>1. Segment(steps, 0, x)
      BY <1>8, <2>1
    <3>4. Segment(x, y, z)
      BY <2>5
    <3>5. y \in Nat
      BY <2>2
    <3>2. steps \in Seq(U) /\ x \in Seq(U) /\ z \in Seq(U)
      BY <1>7, <2>2, <2>4
    <3>. HIDE DEF x, y, z
    <3>3. Segment(steps, 0 + y, z)
      BY <3>1, <3>2, <3>4, <3>5, SegmentTransitive
    <3>. QED
      BY <3>3 DEF y, z
  <2>. DEFINE a == Len(flat[i - 1])
              k == Len(part(i))
  <2>7. a \in Nat /\ k \in Nat /\ Len(steps) \in Nat
    BY <1>7, <2>2
  <2>8. Segment(steps, a, blocks[i])
    BY <2>6, <2>7
  <2>9. Segment(steps, a + 0, part(i))
    BY <1>7, <2>2, <2>4, <2>7, <2>8, SegmentTransitive
  <2>10. Len(flat[i]) = a + (k + 1)
    BY <2>2, <2>4
  <2>11. a + (k + 1) <= Len(steps) /\ steps[a + (k + 1)] = <<m, i>>
    <3>1. \A j \in 1..(k + 1) : steps[a + j] = blocks[i][j]
      BY <2>4, <2>8 DEF Segment
    <3>2. k + 1 \in 1..(k + 1)
      BY <2>7
    <3>. QED
      BY <2>4, <2>8, <3>1, <3>2 DEF Segment
  <2>12. off[i - 1] = a /\ off[i] = a + (k + 1)
    BY <2>3, <2>10
  <2>. HIDE DEF off, a, k
  <2>13. a + 0 = a /\ a + (k + 1) = a + k + 1
    BY <2>7
  <2>. QED
    BY <2>9, <2>11, <2>12, <2>13 DEF k
<1>. HIDE DEF off
<1>11. IsLayout(S, m, off)
  BY <1>7, <1>9, <1>10, Zenon DEF IsLayout, inputs, steps, part, c
<1>. QED
  BY <1>11


-----------------------------------------------------------------------------
(* What one step of a query does.                                          *)

SameShape(S, R) ==
  /\ Len(R) = Len(S)
  /\ \A m \in 1..Len(S) : /\ R[m].inputs = S[m].inputs
                          /\ IsView(S[m]) => R[m].world = S[m].world

\* A source m that is changed, and no other: its version does not go back.
LEMMA RenewedShape ==
  ASSUME NEW R, WellFormed(R), NEW m \in 1..Len(R), NEW R2,
         R2 = [l \in 1..Len(R) |-> R2[l]], \A l \in 1..Len(R) : l # m => R2[l] = R[l],
         R2[m].inputs = R[m].inputs, R2[m].version \in Nat, R[m].version <= R2[m].version,
         IsView(R[m]) => IsViewRecord(R2[m]) /\ R2[m].world = R[m].world,
         ~IsView(R[m]) => IsDerivedRecord(R, R2[m])
  PROVE  WellFormed(R2) /\ SameShape(R, R2)
<1>1. /\ Len(R) \in Nat /\ R = [l \in 1..Len(R) |-> R[l]]
      /\ \A l \in 1..Len(R) : R[l].inputs \in Seq(Nat)
                              /\ \A i \in DOMAIN R[l].inputs : R[l].inputs[i] \in 1..(l - 1)
  BY DEF WellFormed, Ordered
<1>2. /\ DOMAIN R2 = 1..Len(R) /\ R2 = [l \in 1..Len(R) |-> R2[l]]
      /\ \A l \in 1..Len(R) : l # m => R2[l] = R[l]
  BY <1>1
<1>3. Len(R2) = Len(R)
  BY <1>1, <1>2
<1>4. \A l \in 1..Len(R) : R2[l].inputs = R[l].inputs /\ (IsView(R[l]) => R2[l].world = R[l].world)
  BY <1>2
<1>5. Ordered(R2)
  BY <1>1, <1>2, <1>3, <1>4 DEF Ordered
<1>6. \A l \in 1..Len(R) : R[l].version \in Nat /\ R2[l].version \in Nat /\ R[l].version <= R2[l].version
  BY <1>2 DEF WellFormed
<1>7. ASSUME NEW l \in 1..Len(R)
      PROVE  /\ IsView(R2[l]) => IsViewRecord(R2[l])
             /\ ~IsView(R2[l]) => IsDerivedRecord(R2, R2[l])
  <2>1. IsView(R2[l]) <=> IsView(R[l])
    BY <1>4 DEF IsView
  <2>2. IsView(R[l]) => IsViewRecord(R2[l])
    BY <1>2 DEF WellFormed
  <2>3. ~IsView(R[l]) => IsDerivedRecord(R, R2[l])
    BY <1>2 DEF WellFormed
  <2>4. ASSUME IsDerivedRecord(R, R2[l]) PROVE IsDerivedRecord(R2, R2[l])
    <3>1. \A i \in DOMAIN R2[l].inputs : R2[l].inputs[i] \in 1..Len(R)
      BY <1>1, <1>4
    <3>2. ASSUME NEW i \in DOMAIN R2[l].inputs
          PROVE  /\ R2[l].last_versions[i] \in Nat
                 /\ R2[l].last_versions[i] <= R2[R2[l].inputs[i]].version
      <4>. DEFINE u == R2[l].inputs[i]
                  seen == R2[l].last_versions[i]
      <4>1. seen \in Nat /\ seen <= R[u].version
        BY <2>4 DEF IsDerivedRecord
      <4>2. R[u].version \in Nat /\ R2[u].version \in Nat /\ R[u].version <= R2[u].version
        BY <1>6, <3>1
      <4>. HIDE DEF u, seen
      <4>3. seen <= R2[u].version
        BY <4>1, <4>2
      <4>. QED
        BY <4>1, <4>3 DEF u, seen
    <3>. QED
      BY <2>4, <3>2 DEF IsDerivedRecord
  <2>. QED
    BY <2>1, <2>2, <2>3, <2>4
<1>8. WellFormed(R2)
  BY <1>3, <1>5, <1>6, <1>7 DEF WellFormed
<1>. QED
  BY <1>3, <1>4, <1>8 DEF SameShape

\* A step that keeps the shape of what has the shape of S.
LEMMA ShapeKept ==
  ASSUME NEW S, NEW R, NEW R2, SameShape(S, R), SameShape(R, R2)
  PROVE  SameShape(S, R2)
  BY DEF SameShape, IsView

\* What a source m says of itself and of its inputs does not change with a step
\* that leaves them alone.
LEMMA Unaffected ==
  ASSUME NEW R, NEW R2, NEW m, R2[m] = R[m],
         \A i \in DOMAIN R[m].inputs : R2[R[m].inputs[i]] = R[R[m].inputs[i]]
  PROVE  /\ Stale(R2, m) = Stale(R, m)
         /\ Settled(R2, m) = Settled(R, m)
<1>1. Versions(R2[m].inputs, R2) = Versions(R[m].inputs, R)
  BY DEF Versions
<1>2. [i \in DOMAIN R2[m].inputs |-> R2[R2[m].inputs[i]].value] =
        [i \in DOMAIN R[m].inputs |-> R[R[m].inputs[i]].value]
  OBVIOUS
<1>. QED
  BY <1>1, <1>2, Zenon DEF Stale, Settled

\* A query under way over the sources S.
IsQuery(S, Q) ==
  /\ Q = [sources |-> Q.sources, changed |-> Q.changed, vals |-> Q.vals]
  /\ WellFormed(Q.sources)
  /\ SameShape(S, Q.sources)
  /\ Q.vals = [m \in 1..Len(S) |-> Q.vals[m]]

\* Q2 is Q but for the source m and the call of its value().
OnlyOf(S, Q, Q2, m) ==
  \A l \in 1..Len(S) : l # m => /\ Q2.sources[l] = Q.sources[l]
                                /\ Q2.vals[l] = Q.vals[l]
                                /\ l \in Q2.changed <=> l \in Q.changed

\* A view refreshes itself.
LEMMA ViewStep ==
  ASSUME NEW S, NEW Q, IsQuery(S, Q), NEW m \in 1..Len(S), IsView(S[m]), NEW i
  PROVE  LET Q2 == Step(Q, m, i)
             R  == Q.sources
             R2 == Q2.sources
         IN  /\ IsQuery(S, Q2) /\ OnlyOf(S, Q, Q2, m)
             /\ Q2.vals[m] = Q.vals[m] /\ (m \in Q2.changed <=> m \in Q.changed)
             /\ R2[m] = IF R[m].dirty
                        THEN [inputs |-> << >>, world |-> R[m].world, dirty |-> FALSE,
                              value |-> R[m].world, version |-> R[m].version + 1]
                        ELSE R[m]
<1>. DEFINE Q2 == Step(Q, m, i)
            R  == Q.sources
            R2 == RefreshView(R, m)
            new == [inputs |-> << >>, world |-> R[m].world, dirty |-> FALSE,
                    value |-> R[m].world, version |-> R[m].version + 1]
<1>1. /\ Q = [sources |-> R, changed |-> Q.changed, vals |-> Q.vals]
      /\ WellFormed(R) /\ SameShape(S, R) /\ Q.vals = [l \in 1..Len(S) |-> Q.vals[l]]
      /\ Len(R) = Len(S) /\ m \in 1..Len(R)
  BY DEF IsQuery, SameShape
<1>2. R[m].inputs = << >> /\ IsView(R[m]) /\ IsViewRecord(R[m])
  BY <1>1 DEF SameShape, WellFormed, IsView
<1>3. Q2 = [sources |-> R2, changed |-> Q.changed, vals |-> Q.vals]
  <2>1. Q2 = [Q EXCEPT !.sources = R2]
    BY <1>2 DEF Step
  <2>. HIDE DEF R2, Q2
  <2>. QED
    BY <1>1, <2>1
<1>4. R = [l \in 1..Len(R) |-> R[l]]
  BY <1>1 DEF WellFormed, Ordered
<1>5. CASE ~R[m].dirty
  <2>1. R2 = R
    BY <1>5 DEF RefreshView
  <2>2. Q2 = Q
    BY <1>1, <1>3, <2>1
  <2>. HIDE DEF Q2
  <2>. QED
    BY <1>5, <2>2 DEF OnlyOf, Q2
<1>6. CASE R[m].dirty
  <2>1. R2 = [R EXCEPT ![m].value = R[m].world, ![m].dirty = FALSE, ![m].version = @ + 1]
    BY <1>6 DEF RefreshView
  <2>2. R2[m] = new
    BY <1>1, <1>2, <1>4, <2>1 DEF IsViewRecord
  <2>3. R2 = [l \in 1..Len(R) |-> R2[l]] /\ \A l \in 1..Len(R) : l # m => R2[l] = R[l]
    BY <1>1, <1>4, <2>1
  <2>. HIDE DEF R2
  <2>4. IsViewRecord(R2[m])
    BY <2>2 DEF IsViewRecord
  <2>5. WellFormed(R2) /\ SameShape(R, R2)
    <3>1. R[m].version \in Nat
      BY <1>1 DEF WellFormed
    <3>2. R2[m].inputs = R[m].inputs /\ R2[m].version = R[m].version + 1 /\ R2[m].world = R[m].world
      BY <1>2, <2>2
    <3>3. R2[m].version \in Nat /\ R[m].version <= R2[m].version
      BY <3>1, <3>2
    <3>. HIDE DEF new, R
    <3>. QED
      BY <1>1, <1>2, <2>3, <2>4, <3>2, <3>3, RenewedShape
  <2>6. SameShape(S, R2)
    BY <1>1, <2>5, ShapeKept
  <2>. HIDE DEF R, Q2, new
  <2>7. IsQuery(S, Q2) /\ OnlyOf(S, Q, Q2, m) /\ Q2.sources = R2
        /\ Q2.vals = Q.vals /\ Q2.changed = Q.changed
    BY <1>1, <1>3, <2>3, <2>5, <2>6 DEF IsQuery, OnlyOf, R
  <2>. QED
    BY <1>6, <2>2, <2>7 DEF Q2, R, new
<1>. QED
  BY <1>5, <1>6

\* Q2 is Q after source m has looked at its input i.
InputCompared(S, Q, Q2, m, i) ==
  LET R  == Q.sources
      R2 == Q2.sources
      u  == S[m].inputs[i]
  IN  /\ OnlyOf(S, Q, Q2, m)
      /\ R2[m] = [inputs |-> S[m].inputs,
                  last_versions |-> [j \in DOMAIN S[m].inputs |->
                    IF j = i THEN R[u].version ELSE R[m].last_versions[j]],
                  value |-> R[m].value, version |-> R[m].version]
      /\ Q2.vals[m] = Append(Q.vals[m], R[u].value)
      /\ m \in Q2.changed <=> m \in Q.changed \/ R[u].version # R[m].last_versions[i]

\* A derived view remembers the version of an input that has returned.
LEMMA CompareStep ==
  ASSUME NEW S, NEW Q, IsQuery(S, Q), NEW m \in 1..Len(S), ~IsView(S[m]),
         NEW i \in 1..Len(S[m].inputs)
  PROVE  IsQuery(S, Step(Q, m, i)) /\ InputCompared(S, Q, Step(Q, m, i), m, i)
<1>. DEFINE Q2 == Step(Q, m, i)
            R  == Q.sources
            inputs == S[m].inputs
            u == inputs[i]
            R2 == [R EXCEPT ![m].last_versions[i] = R[u].version]
            last == R[m].last_versions
            seen == [j \in DOMAIN inputs |-> IF j = i THEN R[u].version ELSE last[j]]
            new == [inputs |-> inputs, last_versions |-> seen, value |-> R[m].value,
                    version |-> R[m].version]
<1>1. /\ Q = [sources |-> R, changed |-> Q.changed, vals |-> Q.vals]
      /\ WellFormed(R) /\ SameShape(S, R) /\ Q.vals = [l \in 1..Len(S) |-> Q.vals[l]]
      /\ Len(R) = Len(S) /\ m \in 1..Len(R)
  BY DEF IsQuery, SameShape
<1>2. R[m].inputs = inputs /\ ~IsView(R[m]) /\ IsDerivedRecord(R, R[m])
  BY <1>1 DEF SameShape, WellFormed, IsView
<1>3. i # 0 /\ DOMAIN inputs = 1..Len(inputs) /\ i \in DOMAIN inputs
  <2>1. R[m].inputs \in Seq(Nat)
    BY <1>1 DEF WellFormed, Ordered
  <2>2. inputs \in Seq(Nat)
    BY <1>2, <2>1
  <2>3. i \in 1..Len(inputs)
    OBVIOUS
  <2>. HIDE DEF inputs
  <2>. QED
    BY <2>2, <2>3
<1>4. Q2 = [sources |-> R2,
            changed |-> IF R[u].version # last[i] THEN Q.changed \cup {m} ELSE Q.changed,
            vals |-> [Q.vals EXCEPT ![m] = Append(@, R[u].value)]]
  BY <1>2, <1>3, Zenon DEF Step, CompareInput
<1>5. /\ R = [l \in 1..Len(R) |-> R[l]] /\ Len(R) \in Nat
      /\ \A j \in DOMAIN inputs : inputs[j] \in 1..(m - 1) /\ inputs[j] \in 1..Len(R)
  <2>1. R = [l \in 1..Len(R) |-> R[l]] /\ Len(R) \in Nat
    BY <1>1 DEF WellFormed, Ordered
  <2>2. \A j \in DOMAIN R[m].inputs : R[m].inputs[j] \in 1..(m - 1)
    BY <1>1 DEF WellFormed, Ordered
  <2>3. \A l \in 1..(m - 1) : l \in 1..Len(R)
    BY <1>1, <2>1
  <2>. QED
    BY <1>2, <2>1, <2>2, <2>3
<1>6. /\ R[m] = [inputs |-> inputs, last_versions |-> last, value |-> R[m].value,
                 version |-> R[m].version]
      /\ last = [j \in DOMAIN inputs |-> last[j]]
      /\ \A j \in DOMAIN inputs : last[j] \in Nat /\ last[j] <= R[inputs[j]].version
  BY <1>2 DEF IsDerivedRecord
<1>7. R2[m] = new
  <2>. HIDE DEF inputs, u
  <2>1. R2[m] = [R[m] EXCEPT !.last_versions[i] = R[u].version]
    BY <1>1, <1>5
  <2>2. [last EXCEPT ![i] = R[u].version] = seen
    BY <1>3, <1>6
  <2>. DEFINE l0 == last
              s0 == R[m]
              rec == [inputs |-> inputs, last_versions |-> l0, value |-> s0.value,
                      version |-> s0.version]
  <2>3. s0 = rec
    BY <1>6
  <2>4. [s0 EXCEPT !.last_versions[i] = R[u].version] =
          [inputs |-> inputs, last_versions |-> [l0 EXCEPT ![i] = R[u].version],
           value |-> s0.value, version |-> s0.version]
    <3>. HIDE DEF l0, s0
    <3>. QED
      BY <2>3
  <2>. QED
    BY <2>1, <2>2, <2>4
<1>8. R2 = [l \in 1..Len(R) |-> R2[l]] /\ \A l \in 1..Len(R) : l # m => R2[l] = R[l]
  BY <1>1, <1>5
<1>. HIDE DEF R2
<1>9. \A j \in DOMAIN inputs : R[inputs[j]].version \in Nat
  BY <1>1, <1>5 DEF WellFormed
<1>10. IsDerivedRecord(R, R2[m])
  <2>1. /\ R2[m].inputs = inputs /\ R2[m].last_versions = seen
        /\ R2[m] = [inputs |-> R2[m].inputs, last_versions |-> R2[m].last_versions,
                    value |-> R2[m].value, version |-> R2[m].version]
    <3>. HIDE DEF seen, inputs, R
    <3>. QED
      BY <1>7
  <2>2. ASSUME NEW j \in DOMAIN inputs
        PROVE  seen[j] \in Nat /\ seen[j] <= R[inputs[j]].version
    <3>1. seen[j] = IF j = i THEN R[u].version ELSE last[j]
      OBVIOUS
    <3>. DEFINE now == R[inputs[j]].version
    <3>2. now \in Nat /\ last[j] \in Nat /\ last[j] <= now
      <4>. HIDE DEF R, inputs, last, seen, new
      <4>. QED
        BY <1>6, <1>9
    <3>3. j = i => now = R[u].version
      OBVIOUS
    <3>. HIDE DEF now, last, seen, inputs, u, R
    <3>4. seen[j] \in Nat /\ seen[j] <= now
      BY <3>1, <3>2, <3>3
    <3>. QED
      BY <3>4 DEF now
  <2>3. seen = [j \in DOMAIN inputs |-> seen[j]]
    OBVIOUS
  <2>. HIDE DEF seen, inputs
  <2>. QED
    BY <2>1, <2>2, <2>3 DEF IsDerivedRecord
<1>11. WellFormed(R2) /\ SameShape(R, R2)
  <2>1. R[m].version \in Nat
    BY <1>1 DEF WellFormed
  <2>2. R2[m].inputs = R[m].inputs /\ R2[m].version = R[m].version
    BY <1>2, <1>7
  <2>3. R2[m].version \in Nat /\ R[m].version <= R2[m].version
    BY <2>1, <2>2
  <2>. HIDE DEF new, R, inputs
  <2>. QED
    BY <1>1, <1>2, <1>8, <1>10, <2>2, <2>3, RenewedShape
<1>12. SameShape(S, R2)
  BY <1>1, <1>11, ShapeKept
<1>13. /\ Q2.sources = R2
       /\ Q2.changed = IF R[u].version # last[i] THEN Q.changed \cup {m} ELSE Q.changed
       /\ Q2.vals = [Q.vals EXCEPT ![m] = Append(@, R[u].value)]
       /\ Q2 = [sources |-> Q2.sources, changed |-> Q2.changed, vals |-> Q2.vals]
  <2>. HIDE DEF Q2, R, u, last
  <2>. QED
    BY <1>4
<1>. HIDE DEF R, Q2, new, u, last, inputs
<1>14. Q2.vals = [l \in 1..Len(S) |-> Q2.vals[l]] /\ Q2.vals[m] = Append(Q.vals[m], R[u].value)
       /\ \A l \in 1..Len(S) : l # m => Q2.vals[l] = Q.vals[l]
  BY <1>1, <1>13
<1>15. IsQuery(S, Q2)
  BY <1>11, <1>12, <1>13, <1>14 DEF IsQuery
<1>16. OnlyOf(S, Q, Q2, m)
  BY <1>1, <1>8, <1>13, <1>14 DEF OnlyOf, R
<1>17. m \in Q2.changed <=> m \in Q.changed \/ R[u].version # last[i]
  BY <1>13
<1>18. InputCompared(S, Q, Q2, m, i)
  BY <1>7, <1>13, <1>14, <1>16, <1>17 DEF InputCompared, R, new, u, last, inputs
<1>. QED
  BY <1>15, <1>18 DEF Q2

\* A derived view ends: it computes when one of its inputs has grown.
LEMMA CombineStep ==
  ASSUME NEW S, NEW Q, IsQuery(S, Q), NEW m \in 1..Len(S), ~IsView(S[m])
  PROVE  LET Q2 == Step(Q, m, 0)
             R  == Q.sources
             R2 == Q2.sources
         IN  /\ IsQuery(S, Q2) /\ OnlyOf(S, Q, Q2, m)
             /\ m \notin Q2.changed /\ Q2.vals[m] = << >>
             /\ R2[m] = IF m \in Q.changed
                        THEN [inputs |-> S[m].inputs, last_versions |-> R[m].last_versions,
                              value |-> Combine(Q.vals[m]), version |-> R[m].version + 1]
                        ELSE R[m]
<1>. DEFINE Q2 == Step(Q, m, 0)
            R  == Q.sources
            inputs == S[m].inputs
            R2 == Q2.sources
            val == Combine(Q.vals[m])
            new == [inputs |-> inputs, last_versions |-> R[m].last_versions,
                    value |-> val, version |-> R[m].version + 1]
<1>1. /\ Q = [sources |-> R, changed |-> Q.changed, vals |-> Q.vals]
      /\ WellFormed(R) /\ SameShape(S, R) /\ Q.vals = [l \in 1..Len(S) |-> Q.vals[l]]
      /\ Len(R) = Len(S) /\ m \in 1..Len(R)
  BY DEF IsQuery, SameShape
<1>2. R[m].inputs = inputs /\ ~IsView(R[m]) /\ IsDerivedRecord(R, R[m]) /\ R[m].version \in Nat
  BY <1>1 DEF SameShape, WellFormed, IsView
<1>3. Q2 = [sources |-> IF m \notin Q.changed THEN R
                        ELSE [R EXCEPT ![m].value = val, ![m].version = @ + 1],
            changed |-> Q.changed \ {m}, vals |-> [Q.vals EXCEPT ![m] = << >>]]
  BY <1>2, Zenon DEF Step, CombineInputs
<1>. HIDE DEF val
<1>4. /\ R2 = IF m \notin Q.changed THEN R ELSE [R EXCEPT ![m].value = val, ![m].version = @ + 1]
      /\ Q2.changed = Q.changed \ {m}
      /\ Q2.vals = [Q.vals EXCEPT ![m] = << >>]
      /\ Q2 = [sources |-> R2, changed |-> Q2.changed, vals |-> Q2.vals]
  <2>. HIDE DEF Q2, R
  <2>. QED
    BY <1>3
<1>5. R = [l \in 1..Len(R) |-> R[l]]
  BY <1>1 DEF WellFormed, Ordered
<1>. HIDE DEF R2, Q2
<1>6. Q2.vals = [l \in 1..Len(S) |-> Q2.vals[l]] /\ Q2.vals[m] = << >>
      /\ \A l \in 1..Len(S) : l # m => Q2.vals[l] = Q.vals[l]
  BY <1>1, <1>4
<1>7. CASE m \notin Q.changed
  <2>1. R2 = R
    BY <1>4, <1>7
  <2>. QED
    BY <1>1, <1>4, <1>6, <1>7, <2>1 DEF IsQuery, OnlyOf, Q2, R2
<1>8. CASE m \in Q.changed
  <2>1. R2 = [R EXCEPT ![m].value = val, ![m].version = @ + 1]
    BY <1>4, <1>8
  <2>2. R2[m] = new
    <3>. HIDE DEF R, inputs
    <3>. QED
      BY <1>1, <1>2, <1>5, <2>1 DEF IsDerivedRecord
  <2>3. R2 = [l \in 1..Len(R) |-> R2[l]] /\ \A l \in 1..Len(R) : l # m => R2[l] = R[l]
    BY <1>1, <1>5, <2>1
  <2>4. IsDerivedRecord(R, R2[m])
    <3>1. /\ R2[m].inputs = R[m].inputs /\ R2[m].last_versions = R[m].last_versions
          /\ R2[m] = [inputs |-> R2[m].inputs, last_versions |-> R2[m].last_versions,
                      value |-> R2[m].value, version |-> R2[m].version]
      <4>. HIDE DEF R, inputs
      <4>. QED
        BY <1>2, <2>2
    <3>. HIDE DEF R, new
    <3>. QED
      BY <1>2, <3>1 DEF IsDerivedRecord
  <2>5. WellFormed(R2) /\ SameShape(R, R2)
    <3>1. R2[m].inputs = R[m].inputs /\ R2[m].version = R[m].version + 1
      BY <1>2, <2>2
    <3>2. R2[m].version \in Nat /\ R[m].version <= R2[m].version
      BY <1>2, <3>1
    <3>. HIDE DEF new, R, inputs
    <3>. QED
      BY <1>1, <1>2, <2>3, <2>4, <3>1, <3>2, RenewedShape
  <2>6. SameShape(S, R2)
    BY <1>1, <2>5, ShapeKept
  <2>. HIDE DEF R, new
  <2>7. IsQuery(S, Q2) /\ OnlyOf(S, Q, Q2, m) /\ Q2.sources = R2
    BY <1>1, <1>4, <1>6, <2>3, <2>5, <2>6 DEF IsQuery, OnlyOf, R, R2
  <2>. QED
    BY <1>4, <1>6, <1>8, <2>2, <2>7 DEF Q2, R, R2, new, val, inputs
<1>. QED
  BY <1>7, <1>8

-----------------------------------------------------------------------------
(* What a query makes of the sources.                                      *)

\* A source is pending when it is stale or one of its inputs is pending.
LEMMA PendingStep ==
  ASSUME NEW S, WellFormed(S), NEW m \in 1..Len(S)
  PROVE  Pending(S, m) <=> Stale(S, m) \/ \E i \in DOMAIN S[m].inputs : Pending(S, S[m].inputs[i])
<1>1. Below(S, m) = {m} \cup UNION {Below(S, S[m].inputs[i]) : i \in DOMAIN S[m].inputs}
  BY BelowStep DEF WellFormed
<1>. QED
  BY <1>1 DEF Pending

\* A source that has had its turn since S: what was pending has a new version
\* and is settled, what was not is as it was, and there is nothing left to see.
Turned(S, R, m) ==
  /\ IF Pending(S, m) THEN R[m].version = S[m].version + 1 /\ Settled(R, m)
                      ELSE R[m] = S[m]
  /\ ~Stale(R, m)

\* Those in D have had it, and so have the inputs of each.
Done(S, R, D) ==
  /\ D \subseteq 1..Len(S)
  /\ \A m \in D : \A i \in DOMAIN S[m].inputs : S[m].inputs[i] \in D
  /\ \A m \in D : Turned(S, R, m)

\* It is not lost as long as they are left alone.
LEMMA DoneKept ==
  ASSUME NEW S, NEW R, NEW R2, NEW D, Done(S, R, D), SameShape(S, R), \A m \in D : R2[m] = R[m]
  PROVE  Done(S, R2, D)
<1>. SUFFICES ASSUME NEW m \in D PROVE Turned(S, R2, m)
  BY DEF Done
<1>1. R[m].inputs = S[m].inputs /\ \A i \in DOMAIN S[m].inputs : S[m].inputs[i] \in D
  BY DEF Done, SameShape
<1>2. R2[m] = R[m] /\ \A i \in DOMAIN R[m].inputs : R2[R[m].inputs[i]] = R[R[m].inputs[i]]
  BY <1>1
<1>3. Stale(R2, m) = Stale(R, m) /\ Settled(R2, m) = Settled(R, m)
  BY <1>2, Unaffected
<1>. QED
  BY <1>2, <1>3 DEF Done, Turned

\* A derived view whose inputs have had their turn sees a version that it has
\* not seen exactly when it is pending.
LEMMA GrownIffPending ==
  ASSUME NEW S, WellFormed(S), NEW R, NEW m \in 1..Len(S), ~IsView(S[m]),
         \A i \in DOMAIN S[m].inputs : Turned(S, R, S[m].inputs[i])
  PROVE  Pending(S, m) <=>
           \E i \in DOMAIN S[m].inputs : R[S[m].inputs[i]].version # S[m].last_versions[i]
<1>. DEFINE input(i) == S[m].inputs[i]
            before(i) == S[input(i)].version
            after(i) == R[input(i)].version
            last(i) == S[m].last_versions[i]
<1>1. \A i \in DOMAIN S[m].inputs : input(i) \in 1..Len(S)
  <2>1. \A i \in DOMAIN S[m].inputs : input(i) \in 1..(m - 1)
    BY DEF WellFormed, Ordered
  <2>2. Len(S) \in Nat
    BY DEF WellFormed, Ordered
  <2>. QED
    BY <2>1, <2>2
<1>2. \A i \in DOMAIN S[m].inputs :
        before(i) \in Nat /\ last(i) \in Nat /\ last(i) <= before(i)
  <2>1. IsDerivedRecord(S, S[m])
    BY DEF WellFormed
  <2>2. \A i \in DOMAIN S[m].inputs : before(i) \in Nat
    BY <1>1 DEF WellFormed
  <2>. QED
    BY <2>1, <2>2 DEF IsDerivedRecord
<1>3. \A i \in DOMAIN S[m].inputs :
        IF Pending(S, input(i)) THEN after(i) = before(i) + 1 ELSE after(i) = before(i)
  BY DEF Turned
<1>4. Stale(S, m) <=> \E i \in DOMAIN S[m].inputs : last(i) < before(i)
  BY SeenVersions
<1>5. Pending(S, m) <=> Stale(S, m) \/ \E i \in DOMAIN S[m].inputs : Pending(S, input(i))
  BY PendingStep
<1>. HIDE DEF input, before, after, last
<1>6. \A i \in DOMAIN S[m].inputs :
        after(i) # last(i) <=> last(i) < before(i) \/ Pending(S, input(i))
  BY <1>2, <1>3
<1>7. Pending(S, m) <=> \E i \in DOMAIN S[m].inputs : after(i) # last(i)
  BY <1>4, <1>5, <1>6
<1>. QED
  BY <1>7 DEF after, last, input

\* value() of m may be called: the sources up to m are as they were but for
\* those in D, and none of their calls is active.
Ready(S, Q, D, m) ==
  /\ Done(S, Q.sources, D)
  /\ \A l \in 1..m : /\ l \notin D => Q.sources[l] = S[l]
                     /\ l \notin Q.changed
                     /\ Q.vals[l] = << >>

\* It returned: what is below m has had its turn, and the rest is as before.
Returned(S, Q, Q2, D, m) ==
  /\ Done(S, Q2.sources, D \cup Below(S, m))
  /\ \A l \in 1..Len(S) : /\ l \notin Below(S, m) \ D => Q2.sources[l] = Q.sources[l]
                          /\ l \in Q2.changed <=> l \in Q.changed
                          /\ Q2.vals[l] = Q.vals[l]

\* It has come to the end of value() of u: what has not had its turn, and is not
\* above u, is as before.
Visiting(S, Q, Q2, D, m, u) ==
  /\ u \in Below(S, m)
  /\ \E E : /\ D \subseteq E
            /\ Done(S, Q2.sources, E)
            /\ \A l \in 1..Len(S) : l \notin E /\ u \notin Below(S, l) =>
                                      Q2.sources[l] = Q.sources[l]

\* A call of a view.
LEMMA ViewCall ==
  ASSUME NEW S, WellFormed(S), NEW Q, IsQuery(S, Q), NEW m \in 1..Len(S), IsView(S[m]), NEW D,
         Ready(S, Q, D, m)
  PROVE  /\ Returned(S, Q, Step(Q, m, 0), D, m)
         /\ Visiting(S, Q, Q, D, m, m)
<1>. DEFINE Q2 == Step(Q, m, 0)
            R == Q.sources
            R2 == Q2.sources
            new == [inputs |-> << >>, world |-> R[m].world, dirty |-> FALSE,
                    value |-> R[m].world, version |-> R[m].version + 1]
<1>1. /\ IsQuery(S, Q2) /\ OnlyOf(S, Q, Q2, m)
      /\ Q2.vals[m] = Q.vals[m] /\ (m \in Q2.changed <=> m \in Q.changed)
      /\ R2[m] = IF R[m].dirty THEN new ELSE R[m]
  BY ViewStep
<1>. HIDE DEF Q2, new
<1>2. Below(S, m) = {m} /\ S[m].inputs = << >> /\ Ordered(S) /\ Len(S) \in Nat
  <2>1. S[m].inputs = << >> /\ Ordered(S) /\ Len(S) \in Nat
    BY DEF IsView, WellFormed, Ordered
  <2>. QED
    BY <2>1, BelowStep
<1>3. SameShape(S, R) /\ IsView(R[m]) /\ WellFormed(R) /\ Len(R) = Len(S) /\ IsViewRecord(R[m])
  BY DEF IsQuery, SameShape, IsView, WellFormed
<1>4. Done(S, R, D) /\ (m \notin D => R[m] = S[m])
  <2>1. m \in 1..m
    BY <1>2
  <2>. QED
    BY <2>1 DEF Ready
<1>5. CASE m \in D
  <2>1. ~Stale(R, m)
    BY <1>4, <1>5 DEF Done, Turned
  <2>2. R2[m] = R[m]
    BY <1>1, <1>3, <2>1 DEF Stale
  <2>3. \A l \in 1..Len(S) : R2[l] = R[l]
    BY <1>1, <2>2 DEF OnlyOf
  <2>4. Done(S, R2, D)
    BY <1>3, <1>4, <2>3, DoneKept DEF Done
  <2>5. D \cup Below(S, m) = D
    BY <1>2, <1>5
  <2>. QED
    BY <1>1, <1>2, <1>4, <2>3, <2>4, <2>5 DEF Returned, Visiting, OnlyOf, Q2
<1>6. CASE m \notin D
  <2>1. Pending(S, m) <=> S[m].dirty
    <3>1. Stale(S, m) <=> S[m].dirty
      BY DEF Stale
    <3>. QED
      BY <1>2, <3>1 DEF Pending
  <2>2. Turned(S, R2, m)
    <3>1. CASE S[m].dirty
      <4>1. R2[m] = new /\ R[m] = S[m]
        BY <1>1, <1>4, <1>6, <3>1
      <4>2. /\ IsView(R2[m]) /\ ~R2[m].dirty /\ R2[m].value = R2[m].world
            /\ R2[m].version = S[m].version + 1
        BY <4>1 DEF new, IsView
      <4>. QED
        BY <2>1, <3>1, <4>2 DEF Turned, Settled, Stale
    <3>2. CASE ~S[m].dirty
      <4>1. R2[m] = S[m]
        BY <1>1, <1>4, <1>6, <3>2
      <4>. QED
        BY <2>1, <3>2, <4>1 DEF Turned, Stale
    <3>. QED
      BY <3>1, <3>2
  <2>3. Done(S, R2, D)
    <3>1. \A l \in D : R2[l] = R[l]
      BY <1>1, <1>4, <1>6 DEF OnlyOf, Done
    <3>. QED
      BY <1>3, <1>4, <3>1, DoneKept
  <2>4. Done(S, R2, D \cup Below(S, m))
    BY <1>2, <2>2, <2>3 DEF Done
  <2>5. \A l \in 1..Len(S) : l \notin Below(S, m) \ D => R2[l] = R[l]
    BY <1>1, <1>2, <1>6 DEF OnlyOf
  <2>. QED
    BY <1>1, <1>2, <1>4, <2>4, <2>5 DEF Returned, Visiting, OnlyOf, Q2
<1>. QED
  BY <1>5, <1>6

-----------------------------------------------------------------------------
(* The loop of a derived view over its inputs.                             *)

\* What the loop can reach.
LEMMA InputsBelow ==
  ASSUME NEW S, Ordered(S), NEW m \in 1..Len(S)
  PROVE  /\ DOMAIN S[m].inputs = 1..Len(S[m].inputs) /\ Len(S[m].inputs) \in Nat
         /\ Len(S) \in Nat
         /\ \A i \in 1..Len(S[m].inputs) :
              /\ S[m].inputs[i] \in 1..(m - 1) /\ S[m].inputs[i] \in 1..Len(S)
              /\ S[m].inputs[i] \in Below(S, S[m].inputs[i])
              /\ Below(S, S[m].inputs[i]) \subseteq 1..(m - 1)
              /\ Below(S, S[m].inputs[i]) \subseteq Below(S, m)
<1>. DEFINE inputs == S[m].inputs
<1>1. inputs \in Seq(Nat) /\ Len(S) \in Nat /\ \A i \in DOMAIN inputs : inputs[i] \in 1..(m - 1)
  BY DEF Ordered
<1>2. \A i \in DOMAIN inputs : Below(S, inputs[i]) \subseteq Below(S, m)
  BY BelowStep
<1>. HIDE DEF inputs
<1>3. DOMAIN inputs = 1..Len(inputs) /\ Len(inputs) \in Nat
  BY <1>1
<1>4. \A l \in 1..(m - 1) : l \in 1..Len(S) /\ 1..l \subseteq 1..(m - 1)
  BY <1>1
<1>5. \A l \in 1..(m - 1) : l \in Below(S, l) /\ Below(S, l) \subseteq 1..(m - 1)
  <2>. SUFFICES ASSUME NEW l \in 1..(m - 1)
                PROVE  l \in Below(S, l) /\ Below(S, l) \subseteq 1..(m - 1)
    OBVIOUS
  <2>1. l \in 1..Len(S) /\ 1..l \subseteq 1..(m - 1)
    BY <1>4
  <2>2. l \in Below(S, l) /\ Below(S, l) \subseteq 1..l
    BY <2>1, BelowEarlier
  <2>. QED
    BY <2>1, <2>2
<1>6. \A i \in 1..Len(inputs) :
        /\ inputs[i] \in 1..(m - 1) /\ inputs[i] \in 1..Len(S)
        /\ inputs[i] \in Below(S, inputs[i])
        /\ Below(S, inputs[i]) \subseteq 1..(m - 1)
        /\ Below(S, inputs[i]) \subseteq Below(S, m)
  BY <1>1, <1>2, <1>3, <1>4, <1>5
<1>. QED
  BY <1>1, <1>3, <1>6 DEF inputs

\* All that is below a source that has had its turn has had it.
LEMMA DoneBelow ==
  ASSUME NEW S, Ordered(S), NEW R, NEW D, Done(S, R, D), NEW m \in D
  PROVE  Below(S, m) \subseteq D
<1>. DEFINE T == {l \in Nat : l \in D => Below(S, l) \subseteq D}
<1>1. Len(S) \in Nat /\ m \in 1..Len(S)
  BY DEF Ordered, Done
<1>2. ASSUME NEW l \in 1..Len(S), \A k \in 1..(l - 1) : k \in T PROVE l \in T
  <2>. SUFFICES ASSUME l \in D PROVE Below(S, l) \subseteq D
    BY <1>1
  <2>1. ASSUME NEW i \in DOMAIN S[l].inputs PROVE Below(S, S[l].inputs[i]) \subseteq D
    <3>1. S[l].inputs[i] \in 1..(l - 1) /\ S[l].inputs[i] \in D
      BY DEF Ordered, Done
    <3>. QED
      BY <1>2, <3>1
  <2>. QED
    BY <2>1, BelowStep
<1>3. m \in T
  <2>. HIDE DEF T
  <2>. QED
    BY <1>1, <1>2, StrongInduction
<1>. QED
  BY <1>3

\* D and all below the first i inputs of m.
Reached(S, D, m, i) == D \cup UNION {Below(S, S[m].inputs[j]) : j \in 1..i}

\* A call of m that began in Q0 has queried and compared its first i inputs:
\* what it has left in m, and the values that it has read.
Compared(S, Q0, Q, m, i) ==
  [inputs |-> S[m].inputs,
   last_versions |-> [j \in DOMAIN S[m].inputs |->
     IF j <= i THEN Q.sources[S[m].inputs[j]].version ELSE Q0.sources[m].last_versions[j]],
   value |-> Q0.sources[m].value, version |-> Q0.sources[m].version]

Values(S, Q, m, i) == [j \in 1..i |-> Q.sources[S[m].inputs[j]].value]

SawGrowth(S, Q0, Q, m, i) ==
  \E j \in 1..i : Q.sources[S[m].inputs[j]].version # Q0.sources[m].last_versions[j]

LeftAlone(S, Q0, Q, E, m) ==
  \A l \in 1..Len(S) : l # m => /\ l \notin E => Q.sources[l] = Q0.sources[l]
                                /\ l \in Q.changed <=> l \in Q0.changed
                                /\ Q.vals[l] = Q0.vals[l]

Looped(S, Q0, Q, D, m, i) ==
  /\ Done(S, Q.sources, Reached(S, D, m, i))
  /\ LeftAlone(S, Q0, Q, Reached(S, D, m, i) \ D, m)
  /\ Q.sources[m] = Compared(S, Q0, Q, m, i)
  /\ Q.vals[m] = Values(S, Q, m, i)
  /\ m \in Q.changed <=> SawGrowth(S, Q0, Q, m, i)

\* Before the first of them.
LEMMA LoopBegins ==
  ASSUME NEW S, WellFormed(S), NEW Q, IsQuery(S, Q), NEW m \in 1..Len(S), ~IsView(S[m]), NEW D,
         Ready(S, Q, D, m)
  PROVE  Looped(S, Q, Q, D, m, 0)
<1>. DEFINE inputs == S[m].inputs
            s0 == Q.sources[m]
            last == s0.last_versions
<1>1. Ordered(S) /\ DOMAIN inputs = 1..Len(inputs) /\ Len(S) \in Nat /\ m \in 1..m
  BY InputsBelow DEF WellFormed, Ordered
<1>2. Reached(S, D, m, 0) = D
  BY DEF Reached
<1>3. Done(S, Q.sources, D) /\ m \notin Q.changed /\ Q.vals[m] = << >>
  BY <1>1 DEF Ready
<1>4. IsDerivedRecord(Q.sources, s0) /\ s0.inputs = inputs
  BY DEF IsQuery, SameShape, WellFormed, IsView
<1>5. /\ s0 = [inputs |-> inputs, last_versions |-> last, value |-> s0.value, version |-> s0.version]
      /\ last = [j \in DOMAIN inputs |-> last[j]]
  BY <1>4 DEF IsDerivedRecord
<1>6. last = [j \in DOMAIN inputs |-> IF j <= 0 THEN Q.sources[inputs[j]].version ELSE last[j]]
  <2>1. \A j \in DOMAIN inputs : ~(j <= 0)
    BY <1>1
  <2>. HIDE DEF last, inputs
  <2>. QED
    BY <1>5, <2>1
<1>7. Q.vals[m] = [j \in 1..0 |-> Q.sources[inputs[j]].value]
  BY <1>3
<1>8. ~ \E j \in 1..0 : Q.sources[inputs[j]].version # last[j]
  OBVIOUS
<1>. QED
  <2>1. s0 = Compared(S, Q, Q, m, 0)
    BY <1>5, <1>6, Zenon DEF Compared
  <2>2. Q.vals[m] = Values(S, Q, m, 0) /\ ~SawGrowth(S, Q, Q, m, 0)
    BY <1>7, <1>8, Zenon DEF Values, SawGrowth
  <2>. QED
    BY <1>2, <1>3, <2>1, <2>2 DEF Looped, LeftAlone

\* The next input may be called.
LEMMA LoopReady ==
  ASSUME NEW S, WellFormed(S), NEW Q0, NEW Q, NEW m \in 1..Len(S), NEW D, Ready(S, Q0, D, m),
         NEW i \in 1..Len(S[m].inputs), Looped(S, Q0, Q, D, m, i - 1)
  PROVE  Ready(S, Q, Reached(S, D, m, i - 1), S[m].inputs[i])
<1>. DEFINE u == S[m].inputs[i]
            E == Reached(S, D, m, i - 1)
<1>1. u \in 1..(m - 1) /\ Len(S) \in Nat
  BY InputsBelow DEF WellFormed
<1>2. \A l \in 1..u : l \in 1..m /\ l # m /\ l \in 1..Len(S)
  BY <1>1
<1>3. D \subseteq E
  BY DEF Reached
<1>4. /\ Done(S, Q.sources, E)
      /\ \A l \in 1..Len(S) : l # m => /\ l \notin E \ D => Q.sources[l] = Q0.sources[l]
                                       /\ l \in Q.changed <=> l \in Q0.changed
                                       /\ Q.vals[l] = Q0.vals[l]
  BY DEF Looped, LeftAlone
<1>. HIDE DEF u, E
<1>5. Ready(S, Q, E, u)
  BY <1>2, <1>3, <1>4 DEF Ready
<1>. QED
  BY <1>5 DEF u, E

\* What the next input has come to.
LEMMA LoopVisiting ==
  ASSUME NEW S, WellFormed(S), NEW Q0, NEW Q, NEW m \in 1..Len(S), NEW D,
         NEW i \in 1..Len(S[m].inputs), Looped(S, Q0, Q, D, m, i - 1),
         NEW Q2, NEW u, Visiting(S, Q, Q2, Reached(S, D, m, i - 1), S[m].inputs[i], u)
  PROVE  Visiting(S, Q0, Q2, D, m, u)
<1>. DEFINE v == S[m].inputs[i]
            E0 == Reached(S, D, m, i - 1)
<1>1. Below(S, v) \subseteq Below(S, m) /\ D \subseteq E0
  BY InputsBelow DEF WellFormed, Reached
<1>2. \A l \in 1..Len(S) : l # m /\ l \notin E0 \ D => Q.sources[l] = Q0.sources[l]
  BY DEF Looped, LeftAlone
<1>3. Visiting(S, Q, Q2, E0, v, u)
  OBVIOUS
<1>. HIDE DEF v, E0
<1>4. PICK E : /\ E0 \subseteq E
               /\ Done(S, Q2.sources, E)
               /\ \A l \in 1..Len(S) : l \notin E /\ u \notin Below(S, l) =>
                                         Q2.sources[l] = Q.sources[l]
  BY <1>3 DEF Visiting
<1>5. u \in Below(S, m)
  BY <1>1, <1>3 DEF Visiting
<1>6. \A l \in 1..Len(S) : l \notin E /\ u \notin Below(S, l) => Q2.sources[l] = Q0.sources[l]
  BY <1>2, <1>4, <1>5
<1>. QED
  BY <1>1, <1>4, <1>5, <1>6 DEF Visiting

\* After the last of them, the call is at its own end.
LEMMA LoopVisits ==
  ASSUME NEW S, WellFormed(S), NEW Q0, NEW Q, NEW m \in 1..Len(S), NEW D, NEW i,
         Looped(S, Q0, Q, D, m, i)
  PROVE  Visiting(S, Q0, Q, D, m, m)
<1>. DEFINE E == Reached(S, D, m, i)
<1>1. /\ Done(S, Q.sources, E)
      /\ \A l \in 1..Len(S) : l # m /\ l \notin E \ D => Q.sources[l] = Q0.sources[l]
  BY DEF Looped, LeftAlone
<1>2. D \subseteq E
  BY DEF Reached
<1>. HIDE DEF E
<1>3. Ordered(S)
  BY DEF WellFormed
<1>4. \A l \in 1..Len(S) : l \in Below(S, l)
  BY <1>3, BelowEarlier
<1>5. \A l \in 1..Len(S) : l \notin E /\ m \notin Below(S, l) => Q.sources[l] = Q0.sources[l]
  BY <1>1, <1>4
<1>. QED
  BY <1>1, <1>2, <1>4, <1>5 DEF Visiting

\* A list with one more element.
LEMMA AppendExtends ==
  ASSUME NEW n \in Nat, NEW v, v = [j \in 1..n |-> v[j]], NEW x
  PROVE  Append(v, x) = [j \in 1..(n + 1) |-> IF j <= n THEN v[j] ELSE x]
<1>. DEFINE T == {v[j] : j \in 1..n} \cup {x}
<1>1. v \in [1..n -> T] /\ x \in T
  OBVIOUS
<1>. HIDE DEF T
<1>2. v \in Seq(T) /\ Len(v) = n
  BY <1>1
<1>3. /\ Append(v, x) \in Seq(T) /\ Len(Append(v, x)) = n + 1
      /\ \A j \in 1..n : Append(v, x)[j] = v[j]
      /\ Append(v, x)[n + 1] = x
  BY <1>1, <1>2
<1>. DEFINE w == Append(v, x)
<1>4. w \in Seq(T) /\ Len(w) = n + 1
  BY <1>3
<1>5. /\ \A j \in 1..(n + 1) : j \in 1..n \/ j = n + 1
      /\ \A j \in 1..n : j <= n
      /\ ~(n + 1 <= n)
  <2>. HIDE DEF w
  <2>. QED
    OBVIOUS
<1>6. \A j \in 1..(n + 1) : w[j] = IF j <= n THEN v[j] ELSE x
  BY <1>3, <1>5
<1>. HIDE DEF w
<1>7. w = [j \in 1..(n + 1) |-> w[j]]
  BY <1>4
<1>8. w = [j \in 1..(n + 1) |-> IF j <= n THEN v[j] ELSE x]
  BY <1>6, <1>7
<1>. QED
  BY <1>8 DEF w

\* One more input has been queried and compared.
LEMMA LoopStep ==
  ASSUME NEW S, WellFormed(S), NEW Q0, NEW Q, NEW m \in 1..Len(S), ~IsView(S[m]), NEW D,
         NEW i \in 1..Len(S[m].inputs), Looped(S, Q0, Q, D, m, i - 1),
         NEW Q2, IsQuery(S, Q2),
         Returned(S, Q, Q2, Reached(S, D, m, i - 1), S[m].inputs[i])
  PROVE  Looped(S, Q0, Step(Q2, m, i), D, m, i)
<1>. DEFINE inputs == S[m].inputs
            u == inputs[i]
            E == Reached(S, D, m, i - 1)
            E2 == Reached(S, D, m, i)
            s0 == Q0.sources[m]
            R == Q.sources
            R2 == Q2.sources
            Q3 == Step(Q2, m, i)
            R3 == Q3.sources
            c == Len(inputs)
<1>1. /\ DOMAIN inputs = 1..c /\ c \in Nat /\ i \in 1..c /\ Len(S) \in Nat
      /\ \A j \in 1..c : /\ inputs[j] \in 1..Len(S) /\ inputs[j] \in 1..(m - 1)
                         /\ inputs[j] \in Below(S, inputs[j])
                         /\ Below(S, inputs[j]) \subseteq 1..(m - 1)
  BY InputsBelow DEF WellFormed
<1>2. \A j \in 1..c : inputs[j] # m /\ m \notin Below(S, inputs[j])
  <2>1. m \in Nat /\ m \notin 1..(m - 1)
    BY <1>1
  <2>. HIDE DEF inputs
  <2>. QED
    BY <1>1, <2>1
<1>3. E2 = E \cup Below(S, u) /\ D \subseteq E
  <2>1. 1..i = 1..(i - 1) \cup {i}
    BY <1>1
  <2>. QED
    BY <2>1 DEF Reached
<1>4. \A j \in 1..i : inputs[j] \in E2
  <2>1. \A j \in 1..i : j \in 1..c
    BY <1>1
  <2>. QED
    BY <1>1, <2>1 DEF Reached
<1>5. \A j \in 1..(i - 1) : inputs[j] \in E /\ j \in 1..c /\ j \in 1..i
  <2>1. \A j \in 1..(i - 1) : j \in 1..c /\ j \in 1..i
    BY <1>1
  <2>. QED
    BY <1>1, <2>1 DEF Reached
<1>6. m \in E2 => m \in D /\ m \in E
  <2>1. \A j \in 1..i : j \in 1..c
    BY <1>1
  <2>. QED
    BY <1>2, <1>3, <2>1 DEF Reached
<1>7. /\ Done(S, R, E)
      /\ \A l \in 1..Len(S) : l # m => /\ l \notin E \ D => R[l] = Q0.sources[l]
                                       /\ l \in Q.changed <=> l \in Q0.changed
                                       /\ Q.vals[l] = Q0.vals[l]
      /\ R[m] = [inputs |-> inputs,
                 last_versions |-> [j \in DOMAIN inputs |-> IF j <= i - 1 THEN R[inputs[j]].version
                                                            ELSE s0.last_versions[j]],
                 value |-> s0.value, version |-> s0.version]
      /\ Q.vals[m] = [j \in 1..(i - 1) |-> R[inputs[j]].value]
      /\ m \in Q.changed <=> \E j \in 1..(i - 1) : R[inputs[j]].version # s0.last_versions[j]
  BY Zenon DEF Looped, LeftAlone, Compared, Values, SawGrowth
<1>8. /\ Done(S, R2, E2)
      /\ \A l \in 1..Len(S) : /\ l \notin Below(S, u) \ E => R2[l] = R[l]
                              /\ l \in Q2.changed <=> l \in Q.changed
                              /\ Q2.vals[l] = Q.vals[l]
  BY <1>3 DEF Returned
<1>0. IsQuery(S, Q3) /\ InputCompared(S, Q2, Q3, m, i)
  BY CompareStep
<1>9. /\ IsQuery(S, Q3) /\ OnlyOf(S, Q2, Q3, m)
      /\ R3[m] = [inputs |-> inputs,
                  last_versions |-> [j \in DOMAIN inputs |->
                    IF j = i THEN R2[u].version ELSE R2[m].last_versions[j]],
                  value |-> R2[m].value, version |-> R2[m].version]
      /\ Q3.vals[m] = Append(Q2.vals[m], R2[u].value)
      /\ m \in Q3.changed <=> m \in Q2.changed \/ R2[u].version # R2[m].last_versions[i]
  BY <1>0 DEF InputCompared
<1>. HIDE DEF E, E2, R, R2, R3, Q3, s0, c
<1>10. R2[m] = R[m] /\ (m \in Q2.changed <=> m \in Q.changed) /\ Q2.vals[m] = Q.vals[m]
  BY <1>1, <1>2, <1>8
<1>11. \A j \in 1..(i - 1) : R2[inputs[j]] = R[inputs[j]]
  BY <1>1, <1>5, <1>8
<1>12. \A l \in 1..Len(S) : l # m => R3[l] = R2[l]
  BY <1>9 DEF OnlyOf, R2, R3
<1>13. \A j \in 1..c : R3[inputs[j]] = R2[inputs[j]]
  BY <1>1, <1>2, <1>12
<1>. DEFINE last == s0.last_versions
<1>14. R[m].last_versions = [j \in DOMAIN inputs |-> IF j <= i - 1 THEN R[inputs[j]].version
                                                     ELSE last[j]]
  <2>. HIDE DEF last, inputs
  <2>. QED
    BY <1>7 DEF last
<1>15. R2[m].last_versions[i] = last[i]
  <2>1. i \in DOMAIN inputs /\ ~(i <= i - 1)
    BY <1>1
  <2>. HIDE DEF last, inputs
  <2>. QED
    BY <1>10, <1>14, <2>1
<1>16. \A j \in DOMAIN inputs :
         (IF j = i THEN R2[u].version ELSE R2[m].last_versions[j]) =
           IF j <= i THEN R3[inputs[j]].version ELSE last[j]
  <2>. SUFFICES ASSUME NEW j \in DOMAIN inputs
                PROVE  (IF j = i THEN R2[u].version ELSE R2[m].last_versions[j]) =
                         IF j <= i THEN R3[inputs[j]].version ELSE last[j]
    OBVIOUS
  <2>1. j \in 1..c /\ i \in Nat /\ j \in Nat
    BY <1>1
  <2>2. CASE j = i
    <3>1. j <= i /\ R3[inputs[j]] = R2[u]
      BY <1>13, <2>1, <2>2
    <3>. QED
      BY <2>2, <3>1
  <2>3. CASE j # i /\ j <= i
    <3>1. j <= i - 1 /\ j \in 1..(i - 1)
      BY <2>1, <2>3
    <3>2. R3[inputs[j]] = R2[inputs[j]] /\ R2[inputs[j]] = R[inputs[j]]
      BY <1>11, <1>13, <2>1, <3>1
    <3>3. R[m].last_versions[j] = R[inputs[j]].version
      <4>. HIDE DEF last, inputs
      <4>. QED
        BY <1>14, <3>1
    <3>. QED
      BY <1>10, <2>3, <3>2, <3>3
  <2>4. CASE ~(j <= i)
    <3>1. j # i /\ ~(j <= i - 1)
      BY <2>1, <2>4
    <3>2. R[m].last_versions[j] = last[j]
      <4>. HIDE DEF last, inputs
      <4>. QED
        BY <1>14, <3>1
    <3>. QED
      BY <1>10, <2>4, <3>1, <3>2
  <2>. QED
    BY <2>2, <2>3, <2>4
<1>17. R3[m] = [inputs |-> inputs,
                last_versions |-> [j \in DOMAIN inputs |-> IF j <= i THEN R3[inputs[j]].version
                                                           ELSE last[j]],
                value |-> s0.value, version |-> s0.version]
  <2>1. R2[m].value = s0.value /\ R2[m].version = s0.version
    BY <1>7, <1>10
  <2>2. [j \in DOMAIN inputs |-> IF j = i THEN R2[u].version ELSE R2[m].last_versions[j]] =
          [j \in DOMAIN inputs |-> IF j <= i THEN R3[inputs[j]].version ELSE last[j]]
    BY <1>16
  <2>. HIDE DEF u, last
  <2>. QED
    BY <1>9, <2>1, <2>2
<1>18. Q3.vals[m] = [j \in 1..i |-> R3[inputs[j]].value]
  <2>. DEFINE v == Q.vals[m]
              x == R2[u].value
  <2>1. i - 1 \in Nat /\ (i - 1) + 1 = i
    BY <1>1
  <2>2. v = [j \in 1..(i - 1) |-> R[inputs[j]].value] /\ Q3.vals[m] = Append(v, x)
    BY <1>7, <1>9, <1>10
  <2>3. v = [j \in 1..(i - 1) |-> v[j]] /\ \A j \in 1..(i - 1) : v[j] = R[inputs[j]].value
    <3>. HIDE DEF v, inputs
    <3>. QED
      BY <2>2
  <2>4. Append(v, x) = [j \in 1..i |-> IF j <= i - 1 THEN v[j] ELSE x]
    <3>. DEFINE k == i - 1
    <3>1. k \in Nat /\ k + 1 = i /\ v = [j \in 1..k |-> v[j]]
      BY <2>1, <2>3
    <3>. HIDE DEF k, v, x
    <3>2. Append(v, x) = [j \in 1..(k + 1) |-> IF j <= k THEN v[j] ELSE x]
      BY <3>1, AppendExtends
    <3>. QED
      BY <3>1, <3>2 DEF k
  <2>5. \A j \in 1..i : (IF j <= i - 1 THEN v[j] ELSE x) = R3[inputs[j]].value
    <3>. SUFFICES ASSUME NEW j \in 1..i
                  PROVE  (IF j <= i - 1 THEN v[j] ELSE x) = R3[inputs[j]].value
      OBVIOUS
    <3>1. j \in 1..c
      BY <1>1
    <3>2. CASE j <= i - 1
      <4>1. j \in 1..(i - 1)
        BY <1>1, <3>2
      <4>. HIDE DEF v, x
      <4>. QED
        BY <1>11, <1>13, <2>3, <3>1, <3>2, <4>1
    <3>3. CASE ~(j <= i - 1)
      <4>1. j = i
        BY <1>1, <3>3
      <4>. QED
        BY <1>13, <3>1, <3>3, <4>1
    <3>. QED
      BY <3>2, <3>3
  <2>. HIDE DEF v, x, inputs
  <2>. QED
    BY <2>2, <2>4, <2>5
<1>19. m \in Q3.changed <=> \E j \in 1..i : R3[inputs[j]].version # last[j]
  <2>1. m \in Q3.changed <=> \/ \E j \in 1..(i - 1) : R[inputs[j]].version # last[j]
                             \/ R2[u].version # last[i]
    BY <1>7, <1>9, <1>10, <1>15
  <2>2. \A j \in 1..(i - 1) : R3[inputs[j]] = R[inputs[j]]
    BY <1>5, <1>11, <1>13
  <2>3. R3[u] = R2[u]
    BY <1>1, <1>13
  <2>4. \A j \in 1..i : j \in 1..(i - 1) \/ j = i
    BY <1>1
  <2>5. i \in 1..i /\ \A j \in 1..(i - 1) : j \in 1..i
    BY <1>1
  <2>6. (\E j \in 1..i : R3[inputs[j]].version # last[j]) <=>
          \/ \E j \in 1..(i - 1) : R3[inputs[j]].version # last[j]
          \/ R3[u].version # last[i]
    <3>. HIDE DEF last
    <3>. QED
      BY <2>4, <2>5
  <2>7. (\E j \in 1..(i - 1) : R3[inputs[j]].version # last[j]) <=>
          (\E j \in 1..(i - 1) : R[inputs[j]].version # last[j])
    BY <2>2
  <2>. QED
    BY <2>1, <2>3, <2>6, <2>7
<1>20. Done(S, R3, E2)
  <2>1. SameShape(S, R2)
    BY DEF IsQuery, R2
  <2>2. CASE m \notin E2
    <3>1. \A l \in E2 : R3[l] = R2[l]
      BY <1>8, <1>12, <2>2 DEF Done
    <3>. QED
      BY <1>8, <2>1, <3>1, DoneKept
  <2>3. CASE m \in E2
    <3>1. ~Stale(R2, m) /\ R2[m].inputs = inputs
      BY <1>8, <2>1, <2>3 DEF Done, Turned, SameShape
    <3>2. ~IsView(R2[m]) /\ IsDerivedRecord(R2, R2[m])
      BY <2>1 DEF IsQuery, R2, SameShape, WellFormed, IsView
    <3>. DEFINE seen == R2[m].last_versions
    <3>3. /\ seen = [j \in DOMAIN inputs |-> seen[j]]
          /\ R2[m] = [inputs |-> inputs, last_versions |-> seen, value |-> R2[m].value,
                      version |-> R2[m].version]
      BY <3>1, <3>2 DEF IsDerivedRecord
    <3>4. seen = [j \in DOMAIN inputs |-> R2[inputs[j]].version]
      BY <3>1, <3>2 DEF Stale, Versions
    <3>5. seen[i] = R2[u].version
      <4>1. i \in DOMAIN inputs
        BY <1>1
      <4>. HIDE DEF seen, inputs
      <4>. QED
        BY <3>4, <4>1 DEF inputs
    <3>6. [j \in DOMAIN inputs |-> IF j = i THEN R2[u].version ELSE seen[j]] = seen
      <4>. HIDE DEF seen, inputs, u
      <4>. QED
        BY <3>3, <3>5
    <3>7. R3[m] = R2[m]
      BY <1>9, <3>3, <3>6
    <3>8. \A l \in E2 : R3[l] = R2[l]
      BY <1>8, <1>12, <3>7 DEF Done
    <3>. QED
      BY <1>8, <2>1, <3>8, DoneKept
  <2>. QED
    BY <2>2, <2>3
<1>21. \A l \in 1..Len(S) : l # m => /\ l \notin E2 \ D => R3[l] = Q0.sources[l]
                                     /\ l \in Q3.changed <=> l \in Q0.changed
                                     /\ Q3.vals[l] = Q0.vals[l]
  <2>. SUFFICES ASSUME NEW l \in 1..Len(S), l # m
                PROVE  /\ l \notin E2 \ D => R3[l] = Q0.sources[l]
                       /\ l \in Q3.changed <=> l \in Q0.changed
                       /\ Q3.vals[l] = Q0.vals[l]
    OBVIOUS
  <2>1. (l \in Q3.changed <=> l \in Q2.changed) /\ Q3.vals[l] = Q2.vals[l]
    BY <1>9 DEF OnlyOf
  <2>2. l \notin E2 \ D => l \notin Below(S, u) \ E /\ l \notin E \ D
    BY <1>3
  <2>. QED
    BY <1>7, <1>8, <1>12, <2>1, <2>2
<1>22. Looped(S, Q0, Q3, D, m, i)
  <2>1. R3[m] = Compared(S, Q0, Q3, m, i)
    BY <1>17, Zenon DEF Compared, R3, s0
  <2>2. Q3.vals[m] = Values(S, Q3, m, i)
    BY <1>18, Zenon DEF Values, R3
  <2>3. m \in Q3.changed <=> SawGrowth(S, Q0, Q3, m, i)
    BY <1>19, Zenon DEF SawGrowth, R3, s0
  <2>4. Done(S, Q3.sources, Reached(S, D, m, i))
    BY <1>20 DEF R3, E2
  <2>5. LeftAlone(S, Q0, Q3, Reached(S, D, m, i) \ D, m)
    <3>1. R3 = Q3.sources /\ E2 = Reached(S, D, m, i)
      BY DEF R3, E2
    <3>. DEFINE F == Reached(S, D, m, i) \ D
    <3>. SUFFICES ASSUME NEW l \in 1..Len(S), l # m
                  PROVE  /\ l \notin F => Q3.sources[l] = Q0.sources[l]
                         /\ l \in Q3.changed <=> l \in Q0.changed
                         /\ Q3.vals[l] = Q0.vals[l]
      BY DEF LeftAlone
    <3>. QED
      BY <1>21, <3>1
  <2>. HIDE DEF R3
  <2>6. Q3.sources[m] = Compared(S, Q0, Q3, m, i)
    BY <2>1 DEF R3
  <2>. QED
    BY <2>2, <2>3, <2>4, <2>5, <2>6, Zenon DEF Looped
<1>. QED
  BY <1>22 DEF Q3

\* The call ends: m has had its turn.
LEMMA LoopEnds ==
  ASSUME NEW S, WellFormed(S), NEW Q0, IsQuery(S, Q0), NEW Q, IsQuery(S, Q),
         NEW m \in 1..Len(S), ~IsView(S[m]), NEW D, Ready(S, Q0, D, m),
         Looped(S, Q0, Q, D, m, Len(S[m].inputs))
  PROVE  Returned(S, Q0, Step(Q, m, 0), D, m)
<1>. DEFINE inputs == S[m].inputs
            c == Len(inputs)
            E == Reached(S, D, m, c)
            s0 == Q0.sources[m]
            last == s0.last_versions
            R0 == Q0.sources
            R == Q.sources
            Q2 == Step(Q, m, 0)
            R2 == Q2.sources
<1>1. /\ DOMAIN inputs = 1..c /\ c \in Nat /\ Len(S) \in Nat /\ Ordered(S)
      /\ \A j \in 1..c : /\ inputs[j] \in 1..Len(S) /\ inputs[j] \in 1..(m - 1)
                         /\ inputs[j] \in Below(S, inputs[j])
                         /\ Below(S, inputs[j]) \subseteq 1..(m - 1)
  BY InputsBelow DEF WellFormed
<1>2. m \in Nat /\ m \notin 1..(m - 1) /\ m \in 1..m
  BY <1>1
<1>3. /\ Below(S, m) = {m} \cup UNION {Below(S, inputs[j]) : j \in 1..c}
      /\ D \cup Below(S, m) = E \cup {m} /\ D \subseteq E
  <2>1. Below(S, m) = {m} \cup UNION {Below(S, inputs[j]) : j \in 1..c}
    BY <1>1, BelowStep
  <2>. QED
    BY <2>1 DEF Reached
<1>4. m \in E => m \in D
  BY <1>1, <1>2 DEF Reached
<1>5. \A j \in 1..c : inputs[j] \in E /\ inputs[j] # m
  <2>1. \A j \in 1..c : inputs[j] \in E
    BY <1>1 DEF Reached
  <2>2. \A j \in 1..c : inputs[j] # m
    BY <1>1, <1>2
  <2>. QED
    BY <2>1, <2>2
<1>6. /\ Done(S, R, E)
      /\ \A l \in 1..Len(S) : l # m => /\ l \notin E \ D => R[l] = R0[l]
                                       /\ l \in Q.changed <=> l \in Q0.changed
                                       /\ Q.vals[l] = Q0.vals[l]
      /\ R[m] = [inputs |-> inputs,
                 last_versions |-> [j \in DOMAIN inputs |-> IF j <= c THEN R[inputs[j]].version
                                                            ELSE last[j]],
                 value |-> s0.value, version |-> s0.version]
      /\ Q.vals[m] = [j \in 1..c |-> R[inputs[j]].value]
      /\ m \in Q.changed <=> \E j \in 1..c : R[inputs[j]].version # last[j]
  BY Zenon DEF Looped, LeftAlone, Compared, Values, SawGrowth
<1>7. /\ IsQuery(S, Q2) /\ OnlyOf(S, Q, Q2, m)
      /\ m \notin Q2.changed /\ Q2.vals[m] = << >>
      /\ R2[m] = IF m \in Q.changed
                 THEN [inputs |-> inputs, last_versions |-> R[m].last_versions,
                       value |-> Combine(Q.vals[m]), version |-> R[m].version + 1]
                 ELSE R[m]
  BY CombineStep
<1>. HIDE DEF Q2, R2, R, R0, E, c, s0
<1>8. /\ Done(S, R0, D) /\ (m \notin D => R0[m] = S[m]) /\ m \notin Q0.changed /\ Q0.vals[m] = << >>
  BY <1>2 DEF Ready, R0
<1>9. \A l \in 1..Len(S) : l # m => R2[l] = R[l]
  BY <1>7 DEF OnlyOf, R, R2
<1>10. \A l \in 1..Len(S) : (l \in Q2.changed <=> l \in Q0.changed) /\ Q2.vals[l] = Q0.vals[l]
  <2>. SUFFICES ASSUME NEW l \in 1..Len(S)
                PROVE  (l \in Q2.changed <=> l \in Q0.changed) /\ Q2.vals[l] = Q0.vals[l]
    OBVIOUS
  <2>1. CASE l = m
    BY <1>7, <1>8, <2>1
  <2>2. CASE l # m
    <3>1. (l \in Q2.changed <=> l \in Q.changed) /\ Q2.vals[l] = Q.vals[l]
      BY <1>7, <2>2 DEF OnlyOf
    <3>. QED
      BY <1>6, <2>2, <3>1
  <2>. QED
    BY <2>1, <2>2
<1>11. SameShape(S, R) /\ SameShape(S, R0) /\ SameShape(S, R2)
  BY <1>7 DEF IsQuery, R, R0, R2
<1>12. IsDerivedRecord(R0, s0) /\ s0.inputs = inputs /\ ~IsView(s0)
  BY <1>11 DEF IsQuery, R0, s0, SameShape, WellFormed, IsView
<1>13. /\ s0 = [inputs |-> inputs, last_versions |-> last, value |-> s0.value, version |-> s0.version]
       /\ last = [j \in DOMAIN inputs |-> last[j]]
  BY <1>12 DEF IsDerivedRecord
<1>. DEFINE now == [j \in DOMAIN inputs |-> R[inputs[j]].version]
<1>14. R[m] = [inputs |-> inputs, last_versions |-> now, value |-> s0.value, version |-> s0.version]
  <2>1. \A j \in DOMAIN inputs : j <= c
    BY <1>1
  <2>2. [j \in DOMAIN inputs |-> IF j <= c THEN R[inputs[j]].version ELSE last[j]] = now
    BY <2>1
  <2>. HIDE DEF now, last
  <2>. QED
    BY <1>6, <2>2
<1>15. (m \in Q.changed) <=> now # last
  <2>1. m \in Q.changed <=> \E j \in DOMAIN inputs : R[inputs[j]].version # last[j]
    BY <1>1, <1>6
  <2>2. \A j \in DOMAIN inputs : now[j] = R[inputs[j]].version
    OBVIOUS
  <2>3. now = [j \in DOMAIN inputs |-> now[j]]
    OBVIOUS
  <2>. HIDE DEF now, last, inputs
  <2>. QED
    BY <1>13, <2>1, <2>2, <2>3
<1>16. \A j \in DOMAIN inputs : R2[inputs[j]] = R[inputs[j]]
  BY <1>1, <1>5, <1>9
<1>17. CASE m \in D
  <2>1. Below(S, m) \subseteq D
    BY <1>1, <1>8, <1>17, DoneBelow
  <2>2. E = D /\ D \cup Below(S, m) = D
    BY <1>3, <1>17, <2>1
  <2>3. \A l \in 1..Len(S) : l # m => R2[l] = R0[l]
    BY <1>6, <1>9, <2>2
  <2>4. \A j \in DOMAIN inputs : R[inputs[j]] = R0[inputs[j]]
    BY <1>1, <1>5, <1>6, <2>2
  <2>5. now = last
    <3>1. ~Stale(R0, m) /\ R0[m] = s0
      BY <1>8, <1>17 DEF Done, Turned, R0, s0
    <3>2. last = [j \in DOMAIN inputs |-> R0[inputs[j]].version]
      BY <1>12, <3>1 DEF Stale, Versions
    <3>. QED
      BY <2>4, <3>2
  <2>6. R2[m] = R0[m]
    <3>1. R2[m] = R[m]
      BY <1>7, <1>15, <2>5
    <3>2. R[m] = s0
      <4>. HIDE DEF now, last
      <4>. QED
        BY <1>13, <1>14, <2>5
    <3>. QED
      BY <3>1, <3>2 DEF s0, R0
  <2>7. \A l \in 1..Len(S) : R2[l] = R0[l]
    BY <2>3, <2>6
  <2>8. Done(S, R2, D)
    BY <1>8, <1>11, <2>7, DoneKept DEF Done
  <2>9. Returned(S, Q0, Q2, D, m)
    BY <1>10, <2>2, <2>7, <2>8 DEF Returned, R2, R0
  <2>. QED
    BY <2>9 DEF Q2
<1>18. CASE m \notin D
  <2>1. s0 = S[m]
    BY <1>8, <1>18 DEF R0, s0
  <2>2. Pending(S, m) <=> m \in Q.changed
    <3>1. \A j \in DOMAIN S[m].inputs : Turned(S, R, S[m].inputs[j])
      BY <1>1, <1>5, <1>6 DEF Done
    <3>2. Pending(S, m) <=>
            \E j \in DOMAIN S[m].inputs : R[S[m].inputs[j]].version # S[m].last_versions[j]
      BY <3>1, GrownIffPending
    <3>. QED
      BY <1>1, <1>6, <2>1, <3>2
  <2>3. Versions(inputs, R2) = now
    BY <1>16 DEF Versions
  <2>4. Turned(S, R2, m)
    <3>1. CASE m \notin Q.changed
      <4>1. R2[m] = S[m]
        <5>1. R2[m] = R[m] /\ now = last
          BY <1>7, <1>15, <3>1
        <5>. HIDE DEF now, last
        <5>. QED
          BY <1>13, <1>14, <2>1, <5>1
      <4>2. S[m].last_versions = now
        BY <1>15, <2>1, <3>1
      <4>3. ~Stale(R2, m)
        <5>. HIDE DEF now
        <5>. QED
          BY <2>3, <4>1, <4>2 DEF Stale
      <4>. QED
        BY <2>2, <3>1, <4>1, <4>3 DEF Turned
    <3>2. CASE m \in Q.changed
      <4>. DEFINE value == Combine(Q.vals[m])
      <4>1. R2[m] = [inputs |-> inputs, last_versions |-> now, value |-> value,
                     version |-> S[m].version + 1]
        <5>1. R[m].last_versions = now /\ R[m].version = S[m].version
          <6>. HIDE DEF now
          <6>. QED
            BY <1>14, <2>1
        <5>. HIDE DEF now
        <5>. QED
          BY <1>7, <3>2, <5>1
      <4>2. value = Combine([j \in DOMAIN inputs |-> R2[inputs[j]].value])
        <5>1. [j \in DOMAIN inputs |-> R2[inputs[j]].value] = [j \in 1..c |-> R[inputs[j]].value]
          BY <1>1, <1>16
        <5>. QED
          BY <1>6, <5>1
      <4>. HIDE DEF now, value
      <4>3. /\ R2[m].inputs = inputs /\ R2[m].last_versions = now /\ R2[m].value = value
            /\ R2[m].version = S[m].version + 1
        BY <4>1
      <4>4. ~IsView(R2[m])
        BY <4>3 DEF IsView
      <4>5. ~Stale(R2, m)
        BY <2>3, <4>3, <4>4 DEF Stale
      <4>6. Settled(R2, m)
        BY <4>2, <4>3, <4>4 DEF Settled
      <4>. QED
        BY <2>2, <3>2, <4>3, <4>5, <4>6 DEF Turned
    <3>. QED
      BY <3>1, <3>2
  <2>5. Done(S, R2, E)
    <3>1. \A l \in E : R2[l] = R[l]
      BY <1>4, <1>6, <1>9, <1>18 DEF Done
    <3>. QED
      BY <1>6, <1>11, <3>1, DoneKept
  <2>6. Done(S, R2, E \cup {m})
    <3>1. \A j \in DOMAIN S[m].inputs : S[m].inputs[j] \in E
      BY <1>1, <1>5
    <3>. QED
      BY <2>4, <2>5, <3>1 DEF Done
  <2>7. \A l \in 1..Len(S) : l \notin Below(S, m) \ D => R2[l] = R0[l]
    <3>1. m \in Below(S, m) \ D
      BY <1>3, <1>18
    <3>2. E \ D \subseteq Below(S, m) \ D
      <4>1. E \subseteq D \cup Below(S, m)
        BY <1>3
      <4>. QED
        BY <4>1
    <3>. QED
      BY <1>6, <1>9, <3>1, <3>2
  <2>8. Returned(S, Q0, Q2, D, m)
    BY <1>3, <1>10, <2>6, <2>7 DEF Returned, R2, R0
  <2>. QED
    BY <2>8 DEF Q2
<1>. QED
  BY <1>17, <1>18

-----------------------------------------------------------------------------
(* The steps of a query, one after the other.                              *)

IsStage(run, S, steps, n) ==
  run = [l \in 0..n |-> IF l = 0 THEN Begun(S) ELSE Step(run[l - 1], steps[l][1], steps[l][2])]

\* The recursive function that takes the steps exists.
LEMMA StagesExist ==
  ASSUME NEW S, NEW steps, NEW k \in Nat
  PROVE  \E run : IsStage(run, S, steps, k)
<1>. DEFINE T == {m \in Nat : \E run : IsStage(run, S, steps, m)}
<1>1. 0 \in T
  <2>1. IsStage([l \in 0..0 |-> Begun(S)], S, steps, 0)
    <3>. DEFINE b == Begun(S)
                r == [l \in 0..0 |-> b]
    <3>1. \A l \in 0..0 : l = 0
      OBVIOUS
    <3>. HIDE DEF b
    <3>2. r = [l \in 0..0 |-> IF l = 0 THEN b ELSE Step(r[l - 1], steps[l][1], steps[l][2])]
      BY <3>1
    <3>. QED
      BY <3>2 DEF IsStage, b
  <2>. QED
    BY <2>1
<1>2. ASSUME NEW m \in Nat, m \in T PROVE m + 1 \in T
  <2>1. PICK run : IsStage(run, S, steps, m)
    BY <1>2
  <2>. DEFINE last == Step(run[m], steps[m + 1][1], steps[m + 1][2])
              next == [l \in 0..(m + 1) |-> IF l = m + 1 THEN last ELSE run[l]]
  <2>. HIDE DEF last
  <2>2. \A l \in 0..(m + 1) : next[l] = IF l = m + 1 THEN last ELSE run[l]
    OBVIOUS
  <2>3. next = [l \in 0..(m + 1) |-> next[l]]
    OBVIOUS
  <2>. HIDE DEF next
  <2>4. ASSUME NEW l \in 0..(m + 1)
        PROVE  next[l] = IF l = 0 THEN Begun(S) ELSE Step(next[l - 1], steps[l][1], steps[l][2])
    <3>1. CASE l = m + 1
      <4>1. l # 0 /\ l - 1 = m /\ m \in 0..(m + 1) /\ m # m + 1
        BY <3>1
      <4>2. next[l] = last /\ next[l - 1] = run[m]
        BY <2>2, <3>1, <4>1
      <4>. QED
        BY <3>1, <4>1, <4>2 DEF last
    <3>2. CASE l # m + 1
      <4>1. l \in 0..m /\ (l # 0 => l - 1 \in 0..(m + 1) /\ l - 1 # m + 1)
        BY <3>2
      <4>2. next[l] = run[l] /\ (l # 0 => next[l - 1] = run[l - 1])
        BY <2>2, <3>2, <4>1
      <4>3. run[l] = IF l = 0 THEN Begun(S) ELSE Step(run[l - 1], steps[l][1], steps[l][2])
        BY <2>1, <4>1, Zenon DEF IsStage
      <4>. QED
        BY <4>2, <4>3
    <3>. QED
      BY <3>1, <3>2
  <2>5. IsStage(next, S, steps, m + 1)
    BY <2>3, <2>4, Zenon DEF IsStage
  <2>. QED
    BY <2>5
<1>. HIDE DEF T
<1>3. k \in T
  BY <1>1, <1>2, SetInduction
<1>. QED
  BY <1>3 DEF T

\* What the steps do, one by one.
IsRun(S, steps, run) ==
  /\ run[0] = Begun(S)
  /\ \A k \in 1..Len(steps) : run[k] = Step(run[k - 1], steps[k][1], steps[k][2])

\* After tells where they lead.
LEMMA RunOf ==
  ASSUME NEW S, NEW steps, Len(steps) \in Nat
  PROVE  \E run : IsRun(S, steps, run) /\ \A k : After(S, steps, k) = run[k]
<1>. DEFINE n == Len(steps)
            run == CHOOSE run : IsStage(run, S, steps, n)
<1>1. \A k : After(S, steps, k) = run[k]
  BY Zenon DEF After, IsStage
<1>. HIDE DEF n
<1>2. IsStage(run, S, steps, n)
  BY StagesExist DEF n
<1>. HIDE DEF run
<1>3. \A k \in 0..n : run[k] = IF k = 0 THEN Begun(S) ELSE Step(run[k - 1], steps[k][1], steps[k][2])
  BY <1>2, Zenon DEF IsStage
<1>4. n \in Nat /\ 0 \in 0..n /\ \A k \in 1..n : k \in 0..n /\ k # 0
  BY DEF n
<1>5. run[0] = Begun(S)
  BY <1>3, <1>4
<1>6. \A k \in 1..n : run[k] = Step(run[k - 1], steps[k][1], steps[k][2])
  BY <1>3, <1>4
<1>7. IsRun(S, steps, run)
  BY <1>5, <1>6 DEF IsRun, n
<1>. QED
  BY <1>1, <1>7

\* A step of a query leads from a query under way to another.
LEMMA StepKeepsQuery ==
  ASSUME NEW S, WellFormed(S), NEW Q, IsQuery(S, Q), NEW s \in StepsOf(S)
  PROVE  IsQuery(S, Step(Q, s[1], s[2]))
<1>. DEFINE m == s[1]
            i == s[2]
            c == Len(S[m].inputs)
<1>1. m \in 1..Len(S) /\ i \in 0..c /\ i \in Nat
  BY DEF StepsOf
<1>. HIDE DEF m, i
<1>2. c \in Nat
  BY <1>1, InputsBelow DEF WellFormed
<1>3. CASE IsView(S[m])
  BY <1>1, <1>3, ViewStep DEF m, i
<1>4. CASE ~IsView(S[m]) /\ i = 0
  BY <1>1, <1>4, CombineStep DEF m, i
<1>5. CASE ~IsView(S[m]) /\ i # 0
  <2>1. i \in 1..Len(S[m].inputs)
    BY <1>1, <1>2, <1>5
  <2>. QED
    BY <1>1, <1>5, <2>1, CompareStep DEF m, i
<1>. QED
  BY <1>3, <1>4, <1>5

\* So all that a query goes through are queries under way.
LEMMA RunQueries ==
  ASSUME NEW S, WellFormed(S), NEW steps \in Seq(StepsOf(S)), NEW run, IsRun(S, steps, run)
  PROVE  \A k \in 0..Len(steps) : IsQuery(S, run[k])
<1>. DEFINE n == Len(steps)
            T == {k \in Nat : k <= n => IsQuery(S, run[k])}
<1>1. n \in Nat /\ \A k \in 1..n : steps[k] \in StepsOf(S)
  OBVIOUS
<1>2. 0 \in T
  <2>1. DOMAIN S = 1..Len(S)
    BY DEF WellFormed, Ordered
  <2>2. IsQuery(S, Begun(S))
    BY <2>1 DEF IsQuery, Begun, SameShape
  <2>. QED
    BY <2>2 DEF IsRun
<1>3. ASSUME NEW k \in Nat, k \in T PROVE k + 1 \in T
  <2>. SUFFICES ASSUME k + 1 <= n PROVE IsQuery(S, run[k + 1])
    OBVIOUS
  <2>1. k + 1 \in 1..n /\ (k + 1) - 1 = k /\ IsQuery(S, run[k])
    BY <1>1, <1>3
  <2>. DEFINE s == steps[k + 1]
  <2>2. s \in StepsOf(S)
    BY <1>1, <2>1
  <2>3. run[k + 1] = Step(run[k], s[1], s[2])
    BY <2>1 DEF IsRun
  <2>. HIDE DEF s
  <2>. QED
    BY <2>1, <2>2, <2>3, StepKeepsQuery
<1>. HIDE DEF T
<1>4. Nat \subseteq T
  BY <1>2, <1>3, SetInduction
<1>. QED
  BY <1>1, <1>4 DEF T

\* A step at which a call ends.  (A view has no others.)
AtEnd(S, s) == IsView(S[s[1]]) \/ s[2] = 0

\* Wherever the steps of value() of m stand in those of a query, and whichever
\* sources have had their turn, the call does what it should.
CallOk(S, steps, run, m) ==
  \A a \in Nat, D \in SUBSET (1..Len(S)) :
    Segment(steps, a, Steps(S, m)) /\ Ready(S, run[a], D, m) =>
      /\ Returned(S, run[a], run[a + Len(Steps(S, m))], D, m)
      /\ \A k \in a..(a + Len(Steps(S, m)) - 1) :
           AtEnd(S, steps[k + 1]) => Visiting(S, run[a], run[k], D, m, steps[k + 1][1])

\* So does that of a view.
LEMMA ViewCallOk ==
  ASSUME NEW S, WellFormed(S), NEW steps \in Seq(StepsOf(S)), NEW run, IsRun(S, steps, run),
         NEW m \in 1..Len(S), IsView(S[m])
  PROVE  CallOk(S, steps, run, m)
<1>1. S[m].inputs = << >> /\ Len(S[m].inputs) = 0 /\ Ordered(S)
  BY DEF IsView, WellFormed
<1>2. Len(Steps(S, m)) = 1 /\ Steps(S, m)[1] = <<m, 0>>
  <2>. DEFINE inputs == S[m].inputs
              own == Steps(S, m)
  <2>0. PICK off : IsLayout(S, m, off)
    BY <1>1, CallLayout
  <2>1. off[0] = 0 /\ Len(own) = off[Len(inputs)] + 1 /\ own[Len(own)] = <<m, 0>>
    BY <2>0, Zenon DEF IsLayout
  <2>. HIDE DEF own
  <2>2. Len(own) = 1 /\ own[1] = <<m, 0>>
    BY <1>1, <2>1
  <2>. QED
    BY <2>2 DEF own
<1>. SUFFICES ASSUME NEW a \in Nat, NEW D \in SUBSET (1..Len(S)),
                     Segment(steps, a, Steps(S, m)), Ready(S, run[a], D, m)
              PROVE  /\ Returned(S, run[a], run[a + 1], D, m)
                     /\ \A k \in a..(a + 1 - 1) :
                          AtEnd(S, steps[k + 1]) =>
                            Visiting(S, run[a], run[k], D, m, steps[k + 1][1])
  BY <1>2 DEF CallOk
<1>3. a + 1 <= Len(steps) /\ steps[a + 1] = <<m, 0>>
  <2>1. 1 \in 1..1
    OBVIOUS
  <2>. QED
    BY <1>2, <2>1 DEF Segment
<1>4. a \in 0..Len(steps) /\ a + 1 \in 1..Len(steps) /\ (a + 1) - 1 = a
  BY <1>3
<1>5. run[a + 1] = Step(run[a], m, 0)
  BY <1>3, <1>4 DEF IsRun
<1>6. IsQuery(S, run[a])
  BY <1>4, RunQueries
<1>7. Returned(S, run[a], run[a + 1], D, m) /\ Visiting(S, run[a], run[a], D, m, m)
  BY <1>5, <1>6, ViewCall
<1>8. \A k \in a..(a + 1 - 1) : k = a
  OBVIOUS
<1>. QED
  BY <1>3, <1>7, <1>8

\* That of a derived view calls those of its inputs, which are earlier sources.
LEMMA DerivedCallOk ==
  ASSUME NEW S, WellFormed(S), NEW steps \in Seq(StepsOf(S)), NEW run, IsRun(S, steps, run),
         NEW m \in 1..Len(S), ~IsView(S[m]),
         \A l \in 1..(m - 1) : CallOk(S, steps, run, l)
  PROVE  CallOk(S, steps, run, m)
<1>. DEFINE inputs == S[m].inputs
            own == Steps(S, m)
            c == Len(inputs)
            U == StepsOf(S)
            end(k) == AtEnd(S, steps[k + 1])
            at(k) == steps[k + 1][1]
<1>. SUFFICES ASSUME NEW a \in Nat, NEW D \in SUBSET (1..Len(S)),
                     Segment(steps, a, own), Ready(S, run[a], D, m)
              PROVE  /\ Returned(S, run[a], run[a + Len(own)], D, m)
                     /\ \A k \in a..(a + Len(own) - 1) :
                          end(k) => Visiting(S, run[a], run[k], D, m, at(k))
  BY DEF CallOk
<1>1. /\ Ordered(S) /\ DOMAIN inputs = 1..c /\ c \in Nat
      /\ \A i \in 1..c : inputs[i] \in 1..(m - 1) /\ inputs[i] \in 1..Len(S)
  BY InputsBelow DEF WellFormed
<1>2. own \in Seq(U) /\ \A i \in 1..c : Steps(S, inputs[i]) \in Seq(U)
  BY <1>1, StepsSeq
<1>3. PICK off : IsLayout(S, m, off)
  BY <1>1, CallLayout
<1>4. /\ off \in [0..c -> Nat]
      /\ off[0] = 0
      /\ Len(own) = off[c] + 1
      /\ own[Len(own)] = <<m, 0>>
      /\ \A i \in 1..c : /\ Segment(own, off[i - 1], Steps(S, inputs[i]))
                         /\ off[i] = off[i - 1] + Len(Steps(S, inputs[i])) + 1
                         /\ off[i] <= Len(own)
                         /\ own[off[i]] = <<m, i>>
  BY <1>3, Zenon DEF IsLayout
<1>5. Len(own) \in Nat /\ Len(steps) \in Nat /\ a + Len(own) <= Len(steps)
      /\ \A j \in 1..Len(own) : steps[a + j] = own[j]
  BY <1>2 DEF Segment
<1>6. \A k \in 0..Len(steps) : IsQuery(S, run[k])
  BY RunQueries
<1>7. \A k \in 1..Len(steps) : run[k] = Step(run[k - 1], steps[k][1], steps[k][2])
  BY DEF IsRun
<1>. HIDE DEF own, inputs, c, U, end, at
<1>. DEFINE Q(i) == run[a + off[i]]
            visits(n) == \A k \in a..(a + n - 1) :
                           end(k) => Visiting(S, run[a], run[k], D, m, at(k))
            T == {i \in Nat : i <= c => Looped(S, run[a], Q(i), D, m, i) /\ visits(off[i])}
<1>8. 0 \in T
  <2>1. a \in 0..Len(steps) /\ a + 0 = a
    BY <1>5
  <2>2. Looped(S, run[a], run[a], D, m, 0)
    BY <1>6, <2>1, LoopBegins
  <2>3. visits(0)
    OBVIOUS
  <2>. QED
    BY <1>4, <2>1, <2>2, <2>3
<1>9. ASSUME NEW i \in Nat, i \in T PROVE i + 1 \in T
  <2>. DEFINE j == i + 1
              v == inputs[j]
              b == a + off[i]
              n == Len(Steps(S, v))
              E == Reached(S, D, m, i)
  <2>. SUFFICES ASSUME j <= c PROVE Looped(S, run[a], Q(j), D, m, j) /\ visits(off[j])
    OBVIOUS
  <2>1. j \in 1..c /\ j - 1 = i /\ i \in 0..c /\ j \in 0..c /\ i <= c
    BY <1>1
  <2>2. Looped(S, run[a], run[b], D, m, j - 1) /\ visits(off[i])
    BY <1>9, <2>1
  <2>3. /\ Segment(own, off[i], Steps(S, v)) /\ off[j] = off[i] + n + 1 /\ off[j] <= Len(own)
        /\ own[off[j]] = <<m, j>> /\ off[i] \in Nat /\ off[j] \in Nat
    BY <1>4, <2>1
  <2>4. Steps(S, v) \in Seq(U) /\ n \in Nat /\ v \in 1..(m - 1)
    BY <1>1, <1>2, <2>1
  <2>. HIDE DEF v
  <2>5. b \in Nat /\ b + n + 1 = a + off[j] /\ a + off[j] <= Len(steps) /\ off[j] \in 1..Len(own)
    <3>. DEFINE p == off[i]
                q == off[j]
                L == Len(steps)
                M == Len(own)
    <3>1. /\ p \in Nat /\ q \in Nat /\ L \in Nat /\ M \in Nat /\ n \in Nat /\ b = a + p
          /\ q = p + n + 1 /\ q <= M /\ a + M <= L
      BY <1>5, <2>3, <2>4
    <3>. HIDE DEF p, q, L, M, n, b, T
    <3>2. b \in Nat /\ b + n + 1 = a + q /\ a + q <= L /\ q \in 1..M
      BY <3>1
    <3>. QED
      BY <3>2 DEF q, L, M
  <2>6. Segment(steps, b, Steps(S, v))
    <3>. DEFINE o == off[i]
                t == Steps(S, v)
    <3>1. /\ steps \in Seq(U) /\ own \in Seq(U) /\ t \in Seq(U) /\ o \in Nat
          /\ Segment(steps, a, own) /\ Segment(own, o, t)
      BY <1>2, <2>3, <2>4 DEF U
    <3>. HIDE DEF o, t
    <3>. QED
      BY <3>1, SegmentTransitive DEF o, t
  <2>7. Ready(S, run[b], E, v)
    BY <2>1, <2>2, LoopReady DEF inputs, c, v
  <2>8. E \in SUBSET (1..Len(S))
    BY <2>7 DEF Ready, Done
  <2>. HIDE DEF E, b, n
  <2>9. /\ Returned(S, run[b], run[b + n], E, v)
        /\ \A k \in b..(b + n - 1) : end(k) => Visiting(S, run[b], run[k], E, v, at(k))
    <3>1. CallOk(S, steps, run, v)
      BY <2>4
    <3>. QED
      BY <2>5, <2>6, <2>7, <2>8, <3>1, Zenon DEF CallOk, n, end, at
  <2>10. steps[b + n + 1] = <<m, j>>
    BY <1>5, <2>3, <2>5
  <2>. DEFINE e == b + n
  <2>11. e \in 0..Len(steps) /\ e + 1 \in 1..Len(steps) /\ (e + 1) - 1 = e /\ e + 1 = a + off[j]
    BY <1>5, <2>4, <2>5
  <2>12. run[a + off[j]] = Step(run[e], m, j)
    BY <1>7, <2>10, <2>11
  <2>. HIDE DEF j
  <2>13. Looped(S, run[a], run[a + off[j]], D, m, j)
    <3>1. IsQuery(S, run[e])
      BY <1>6, <2>11
    <3>2. Returned(S, run[b], run[e], Reached(S, D, m, j - 1), inputs[j])
      BY <2>1, <2>9 DEF E, v
    <3>. HIDE DEF e
    <3>. QED
      BY <2>1, <2>2, <2>12, <3>1, <3>2, LoopStep DEF inputs, c
  <2>14. ASSUME NEW k \in a..(a + off[j] - 1), end(k)
         PROVE  Visiting(S, run[a], run[k], D, m, at(k))
    <3>1. k \in a..(a + off[i] - 1) \/ k \in b..(b + n - 1) \/ k = e
      <4>. DEFINE p == off[i]
                  q == off[j]
      <4>1. /\ p \in Nat /\ n \in Nat /\ b = a + p /\ b + n + 1 = a + q /\ q \in Nat
        BY <2>3, <2>4, <2>5 DEF b, n
      <4>2. k \in a..(a + q - 1)
        OBVIOUS
      <4>. HIDE DEF p, q, T
      <4>3. k \in a..(a + p - 1) \/ k \in b..(b + n - 1) \/ k = b + n
        BY <4>1, <4>2
      <4>. QED
        BY <4>3 DEF p
    <3>2. CASE k \in a..(a + off[i] - 1)
      BY <2>2, <2>14, <3>2
    <3>3. CASE k \in b..(b + n - 1)
      <4>1. Visiting(S, run[b], run[k], Reached(S, D, m, j - 1), inputs[j], at(k))
        BY <2>1, <2>9, <2>14, <3>3 DEF E, v
      <4>. QED
        BY <2>1, <2>2, <4>1, LoopVisiting DEF inputs, c
    <3>4. CASE k = e
      <4>1. steps[k + 1] = <<m, j>> /\ j # 0
        BY <2>1, <2>10, <3>4
      <4>2. ~end(k)
        BY <4>1 DEF end, AtEnd
      <4>. QED
        BY <2>14, <4>2
    <3>. QED
      BY <3>1, <3>2, <3>3, <3>4
  <2>. QED
    BY <2>13, <2>14
<1>10. c \in T
  <2>. HIDE DEF T
  <2>. QED
    BY <1>1, <1>8, <1>9, SetInduction
<1>11. Looped(S, run[a], Q(c), D, m, c) /\ visits(off[c])
  BY <1>1, <1>10
<1>. DEFINE e == a + off[c]
<1>12. off[c] \in Nat
  BY <1>1, <1>4
<1>13. /\ e \in 0..Len(steps) /\ e + 1 \in 1..Len(steps) /\ (e + 1) - 1 = e
       /\ e + 1 = a + Len(own) /\ Len(own) \in 1..Len(own)
  <2>. DEFINE p == off[c]
              L == Len(steps)
              M == Len(own)
  <2>1. p \in Nat /\ L \in Nat /\ M \in Nat /\ M = p + 1 /\ a + M <= L /\ e = a + p
    BY <1>4, <1>5, <1>12
  <2>. HIDE DEF p, L, M, T, e
  <2>2. e \in 0..L /\ e + 1 \in 1..L /\ (e + 1) - 1 = e /\ e + 1 = a + M /\ M \in 1..M
    BY <2>1
  <2>. QED
    BY <2>2 DEF L, M
<1>14. steps[e + 1] = <<m, 0>>
  <2>1. steps[a + Len(own)] = own[Len(own)]
    BY <1>5, <1>13
  <2>. QED
    BY <1>4, <1>13, <2>1
<1>15. run[e + 1] = Step(run[e], m, 0)
  BY <1>7, <1>13, <1>14
<1>16. Returned(S, run[a], run[e + 1], D, m)
  <2>1. IsQuery(S, run[a]) /\ IsQuery(S, run[e])
    <3>1. a \in 0..Len(steps)
      BY <1>5
    <3>. QED
      BY <1>6, <1>13, <3>1
  <2>2. Looped(S, run[a], run[e], D, m, Len(S[m].inputs))
    BY <1>11 DEF c, inputs
  <2>. HIDE DEF e
  <2>. QED
    BY <1>15, <2>1, <2>2, LoopEnds
<1>17. ASSUME NEW k \in a..(a + Len(own) - 1), end(k)
       PROVE  Visiting(S, run[a], run[k], D, m, at(k))
  <2>1. k \in a..(a + off[c] - 1) \/ k = e
    <3>. DEFINE p == off[c]
    <3>1. p \in Nat /\ Len(own) = p + 1 /\ e = a + p
      BY <1>4, <1>12
    <3>. HIDE DEF p, e, T
    <3>2. k \in a..(a + p - 1) \/ k = e
      BY <3>1
    <3>. QED
      BY <3>2 DEF p
  <2>2. CASE k = e
    <3>1. at(k) = m
      BY <1>14, <2>2 DEF at
    <3>2. Looped(S, run[a], run[e], D, m, Len(S[m].inputs))
      BY <1>11 DEF c, inputs
    <3>. HIDE DEF e
    <3>. QED
      BY <2>2, <3>1, <3>2, LoopVisits
  <2>. QED
    BY <1>11, <1>17, <2>1, <2>2
<1>. QED
  BY <1>13, <1>16, <1>17

\* Every call does what it should.
LEMMA CallsOk ==
  ASSUME NEW S, WellFormed(S), NEW steps \in Seq(StepsOf(S)), NEW run, IsRun(S, steps, run),
         NEW m \in 1..Len(S)
  PROVE  CallOk(S, steps, run, m)
<1>. DEFINE T == {l \in Nat : CallOk(S, steps, run, l)}
<1>1. Len(S) \in Nat
  BY DEF WellFormed, Ordered
<1>2. ASSUME NEW l \in 1..Len(S), \A k \in 1..(l - 1) : k \in T PROVE l \in T
  <2>1. l \in Nat /\ \A k \in 1..(l - 1) : CallOk(S, steps, run, k)
    BY <1>1, <1>2
  <2>. QED
    BY <2>1, ViewCallOk, DerivedCallOk
<1>3. m \in T
  <2>. HIDE DEF T
  <2>. QED
    BY <1>1, <1>2, StrongInduction
<1>. QED
  BY <1>3

-----------------------------------------------------------------------------
(* What is left of a query when it returns, or throws at the source u.     *)

Queried(S, R, D, u) ==
  /\ WellFormed(R)
  /\ SameShape(S, R)
  /\ Done(S, R, D)
  /\ \A l \in 1..Len(S) : l \notin D /\ u \notin Below(S, l) => R[l] = S[l]

\* When it returns, all that is below the queried source has had its turn, and
\* the rest is as it was.
LEMMA QueryReturns ==
  ASSUME NEW S, WellFormed(S), NEW n \in 1..Len(S)
  PROVE  LET R == Materialized(S, n)
         IN  /\ Queried(S, R, Below(S, n), 0)
             /\ \A l \in 1..Len(S) : l \notin Below(S, n) => R[l] = S[l]
<1>. DEFINE steps == Steps(S, n)
            U == StepsOf(S)
            L == Len(steps)
<1>1. steps \in Seq(U) /\ Len(S) \in Nat /\ DOMAIN S = 1..Len(S)
  BY StepsSeq DEF WellFormed, Ordered
<1>2. L \in Nat
  BY <1>1
<1>3. PICK run : IsRun(S, steps, run) /\ \A k : After(S, steps, k) = run[k]
  BY <1>2, RunOf
<1>4. Materialized(S, n) = run[L].sources
  BY <1>3 DEF Materialized
<1>5. Segment(steps, 0, Steps(S, n))
  <2>1. L <= L /\ \A j \in 1..L : 0 + j = j
    BY <1>2
  <2>. QED
    BY <2>1 DEF Segment
<1>. HIDE DEF steps
<1>6. IsQuery(S, run[L])
  BY <1>1, <1>2, <1>3, RunQueries
<1>7. Ready(S, run[0], {}, n)
  <2>1. run[0] = Begun(S) /\ \A l \in 1..n : l \in 1..Len(S)
    BY <1>1, <1>3 DEF IsRun
  <2>. QED
    BY <1>1, <2>1 DEF Ready, Begun, Done
<1>8. Returned(S, run[0], run[L], {}, n)
  <2>1. CallOk(S, steps, run, n)
    BY <1>1, <1>3, CallsOk
  <2>2. {} \in SUBSET (1..Len(S)) /\ 0 \in Nat /\ 0 + L = L
    BY <1>2
  <2>3. Returned(S, run[0], run[0 + Len(Steps(S, n))], {}, n)
    BY <1>5, <1>7, <2>1, <2>2 DEF CallOk
  <2>. QED
    BY <2>2, <2>3 DEF steps
<1>9. run[0].sources = S
  BY <1>3 DEF IsRun, Begun
<1>. DEFINE R == run[L].sources
<1>10. Done(S, R, Below(S, n)) /\ \A l \in 1..Len(S) : l \notin Below(S, n) => R[l] = S[l]
  <2>1. {} \cup Below(S, n) = Below(S, n) /\ Below(S, n) \ {} = Below(S, n)
    OBVIOUS
  <2>. QED
    BY <1>8, <1>9, <2>1 DEF Returned
<1>11. Queried(S, R, Below(S, n), 0)
  BY <1>6, <1>10 DEF Queried, IsQuery
<1>. QED
  BY <1>4, <1>10, <1>11

\* Wherever it is, it is a query under way; where a call ends, the sources that
\* have had their turn are known, and those above may have begun to compare.
LEMMA QueryThrows ==
  ASSUME NEW S, WellFormed(S), NEW n \in 1..Len(S), NEW k \in DOMAIN Steps(S, n)
  PROVE  LET Q == After(S, Steps(S, n), k - 1)
             u == Steps(S, n)[k][1]
         IN  /\ IsQuery(S, Q) /\ u \in 1..Len(S)
             /\ AtEnd(S, Steps(S, n)[k]) => \E D : Queried(S, Q.sources, D, u)
<1>. DEFINE steps == Steps(S, n)
            U == StepsOf(S)
            L == Len(steps)
            u == steps[k][1]
<1>1. steps \in Seq(U) /\ Len(S) \in Nat
  BY StepsSeq DEF WellFormed, Ordered
<1>2. L \in Nat
  BY <1>1
<1>3. PICK run : IsRun(S, steps, run) /\ \A l : After(S, steps, l) = run[l]
  BY <1>2, RunOf
<1>4. Segment(steps, 0, Steps(S, n))
  <2>1. L <= L /\ \A j \in 1..L : 0 + j = j
    BY <1>2
  <2>. QED
    BY <2>1 DEF Segment
<1>. DEFINE p == k - 1
<1>5. k \in DOMAIN steps
  OBVIOUS
<1>. HIDE DEF steps
<1>6. p \in 0..L /\ p \in 0..(0 + L - 1) /\ p + 1 = k /\ k \in 1..L
  BY <1>1, <1>2, <1>5
<1>7. u \in 1..Len(S)
  <2>1. steps[k] \in U
    BY <1>1, <1>6
  <2>. QED
    BY <2>1 DEF StepsOf
<1>8. IsQuery(S, run[p])
  BY <1>1, <1>3, <1>6, RunQueries
<1>9. Ready(S, run[0], {}, n)
  <2>1. run[0] = Begun(S) /\ \A l \in 1..n : l \in 1..Len(S)
    BY <1>1, <1>3 DEF IsRun
  <2>2. DOMAIN S = 1..Len(S)
    BY DEF WellFormed, Ordered
  <2>. QED
    BY <1>1, <2>1, <2>2 DEF Ready, Begun, Done
<1>10. ASSUME AtEnd(S, steps[k]) PROVE \E D : Queried(S, run[p].sources, D, u)
  <2>1. CallOk(S, steps, run, n)
    BY <1>1, <1>3, CallsOk
  <2>2. {} \in SUBSET (1..Len(S)) /\ 0 \in Nat /\ Len(Steps(S, n)) = L
    BY DEF steps
  <2>3. AtEnd(S, steps[p + 1]) => Visiting(S, run[0], run[p], {}, n, steps[p + 1][1])
    BY <1>4, <1>6, <1>9, <2>1, <2>2, Zenon DEF CallOk
  <2>4. Visiting(S, run[0], run[p], {}, n, u)
    BY <1>6, <1>10, <2>3
  <2>5. run[0].sources = S
    BY <1>3 DEF IsRun, Begun
  <2>. DEFINE R == run[p].sources
  <2>6. PICK E : Done(S, R, E) /\ \A l \in 1..Len(S) : l \notin E /\ u \notin Below(S, l) => R[l] = S[l]
    BY <2>4, <2>5 DEF Visiting
  <2>7. WellFormed(R) /\ SameShape(S, R)
    BY <1>8 DEF IsQuery
  <2>. HIDE DEF R, u
  <2>8. Queried(S, R, E, u)
    BY <2>6, <2>7 DEF Queried
  <2>. QED
    BY <2>8 DEF R, u
<1>. QED
  BY <1>3, <1>7, <1>8, <1>10 DEF steps

\* What a query adds to the version of a source that is not above u.
LEMMA QueryVersions ==
  ASSUME NEW S, WellFormed(S), NEW R, NEW D, NEW u, Queried(S, R, D, u), NEW m \in 1..Len(S),
         u \notin Below(S, m)
  PROVE  /\ S[m].version \in Nat
         /\ R[m] = S[m] \/ R[m].version = S[m].version + 1
         /\ Pending(S, m) /\ m \in D => R[m].version = S[m].version + 1
<1>1. S[m].version \in Nat
  BY DEF WellFormed
<1>2. CASE m \in D
  BY <1>1, <1>2 DEF Queried, Done, Turned
<1>3. CASE m \notin D
  BY <1>1, <1>3 DEF Queried
<1>. QED
  BY <1>2, <1>3

\* A settled source that a query leaves alone, and that has nothing new to see
\* when the query is over, is settled still.
LEMMA SettledKept ==
  ASSUME NEW S, WellFormed(S), NEW R, NEW D, NEW u, Queried(S, R, D, u), NEW m \in 1..Len(S),
         u \notin Below(S, m), R[m] = S[m], Settled(S, m), ~Stale(S, m), ~Stale(R, m)
  PROVE  Settled(R, m)
<1>1. ASSUME NEW i \in DOMAIN S[m].inputs PROVE R[S[m].inputs[i]] = S[S[m].inputs[i]]
  <2>. DEFINE v == S[m].inputs[i]
  <2>1. ~IsView(S[m])
    <3>. SUFFICES ASSUME S[m].inputs = << >> PROVE FALSE
      BY DEF IsView
    <3>. QED
      BY <1>1
  <2>2. v \in 1..Len(S) /\ u \notin Below(S, v)
    <3>1. v \in 1..(m - 1) /\ Len(S) \in Nat
      BY DEF WellFormed, Ordered
    <3>2. Below(S, v) \subseteq Below(S, m)
      BY BelowStep DEF WellFormed
    <3>. QED
      BY <3>1, <3>2
  <2>3. Versions(S[m].inputs, S) = S[m].last_versions /\ Versions(S[m].inputs, R) = S[m].last_versions
    BY <2>1 DEF Stale
  <2>4. S[v].version = R[v].version
    <3>1. Versions(S[m].inputs, S)[i] = S[v].version /\ Versions(S[m].inputs, R)[i] = R[v].version
      BY DEF Versions
    <3>. QED
      BY <2>3, <3>1
  <2>5. S[v].version \in Nat /\ (R[v] = S[v] \/ R[v].version = S[v].version + 1)
    <3>. HIDE DEF v
    <3>. QED
      BY <2>2, QueryVersions
  <2>. HIDE DEF v
  <2>6. R[v] = S[v]
    BY <2>4, <2>5
  <2>. QED
    BY <2>6 DEF v
<1>2. Settled(R, m) = Settled(S, m)
  BY <1>1, Unaffected
<1>. QED
  BY <1>2

\* What has had its turn is settled.
LEMMA SettledAfter ==
  ASSUME NEW S, WellFormed(S), NEW R, NEW D, Done(S, R, D), NEW m \in D,
         Pending(S, m) \/ Settled(S, m)
  PROVE  Settled(R, m)
<1>1. Turned(S, R, m) /\ m \in 1..Len(S)
  BY DEF Done
<1>2. CASE Pending(S, m)
  BY <1>1, <1>2 DEF Turned
<1>3. CASE ~Pending(S, m)
  <2>1. R[m] = S[m]
    BY <1>1, <1>3 DEF Turned
  <2>2. \A i \in DOMAIN S[m].inputs : R[S[m].inputs[i]] = S[S[m].inputs[i]]
    <3>1. \A i \in DOMAIN S[m].inputs : ~Pending(S, S[m].inputs[i])
      BY <1>1, <1>3, PendingStep
    <3>. QED
      BY <3>1 DEF Done, Turned
  <2>3. Settled(R, m) = Settled(S, m)
    BY <2>1, <2>2, Unaffected
  <2>. QED
    BY <1>3, <2>3
<1>. QED
  BY <1>2, <1>3

\* What a query does not reach stays pending if it was.
LEMMA StillPending ==
  ASSUME NEW S, WellFormed(S), NEW R, NEW D, NEW u, Queried(S, R, D, u),
         NEW m \in 1..Len(S), m \notin D, u \notin Below(S, m), Pending(S, m)
  PROVE  Pending(R, m)
<1>. DEFINE T == {l \in Nat : l \notin D /\ u \notin Below(S, l) /\ Pending(S, l) => Pending(R, l)}
<1>1. Len(S) \in Nat /\ Ordered(S) /\ Len(R) = Len(S) /\ WellFormed(R)
  BY DEF WellFormed, Ordered, Queried, SameShape
<1>2. ASSUME NEW l \in 1..Len(S), \A k \in 1..(l - 1) : k \in T PROVE l \in T
  <2>. SUFFICES ASSUME l \notin D, u \notin Below(S, l), Pending(S, l) PROVE Pending(R, l)
    BY <1>1
  <2>1. R[l] = S[l] /\ l \in 1..Len(R)
    BY <1>1 DEF Queried
  <2>2. ASSUME NEW i \in DOMAIN S[l].inputs, S[l].last_versions[i] < R[S[l].inputs[i]].version
        PROVE  Pending(R, l)
    <3>1. ~IsView(S[l])
      <4>. SUFFICES ASSUME S[l].inputs = << >> PROVE FALSE
        BY DEF IsView
      <4>. QED
        BY <2>2
    <3>2. Stale(R, l)
      BY <1>1, <2>1, <2>2, <3>1, SeenVersions
    <3>. QED
      BY <1>1, <2>1, <3>2, PendingStep
  <2>3. ASSUME NEW i \in DOMAIN S[l].inputs
        PROVE  LET v == S[l].inputs[i]
               IN  /\ v \in 1..(l - 1) /\ v \in 1..Len(S) /\ u \notin Below(S, v)
                   /\ S[l].last_versions[i] \in Nat /\ S[v].version \in Nat
                   /\ S[l].last_versions[i] <= S[v].version
                   /\ R[v].version \in Nat
                   /\ S[v].version <= R[v].version
                   /\ Pending(S, v) /\ v \in D => R[v].version = S[v].version + 1
    <3>. DEFINE v == S[l].inputs[i]
    <3>1. v \in 1..(l - 1)
      BY DEF WellFormed, Ordered
    <3>2. v \in 1..Len(S)
      BY <1>1, <3>1
    <3>3. IsDerivedRecord(S, S[l])
      <4>1. S[l].inputs # << >>
        OBVIOUS
      <4>. QED
        BY <4>1 DEF WellFormed, IsView
    <3>4. S[l].last_versions[i] \in Nat /\ S[l].last_versions[i] <= S[v].version
      BY <3>3 DEF IsDerivedRecord
    <3>5. u \notin Below(S, v)
      <4>1. Below(S, v) \subseteq Below(S, l)
        BY <1>1, BelowStep
      <4>. QED
        BY <4>1
    <3>. HIDE DEF v
    <3>6. /\ S[v].version \in Nat /\ (R[v] = S[v] \/ R[v].version = S[v].version + 1)
          /\ Pending(S, v) /\ v \in D => R[v].version = S[v].version + 1
      BY <3>2, <3>5, QueryVersions
    <3>7. R[v].version \in Nat /\ S[v].version <= R[v].version
      BY <3>6
    <3>. QED
      BY <3>1, <3>2, <3>4, <3>5, <3>6, <3>7 DEF v
  <2>4. CASE Stale(S, l) /\ IsView(S[l])
    <3>1. Stale(R, l)
      BY <2>1, <2>4 DEF Stale
    <3>. QED
      BY <1>1, <2>1, <3>1, PendingStep
  <2>5. CASE Stale(S, l) /\ ~IsView(S[l])
    <3>1. PICK i \in DOMAIN S[l].inputs : S[l].last_versions[i] < S[S[l].inputs[i]].version
      BY <2>5, SeenVersions
    <3>. DEFINE last == S[l].last_versions[i]
                before == S[S[l].inputs[i]].version
                after == R[S[l].inputs[i]].version
    <3>2. last \in Nat /\ before \in Nat /\ after \in Nat /\ before <= after /\ last < before
      BY <2>3, <3>1
    <3>. HIDE DEF last, before, after
    <3>3. last < after
      BY <3>2
    <3>. QED
      BY <2>2, <3>3 DEF last, after
  <2>6. ASSUME NEW i \in DOMAIN S[l].inputs, Pending(S, S[l].inputs[i]) PROVE Pending(R, l)
    <3>. DEFINE v == S[l].inputs[i]
                last == S[l].last_versions[i]
    <3>1. /\ v \in 1..(l - 1) /\ v \in 1..Len(S) /\ u \notin Below(S, v)
          /\ last \in Nat /\ S[v].version \in Nat /\ last <= S[v].version
          /\ v \in D => R[v].version = S[v].version + 1
      BY <2>3, <2>6
    <3>2. CASE v \in D
      <4>. DEFINE before == S[v].version
      <4>1. before \in Nat /\ last <= before /\ R[v].version = before + 1
        BY <3>1, <3>2
      <4>. HIDE DEF last, before, v
      <4>2. last < R[v].version
        BY <3>1, <4>1
      <4>. QED
        BY <2>2, <4>2 DEF last, v
    <3>3. CASE v \notin D
      <4>1. Pending(R, v)
        BY <1>2, <2>6, <3>1, <3>3
      <4>. QED
        BY <1>1, <2>1, <4>1, PendingStep
    <3>. QED
      BY <3>2, <3>3
  <2>. QED
    BY <2>4, <2>5, <2>6, PendingStep
<1>3. m \in T
  <2>. HIDE DEF T
  <2>. QED
    BY <1>1, <1>2, StrongInduction
<1>. QED
  BY <1>3

\* A query leaves a source pending or settled, if it was and is not above the
\* source at which the query throws.
LEMMA QueryLeaves ==
  ASSUME NEW S, WellFormed(S), NEW R, NEW D, NEW u, Queried(S, R, D, u),
         NEW m \in 1..Len(S), u \notin Below(S, m), Pending(S, m) \/ Settled(S, m)
  PROVE  Pending(R, m) \/ Settled(R, m)
<1>1. WellFormed(R) /\ Len(R) = Len(S) /\ Done(S, R, D)
  BY DEF Queried, SameShape
<1>3. CASE m \in D
  BY <1>1, <1>3, SettledAfter
<1>2. CASE m \notin D /\ Pending(S, m)
  BY <1>2, StillPending
<1>4. CASE m \notin D /\ ~Pending(S, m)
  <2>1. R[m] = S[m]
    BY <1>4 DEF Queried
  <2>2. Settled(S, m) /\ ~Stale(S, m)
    BY <1>4, PendingStep
  <2>3. CASE Stale(R, m)
    BY <1>1, <2>3, PendingStep
  <2>4. CASE ~Stale(R, m)
    BY <1>4, <2>1, <2>2, <2>4, SettledKept
  <2>. QED
    BY <2>3, <2>4
<1>. QED
  BY <1>3, <1>2, <1>4

\* One that is excused, and not pending, stays excused: what it is excused by is
\* left alone.
LEMMA StillExcused ==
  ASSUME NEW S, WellFormed(S), NEW R, NEW D, NEW u, Queried(S, R, D, u),
         NEW m \in 1..Len(S), u \notin Below(S, m), ~Pending(S, m),
         NEW w \in Below(S, m)
  PROVE  R[w] = S[w] /\ w # u
<1>1. w \in 1..Len(S) /\ Below(S, w) \subseteq Below(S, m)
  BY BelowMore DEF WellFormed
<1>2. ~Pending(S, w) /\ u \notin Below(S, w)
  BY <1>1 DEF Pending
<1>3. R[w] = S[w]
  BY <1>1, <1>2 DEF Queried, Done, Turned
<1>. QED
  BY <1>3

\* The same sources are below it when a query has left R.
LEMMA SameBelow ==
  ASSUME NEW S, WellFormed(S), NEW R, WellFormed(R), SameShape(S, R), NEW m \in 1..Len(S)
  PROVE  Below(R, m) = Below(S, m) /\ m \in 1..Len(R) /\ Len(R) = Len(S)
<1>1. Ordered(S) /\ Ordered(R) /\ Len(S) \in Nat /\ Len(R) = Len(S)
  BY DEF WellFormed, Ordered, SameShape
<1>2. \A l \in 1..m : l \in 1..Len(S)
  BY <1>1
<1>3. m \in 1..Len(R) /\ \A l \in 1..m : R[l].inputs = S[l].inputs
  BY <1>1, <1>2 DEF SameShape
<1>. QED
  BY <1>1, <1>3, BelowSame

\* What a query leaves of the invariant, away from the source at which it throws.
LEMMA QueryLeavesInv ==
  ASSUME NEW S, WellFormed(S), NEW R, NEW D, NEW u, Queried(S, R, D, u),
         NEW m \in 1..Len(S), u \notin Below(S, m), NEW O, NEW O2,
         \A w \in O : w # u /\ R[w] = S[w] => w \in O2,
         Pending(S, m) \/ Settled(S, m) \/ Excused(S, O, m)
  PROVE  Pending(R, m) \/ Settled(R, m) \/ Excused(R, O2, m)
<1>1. CASE Pending(S, m) \/ Settled(S, m)
  BY <1>1, QueryLeaves
<1>2. CASE ~Pending(S, m) /\ Excused(S, O, m)
  <2>1. PICK w \in Below(S, m) : w \in O
    BY <1>2 DEF Excused
  <2>2. w \in O2
    BY <1>2, <2>1, StillExcused
  <2>3. Below(R, m) = Below(S, m)
    BY SameBelow DEF Queried
  <2>. QED
    BY <2>1, <2>2, <2>3 DEF Excused
<1>. QED
  BY <1>1, <1>2

\* A view u that has events to work off: whatever becomes of it, what was pending
\* or settled still is.
LEMMA StalePending ==
  ASSUME NEW R, WellFormed(R), NEW R2, WellFormed(R2), SameShape(R, R2), NEW u,
         \A l \in 1..Len(R) : l # u => R2[l] = R[l], Stale(R2, u),
         NEW m \in 1..Len(R), Pending(R, m) \/ Settled(R, m)
  PROVE  Pending(R2, m) \/ Settled(R2, m)
<1>1. Ordered(R) /\ Ordered(R2) /\ Len(R) \in Nat /\ Len(R2) = Len(R)
  BY DEF WellFormed, Ordered, SameShape
<1>2. \A l \in 1..m : l \in 1..Len(R)
  BY <1>1
<1>3. m \in 1..Len(R2) /\ \A l \in 1..m : R2[l].inputs = R[l].inputs
  BY <1>1, <1>2 DEF SameShape
<1>4. m \in Below(R, m) /\ Below(R, m) \subseteq 1..m
  BY <1>1, BelowEarlier
<1>5. Below(R2, m) = Below(R, m)
  BY <1>1, <1>3, BelowSame
<1>6. CASE u \in Below(R, m)
  BY <1>5, <1>6 DEF Pending
<1>7. CASE u \notin Below(R, m)
  <2>1. ASSUME NEW l \in Below(R, m)
        PROVE  Stale(R2, l) = Stale(R, l) /\ Settled(R2, l) = Settled(R, l)
    <3>1. \A k \in Below(R, m) : R2[k] = R[k]
      BY <1>2, <1>4, <1>7
    <3>2. \A i \in DOMAIN R[l].inputs : R[l].inputs[i] \in Below(R, m)
      BY <1>1, BelowClosed
    <3>. QED
      BY <3>1, <3>2, Unaffected
  <2>. QED
    BY <1>4, <1>5, <2>1 DEF Pending
<1>. QED
  BY <1>6, <1>7

LEMMA NewVersion ==
  ASSUME NEW s, IsViewRecord(s), NEW version
  PROVE  [s EXCEPT !.version = version] =
           [inputs |-> s.inputs, world |-> s.world, dirty |-> s.dirty,
            value |-> s.value, version |-> version]
<1>. DEFINE r == [inputs |-> s.inputs, world |-> s.world, dirty |-> s.dirty,
                  value |-> s.value, version |-> s.version]
<1>1. s = r
  BY DEF IsViewRecord
<1>2. [r EXCEPT !.version = version] =
        [inputs |-> s.inputs, world |-> s.world, dirty |-> s.dirty,
         value |-> s.value, version |-> version]
  OBVIOUS
<1>. HIDE DEF r
<1>. QED
  BY <1>1, <1>2

\* So it is with the view whose refresh throws: of its record the version alone
\* may have changed.
LEMMA CountedView ==
  ASSUME NEW R, WellFormed(R), NEW u \in 1..Len(R), IsView(R[u]), R[u].dirty,
         NEW counted \in 0..1
  PROVE  \E s : /\ [R EXCEPT ![u].version = @ + counted] = [R EXCEPT ![u] = s]
                /\ s.inputs = R[u].inputs /\ s.world = R[u].world /\ s.dirty
                /\ s.version \in Nat /\ R[u].version <= s.version /\ IsViewRecord(s)
<1>. DEFINE grown == R[u].version + counted
            s == [inputs |-> R[u].inputs, world |-> R[u].world, dirty |-> R[u].dirty,
                  value |-> R[u].value, version |-> grown]
<1>1. IsViewRecord(R[u]) /\ R[u].version \in Nat
  BY DEF WellFormed
<1>2. grown \in Nat /\ R[u].version <= grown
  BY <1>1
<1>3. [R EXCEPT ![u].version = @ + counted] = [R EXCEPT ![u].version = grown]
  OBVIOUS
<1>. HIDE DEF grown
<1>4. [R[u] EXCEPT !.version = grown] = s
  BY <1>1, NewVersion
<1>5. [R EXCEPT ![u].version = grown] = [R EXCEPT ![u] = s]
  BY <1>4
<1>6. /\ s.inputs = R[u].inputs /\ s.world = R[u].world /\ s.dirty
      /\ s.version = grown /\ IsViewRecord(s)
  BY <1>1 DEF IsViewRecord
<1>. HIDE DEF s
<1>7. s.version \in Nat /\ R[u].version <= s.version
  BY <1>2, <1>6
<1>. QED
  BY <1>3, <1>5, <1>6, <1>7, Zenon

LEMMA CountedPages ==
  ASSUME NEW R, WellFormed(R), NEW u \in 1..Len(R), IsView(R[u]), R[u].dirty,
         NEW counted \in 0..1, NEW R2, R2 = [R EXCEPT ![u].version = @ + counted]
  PROVE  /\ WellFormed(R2) /\ SameShape(R, R2)
         /\ \A l \in 1..Len(R) : l # u => R2[l] = R[l]
         /\ Stale(R2, u)
<1>1. PICK s : /\ [R EXCEPT ![u].version = @ + counted] = [R EXCEPT ![u] = s]
               /\ s.inputs = R[u].inputs /\ s.world = R[u].world /\ s.dirty
               /\ s.version \in Nat /\ R[u].version <= s.version /\ IsViewRecord(s)
  BY CountedView
<1>2. R2 = [R EXCEPT ![u] = s]
  BY <1>1
<1>3. R = [l \in 1..Len(R) |-> R[l]]
  BY DEF WellFormed, Ordered
<1>4. R2 = [l \in 1..Len(R) |-> R2[l]] /\ R2[u] = s /\ \A l \in 1..Len(R) : l # u => R2[l] = R[l]
  BY <1>2, <1>3
<1>5. WellFormed(R2) /\ SameShape(R, R2)
  BY <1>1, <1>4, RenewedShape
<1>. QED
  BY <1>1, <1>4, <1>5 DEF Stale, IsView

\* A query that returns keeps the invariant.
LEMMA QueryInv ==
  ASSUME ChainInv, NEW n \in 1..Len(sources), Query(n)
  PROVE  ChainInv'
<1>. DEFINE S == sources
            R == Materialized(S, n)
<1>1. WellFormed(S) /\ Ordered(S)
  BY DEF ChainInv, WellFormed
<1>2. Queried(S, R, Below(S, n), 0)
  BY <1>1, QueryReturns
<1>3. sources' = R /\ owing' = Owed(sources')
  BY DEF Query
<1>. HIDE DEF R
<1>4. \A m \in 1..Len(S) : 0 \notin Below(S, m)
  <2>1. \A m \in 1..Len(S) : Below(S, m) \subseteq 1..m
    BY <1>1, BelowEarlier
  <2>. QED
    BY <2>1
<1>5. \A w \in owing : w # 0 /\ R[w] = S[w] => w \in owing'
  BY <1>3 DEF Owed
<1>6. \A m \in 1..Len(S) : Pending(R, m) \/ Settled(R, m) \/ Excused(R, owing', m)
  BY <1>1, <1>2, <1>4, <1>5, QueryLeavesInv DEF ChainInv
<1>7. WellFormed(R) /\ Len(R) = Len(S)
  BY <1>2 DEF Queried, SameShape
<1>. QED
  BY <1>3, <1>6, <1>7 DEF ChainInv

\* What a query that throws in the refresh of a view leaves: R, of which the
\* view u has counted pages.
LEMMA RefreshThrowsAt ==
  ASSUME WellFormed(sources), NEW n \in 1..Len(sources), RefreshThrows(n)
  PROVE  \E R, u, counted, D :
           /\ Queried(sources, R, D, u)
           /\ u \in 1..Len(R) /\ IsView(R[u]) /\ R[u].dirty /\ counted \in 0..1
           /\ sources' = [R EXCEPT ![u].version = @ + counted]
<1>. DEFINE S == sources
            steps == Steps(S, n)
<1>1. PICK k \in DOMAIN steps, counted \in 0..1 :
        LET R == After(S, steps, k - 1).sources
            u == steps[k][1]
        IN  /\ IsView(R[u]) /\ R[u].dirty
            /\ sources' = [R EXCEPT ![u].version = @ + counted]
  BY Zenon DEF RefreshThrows
<1>. DEFINE R == After(S, steps, k - 1).sources
            u == steps[k][1]
<1>2. /\ IsQuery(S, After(S, steps, k - 1)) /\ u \in 1..Len(S)
      /\ AtEnd(S, steps[k]) => \E D : Queried(S, R, D, u)
  BY QueryThrows
<1>3. IsView(R[u]) /\ R[u].dirty /\ sources' = [R EXCEPT ![u].version = @ + counted]
  BY <1>1
<1>4. SameShape(S, R)
  BY <1>2 DEF IsQuery
<1>. HIDE DEF R, u
<1>5. IsView(S[u]) /\ u \in 1..Len(R)
  BY <1>2, <1>3, <1>4 DEF SameShape, IsView
<1>6. PICK D : Queried(S, R, D, u)
  BY <1>2, <1>5 DEF AtEnd, u
<1>. QED
  BY <1>3, <1>5, <1>6

\* It keeps the invariant.
LEMMA RefreshThrowsInv ==
  ASSUME ChainInv, NEW n \in 1..Len(sources), RefreshThrows(n)
  PROVE  ChainInv'
<1>. DEFINE S == sources
            R2 == sources'
<1>1. WellFormed(S) /\ owing' = Owed(R2)
  BY DEF ChainInv, RefreshThrows
<1>2. PICK R, u, D :
        /\ Queried(S, R, D, u)
        /\ WellFormed(R2) /\ SameShape(R, R2)
        /\ \A l \in 1..Len(R) : l # u => R2[l] = R[l]
        /\ Stale(R2, u)
  BY <1>1, RefreshThrowsAt, CountedPages DEF Queried
<1>3. WellFormed(R) /\ SameShape(S, R) /\ Len(R) = Len(S) /\ Len(R2) = Len(R)
  BY <1>2 DEF Queried, SameShape
<1>. HIDE DEF R2
<1>4. ASSUME NEW m \in 1..Len(S)
      PROVE  Pending(R2, m) \/ Settled(R2, m) \/ Excused(R2, owing', m)
  <2>1. m \in 1..Len(R) /\ Below(R, m) = Below(S, m) /\ Below(R2, m) = Below(S, m)
    BY <1>1, <1>2, <1>3, SameBelow
  <2>2. CASE u \in Below(S, m)
    BY <1>2, <2>1, <2>2 DEF Pending
  <2>3. CASE u \notin Below(S, m) /\ (Pending(S, m) \/ Settled(S, m))
    <3>1. Pending(R, m) \/ Settled(R, m)
      BY <1>1, <1>2, <2>3, QueryLeaves
    <3>. QED
      BY <1>2, <1>3, <2>1, <3>1, StalePending
  <2>4. CASE u \notin Below(S, m) /\ ~Pending(S, m) /\ Excused(S, owing, m)
    <3>1. PICK w \in Below(S, m) : w \in owing
      BY <2>4 DEF Excused
    <3>2. w \in 1..Len(S) /\ R[w] = S[w] /\ w # u
      BY <1>1, <1>2, <2>4, StillExcused, BelowMore DEF WellFormed
    <3>3. w \in owing'
      BY <1>1, <1>2, <1>3, <3>1, <3>2 DEF Owed
    <3>. QED
      BY <2>1, <3>1, <3>3 DEF Excused
  <2>. QED
    BY <2>2, <2>3, <2>4 DEF ChainInv
<1>. QED
  BY <1>2, <1>3, <1>4 DEF ChainInv, R2

\* What a query that throws in the combine function of u leaves.
LEMMA CombineThrowsAt ==
  ASSUME WellFormed(sources), NEW n \in 1..Len(sources), CombineThrows(n)
  PROVE  \E u, D : Queried(sources, sources', D, u) /\ owing' = Owed(sources') \cup {u}
<1>. DEFINE S == sources
            steps == Steps(S, n)
<1>1. PICK k \in DOMAIN steps :
        /\ steps[k][2] = 0
        /\ sources' = After(S, steps, k - 1).sources
        /\ owing' = Owed(sources') \cup {steps[k][1]}
  BY Zenon DEF CombineThrows
<1>2. AtEnd(S, steps[k]) => \E D : Queried(S, After(S, steps, k - 1).sources, D, steps[k][1])
  BY QueryThrows
<1>3. AtEnd(S, steps[k])
  BY <1>1 DEF AtEnd
<1>. QED
  BY <1>1, <1>2, <1>3

\* It keeps the invariant: u, and all that is above it, is excused.
LEMMA CombineThrowsInv ==
  ASSUME ChainInv, NEW n \in 1..Len(sources), CombineThrows(n)
  PROVE  ChainInv'
<1>. DEFINE S == sources
            R == sources'
<1>1. WellFormed(S)
  BY DEF ChainInv
<1>2. PICK u, D : Queried(S, R, D, u) /\ owing' = Owed(R) \cup {u}
  BY <1>1, CombineThrowsAt
<1>. HIDE DEF R
<1>3. WellFormed(R) /\ SameShape(S, R) /\ Len(R) = Len(S)
  BY <1>2 DEF Queried, SameShape
<1>4. \A w \in owing : w # u /\ R[w] = S[w] => w \in owing'
  BY <1>2 DEF Owed
<1>5. ASSUME NEW m \in 1..Len(S)
      PROVE  Pending(R, m) \/ Settled(R, m) \/ Excused(R, owing', m)
  <2>1. CASE u \in Below(S, m)
    <3>1. Below(R, m) = Below(S, m)
      BY <1>1, <1>3, SameBelow
    <3>. QED
      BY <1>2, <2>1, <3>1 DEF Excused
  <2>2. CASE u \notin Below(S, m)
    BY <1>1, <1>2, <1>4, <2>2, QueryLeavesInv DEF ChainInv
  <2>. QED
    BY <2>1, <2>2
<1>. QED
  BY <1>3, <1>5 DEF ChainInv, R

-----------------------------------------------------------------------------
(* The other operations.                                                   *)

\* A source more, over those that there are.
Grown(S, S2, s) == /\ Len(S2) = Len(S) + 1
                   /\ S2[Len(S) + 1] = s
                   /\ \A m \in 1..Len(S) : S2[m] = S[m]
                   /\ S2 = [m \in 1..Len(S2) |-> S2[m]]

\* Append adds a source.
LEMMA AppendGrows ==
  ASSUME NEW S, Ordered(S), NEW s
  PROVE  Grown(S, Append(S, s), s)
<1>. DEFINE T == {S[m] : m \in 1..Len(S)} \cup {s}
            S2 == Append(S, s)
<1>1. Len(S) \in Nat /\ S = [m \in 1..Len(S) |-> S[m]]
  BY DEF Ordered
<1>2. S \in Seq(T)
  <2>1. S \in [1..Len(S) -> T]
    BY <1>1
  <2>. HIDE DEF T
  <2>. QED
    BY <1>1, <2>1
<1>. HIDE DEF T
<1>3. s \in T
  BY DEF T
<1>4. Len(S2) = Len(S) + 1 /\ S2[Len(S) + 1] = s /\ \A m \in 1..Len(S) : S2[m] = S[m]
  BY <1>1, <1>2, <1>3
<1>5. S2 \in Seq(T)
  BY <1>2, <1>3
<1>. HIDE DEF S2
<1>6. S2 = [m \in 1..Len(S2) |-> S2[m]]
  BY <1>5
<1>7. Grown(S, S2, s)
  BY <1>4, <1>6 DEF Grown
<1>. QED
  BY <1>7 DEF S2

\* The sources that there are do not notice a new one.
LEMMA GrownKeeps ==
  ASSUME NEW S, WellFormed(S), NEW S2, Ordered(S2), NEW s, Grown(S, S2, s), NEW m \in 1..Len(S)
  PROVE  /\ m \in 1..Len(S2) /\ S2[m] = S[m]
         /\ \A i \in DOMAIN S[m].inputs : S2[S[m].inputs[i]] = S[S[m].inputs[i]]
         /\ Below(S2, m) = Below(S, m)
         /\ Pending(S, m) => Pending(S2, m)
         /\ Settled(S, m) => Settled(S2, m)
<1>1. Len(S) \in Nat /\ Ordered(S) /\ Len(S2) = Len(S) + 1
  BY DEF WellFormed, Ordered, Grown
<1>2. \A l \in 1..Len(S) : l \in 1..Len(S2) /\ S2[l] = S[l]
  BY <1>1 DEF Grown
<1>3. \A l \in 1..m : l \in 1..Len(S)
  BY <1>1
<1>4. Below(S2, m) = Below(S, m) /\ Below(S, m) \subseteq 1..m
  BY <1>1, <1>2, <1>3, BelowSame, BelowEarlier
<1>5. \A l \in 1..m : \A i \in DOMAIN S[l].inputs : S2[S[l].inputs[i]] = S[S[l].inputs[i]]
  <2>1. \A l \in 1..m : \A i \in DOMAIN S[l].inputs : S[l].inputs[i] \in 1..(l - 1)
    BY <1>1, <1>3 DEF Ordered
  <2>2. \A l \in 1..m : \A k \in 1..(l - 1) : k \in 1..Len(S)
    BY <1>1
  <2>. QED
    BY <1>2, <2>1, <2>2
<1>6. \A l \in 1..m : Stale(S2, l) = Stale(S, l) /\ Settled(S2, l) = Settled(S, l)
  BY <1>2, <1>3, <1>5, Unaffected
<1>7. m \in 1..m
  BY <1>1
<1>. QED
  BY <1>2, <1>4, <1>5, <1>6, <1>7 DEF Pending

\* A view is made.
LEMMA AddViewInv ==
  ASSUME NEW sum \in Sums, NEW pending \in BOOLEAN, AddView(sum, pending), WellFormed(sources)
  PROVE  /\ Grown(sources, sources', NewView(sum, pending)) /\ WellFormed(sources')
         /\ Pending(sources', Len(sources) + 1) \/ Settled(sources', Len(sources) + 1)
<1>. DEFINE S == sources
            S2 == sources'
            n == Len(S) + 1
            s == NewView(sum, pending)
<1>1. Ordered(S) /\ Len(S) \in Nat
  BY DEF WellFormed, Ordered
<1>2. Grown(S, S2, s)
  BY <1>1, AppendGrows DEF AddView
<1>3. /\ s.inputs = << >> /\ s.world = sum /\ s.dirty = pending /\ s.value = 0 /\ s.version = 0
      /\ s = [inputs |-> << >>, world |-> sum, dirty |-> pending, value |-> 0, version |-> 0]
  BY DEF NewView
<1>. HIDE DEF s
<1>4. Ordered(S2)
  <2>1. S2[n] = s /\ DOMAIN s.inputs = {}
    BY <1>2, <1>3 DEF Grown
  <2>2. Len(S2) = n /\ n \in Nat /\ \A m \in 1..n : m \in 1..Len(S) \/ m = n
    BY <1>1, <1>2 DEF Grown
  <2>3. ASSUME NEW m \in 1..n, NEW i \in DOMAIN S2[m].inputs PROVE S2[m].inputs[i] \in 1..(m - 1)
    <3>1. m # n
      BY <2>1
    <3>2. m \in 1..Len(S) /\ S2[m] = S[m]
      BY <1>2, <2>2, <3>1 DEF Grown
    <3>. QED
      BY <1>1, <3>2 DEF Ordered
  <2>4. s.inputs \in Seq(Nat)
    BY <1>3
  <2>5. \A m \in 1..n : S2[m].inputs \in Seq(Nat)
    BY <1>1, <1>2, <2>1, <2>2, <2>4 DEF Ordered, Grown
  <2>. QED
    BY <1>2, <2>2, <2>3, <2>5 DEF Ordered, Grown
<1>5. \A m \in 1..Len(S2) : m \in 1..Len(S) \/ m = n
  BY <1>1, <1>2 DEF Grown
<1>6. ASSUME NEW m \in 1..Len(S2)
      PROVE  /\ S2[m].version \in Nat
             /\ IsView(S2[m]) => IsViewRecord(S2[m])
             /\ ~IsView(S2[m]) => IsDerivedRecord(S2, S2[m])
  <2>1. CASE m = n
    <3>1. S2[m] = s
      BY <1>2, <2>1 DEF Grown
    <3>. QED
      BY <1>3, <3>1 DEF IsView, IsViewRecord
  <2>2. CASE m \in 1..Len(S)
    <3>1. S2[m] = S[m] /\ \A i \in DOMAIN S[m].inputs : S2[S[m].inputs[i]] = S[S[m].inputs[i]]
      BY <1>2, <1>4, <2>2, GrownKeeps
    <3>. QED
      BY <2>2, <3>1 DEF WellFormed, IsDerivedRecord
  <2>. QED
    BY <1>5, <2>1, <2>2
<1>7. WellFormed(S2)
  BY <1>4, <1>6 DEF WellFormed
<1>8. Pending(S2, n) \/ Settled(S2, n)
  <2>1. S2[n] = s /\ n \in 1..Len(S2)
    BY <1>1, <1>2 DEF Grown
  <2>2. CASE pending
    <3>1. Stale(S2, n)
      BY <1>3, <2>1, <2>2 DEF Stale, IsView
    <3>. QED
      BY <1>7, <2>1, <3>1, PendingStep
  <2>3. CASE sum = 0
    BY <1>3, <2>1, <2>3 DEF Settled, IsView
  <2>. QED
    BY <2>2, <2>3 DEF AddView
<1>. QED
  BY <1>2, <1>7, <1>8 DEF s

\* A derived view is made: something below it is pending when the source that
\* will make it recompute has events to work off.
LEMMA AddDerivedInv ==
  ASSUME NEW inputs \in Inputs, AddDerived(inputs), WellFormed(sources)
  PROVE  /\ Grown(sources, sources', NewDerived(inputs, sources)) /\ WellFormed(sources')
         /\ Growing(inputs) => Pending(sources', Len(sources) + 1)
<1>. DEFINE S == sources
            S2 == sources'
            n == Len(S) + 1
            s == NewDerived(inputs, S)
            last == Versions(inputs, S)
<1>1. Ordered(S) /\ Len(S) \in Nat /\ DOMAIN S = 1..Len(S)
  BY DEF WellFormed, Ordered
<1>2. Grown(S, S2, s)
  BY <1>1, AppendGrows DEF AddDerived
<1>3. PICK k \in 1..MaxInputs : inputs \in [1..k -> 1..Len(S)]
  BY <1>1 DEF Inputs
<1>4. inputs # << >> /\ \A i \in DOMAIN inputs : inputs[i] \in 1..Len(S)
  <2>1. k \in Nat /\ 1 \in 1..k
    BY ChainAssumption
  <2>. QED
    BY <1>3, <2>1
<1>5. /\ s.inputs = inputs /\ s.last_versions = last /\ s.version = 0
      /\ s = [inputs |-> inputs, last_versions |-> last, value |-> 0, version |-> 0]
  BY DEF NewDerived
<1>. HIDE DEF s
<1>6. Len(S2) = n /\ n \in Nat /\ n \in 1..n /\ n - 1 = Len(S) /\ S2[n] = s
      /\ \A m \in 1..n : m \in 1..Len(S) \/ m = n
  BY <1>1, <1>2 DEF Grown
<1>7. Ordered(S2)
  <2>3. ASSUME NEW m \in 1..n, NEW i \in DOMAIN S2[m].inputs PROVE S2[m].inputs[i] \in 1..(m - 1)
    <3>1. CASE m = n
      BY <1>4, <1>5, <1>6, <3>1
    <3>2. CASE m \in 1..Len(S)
      <4>1. S2[m] = S[m]
        BY <1>2, <3>2 DEF Grown
      <4>. QED
        BY <1>1, <3>2, <4>1 DEF Ordered
    <3>. QED
      BY <1>6, <3>1, <3>2
  <2>4. inputs \in Seq(Nat)
    <3>1. inputs \in [1..k -> Nat] /\ k \in Nat
      BY <1>1, <1>3
    <3>. QED
      BY <3>1
  <2>5. \A m \in 1..n : S2[m].inputs \in Seq(Nat)
    BY <1>1, <1>2, <1>5, <1>6, <2>4 DEF Ordered, Grown
  <2>. QED
    BY <1>2, <1>6, <2>3, <2>5 DEF Ordered, Grown
<1>8. /\ last = [i \in DOMAIN inputs |-> last[i]]
      /\ \A i \in DOMAIN inputs : last[i] = S[inputs[i]].version
  BY DEF Versions
<1>. HIDE DEF last
<1>9. ~IsView(s) /\ IsDerivedRecord(S2, s)
  <2>1. ASSUME NEW i \in DOMAIN inputs PROVE last[i] \in Nat /\ last[i] <= S2[inputs[i]].version
    <3>1. inputs[i] \in 1..Len(S) /\ S2[inputs[i]] = S[inputs[i]]
      BY <1>2, <1>4 DEF Grown
    <3>2. S[inputs[i]].version \in Nat
      BY <3>1 DEF WellFormed
    <3>. QED
      BY <1>8, <3>1, <3>2
  <2>. QED
    BY <1>4, <1>5, <1>8, <2>1 DEF IsView, IsDerivedRecord
<1>10. ASSUME NEW m \in 1..Len(S2)
       PROVE  /\ S2[m].version \in Nat
              /\ IsView(S2[m]) => IsViewRecord(S2[m])
              /\ ~IsView(S2[m]) => IsDerivedRecord(S2, S2[m])
  <2>1. CASE m = n
    BY <1>5, <1>6, <1>9, <2>1
  <2>2. CASE m \in 1..Len(S)
    <3>1. S2[m] = S[m] /\ \A i \in DOMAIN S[m].inputs : S2[S[m].inputs[i]] = S[S[m].inputs[i]]
      BY <1>2, <1>7, <2>2, GrownKeeps
    <3>. QED
      BY <2>2, <3>1 DEF WellFormed, IsDerivedRecord
  <2>. QED
    BY <1>6, <2>1, <2>2
<1>11. WellFormed(S2)
  BY <1>7, <1>10 DEF WellFormed
<1>12. ASSUME Growing(inputs) PROVE Pending(S2, n)
  <2>1. PICK i \in DOMAIN inputs : \E m \in Below(S, inputs[i]) : IsView(S[m]) /\ S[m].dirty
    BY <1>12 DEF Growing
  <2>2. Pending(S, inputs[i])
    BY <2>1 DEF Pending, Stale
  <2>3. Pending(S2, inputs[i])
    BY <1>2, <1>4, <1>7, <2>2, GrownKeeps
  <2>4. n \in 1..Len(S2) /\ S2[n].inputs = inputs
    BY <1>5, <1>6
  <2>. QED
    BY <1>11, <2>3, <2>4, PendingStep
<1>. QED
  BY <1>2, <1>11, <1>12 DEF s

\* A write to a table that has a view.
LEMMA WriteInv ==
  ASSUME NEW n \in 1..Len(sources), NEW sum \in Sums, Write(n, sum), WellFormed(sources)
  PROVE  /\ WellFormed(sources') /\ Len(sources') = Len(sources)
         /\ \A m \in 1..Len(sources) :
              /\ Below(sources', m) = Below(sources, m)
              /\ Pending(sources, m) \/ Settled(sources, m) =>
                   Pending(sources', m) \/ Settled(sources', m)
<1>. DEFINE S == sources
            R == sources'
            new == [inputs |-> S[n].inputs, world |-> sum, dirty |-> TRUE,
                    value |-> S[n].value, version |-> S[n].version]
<1>1. /\ Ordered(S) /\ Len(S) \in Nat /\ IsView(S[n]) /\ IsViewRecord(S[n])
      /\ S = [l \in 1..Len(S) |-> S[l]]
  BY DEF WellFormed, Ordered, Write
<1>2. R = [S EXCEPT ![n].world = sum, ![n].dirty = TRUE]
  BY DEF Write
<1>3. R[n] = new
  BY <1>1, <1>2 DEF IsViewRecord
<1>4. R = [l \in 1..Len(S) |-> R[l]] /\ \A l \in 1..Len(S) : l # n => R[l] = S[l]
  BY <1>1, <1>2
<1>5. Len(R) = Len(S)
  BY <1>1, <1>2
<1>6. \A l \in 1..Len(S) : R[l].inputs = S[l].inputs /\ R[l].version = S[l].version
                           /\ R[l].value = S[l].value
  BY <1>3, <1>4
<1>7. IsView(R[n]) /\ IsViewRecord(R[n]) /\ R[n].dirty
  BY <1>1, <1>3 DEF IsView, IsViewRecord
<1>. HIDE DEF new
<1>8. Ordered(R)
  BY <1>1, <1>4, <1>5, <1>6 DEF Ordered
<1>9. ASSUME NEW l \in 1..Len(S), l # n
      PROVE  /\ ~IsView(S[l]) => IsDerivedRecord(R, R[l])
             /\ Stale(R, l) = Stale(S, l) /\ Settled(R, l) = Settled(S, l)
  <2>1. R[l] = S[l]
    BY <1>4, <1>9
  <2>2. \A i \in DOMAIN S[l].inputs : S[l].inputs[i] \in 1..Len(S)
    <3>1. \A i \in DOMAIN S[l].inputs : S[l].inputs[i] \in 1..(l - 1)
      BY <1>1 DEF Ordered
    <3>. QED
      BY <1>1, <3>1
  <2>3. Versions(R[l].inputs, R) = Versions(S[l].inputs, S)
    BY <1>6, <2>1, <2>2 DEF Versions
  <2>4. [i \in DOMAIN R[l].inputs |-> R[R[l].inputs[i]].value] =
          [i \in DOMAIN S[l].inputs |-> S[S[l].inputs[i]].value]
    BY <1>6, <2>1, <2>2
  <2>5. Stale(R, l) = Stale(S, l) /\ Settled(R, l) = Settled(S, l)
    BY <2>1, <2>3, <2>4, Zenon DEF Stale, Settled
  <2>6. \A i \in DOMAIN S[l].inputs : R[S[l].inputs[i]].version = S[S[l].inputs[i]].version
    BY <1>6, <2>2
  <2>7. ~IsView(S[l]) => IsDerivedRecord(S, S[l])
    BY DEF WellFormed
  <2>. QED
    BY <2>1, <2>5, <2>6, <2>7 DEF IsDerivedRecord
<1>10. WellFormed(R)
  <2>1. ASSUME NEW l \in 1..Len(S)
        PROVE  /\ R[l].version \in Nat
               /\ IsView(R[l]) => IsViewRecord(R[l])
               /\ ~IsView(R[l]) => IsDerivedRecord(R, R[l])
    <3>1. CASE l = n
      BY <1>6, <1>7, <3>1 DEF WellFormed
    <3>2. CASE l # n
      <4>1. R[l] = S[l]
        BY <1>4, <3>2
      <4>. QED
        BY <1>9, <3>2, <4>1 DEF WellFormed
    <3>. QED
      BY <3>1, <3>2
  <2>. QED
    BY <1>5, <1>8, <2>1 DEF WellFormed
<1>11. Stale(R, n)
  BY <1>7 DEF Stale
<1>12. ASSUME NEW m \in 1..Len(S)
       PROVE  /\ Below(R, m) = Below(S, m)
              /\ Pending(S, m) \/ Settled(S, m) => Pending(R, m) \/ Settled(R, m)
  <2>1. Below(S, m) \subseteq 1..Len(S) /\ Below(R, m) = Below(S, m)
    <3>1. Below(S, m) \subseteq 1..m /\ \A l \in 1..m : l \in 1..Len(S)
      BY <1>1, BelowEarlier
    <3>2. m \in 1..Len(R) /\ \A l \in 1..m : R[l].inputs = S[l].inputs
      BY <1>5, <1>6, <3>1
    <3>. QED
      BY <1>1, <1>8, <3>1, <3>2, BelowSame
  <2>2. CASE Pending(S, m)
    <3>1. \A u \in Below(S, m) : Stale(S, u) => Stale(R, u)
      BY <1>9, <1>11, <2>1
    <3>. QED
      BY <2>1, <2>2, <3>1 DEF Pending
  <2>3. CASE Settled(S, m) /\ m # n
    BY <1>9, <2>1, <2>3
  <2>4. CASE m = n
    BY <1>5, <1>10, <1>11, <2>1, <2>4, PendingStep
  <2>. QED
    BY <2>1, <2>2, <2>3, <2>4
<1>. QED
  BY <1>5, <1>10, <1>12

\* What holds of the sources whatever the derived views owe.
SourcesInv == WellFormed(sources)

\* Every step keeps the sources well formed.
LEMMA SourcesInvariant == Spec => []SourcesInv
<1>1. Init => SourcesInv
  BY DEF Init, SourcesInv, WellFormed, Ordered
<1>2. SourcesInv /\ [Next]_vars => SourcesInv'
  <2>. SUFFICES ASSUME WellFormed(sources), [Next]_vars PROVE WellFormed(sources')
    BY DEF SourcesInv
  <2>1. DOMAIN sources = 1..Len(sources)
    BY DEF WellFormed, Ordered
  <2>2. CASE \E sum \in Sums, pending \in BOOLEAN : AddView(sum, pending)
    BY <2>2, AddViewInv
  <2>3. CASE \E inputs \in Inputs : AddDerived(inputs)
    BY <2>3, AddDerivedInv
  <2>4. ASSUME NEW n \in DOMAIN sources, Query(n) PROVE WellFormed(sources')
    BY <2>1, <2>4, QueryReturns DEF Query, Queried
  <2>5. ASSUME NEW n \in DOMAIN sources, RefreshThrows(n) PROVE WellFormed(sources')
    BY <2>1, <2>5, RefreshThrowsAt, CountedPages DEF Queried
  <2>6. ASSUME NEW n \in DOMAIN sources, CombineThrows(n) PROVE WellFormed(sources')
    BY <2>1, <2>6, CombineThrowsAt DEF Queried
  <2>7. CASE \E n \in DOMAIN sources : \E sum \in Sums : Write(n, sum)
    BY <2>1, <2>7, WriteInv
  <2>8. CASE UNCHANGED vars
    BY <2>8 DEF vars
  <2>. QED
    BY <2>2, <2>3, <2>4, <2>5, <2>6, <2>7, <2>8 DEF Next
<1>. QED
  BY <1>1, <1>2, PTL DEF Spec

\* A new source keeps the invariant when it is pending, settled or excused itself.
LEMMA GrownInv ==
  ASSUME ChainInv, NEW s, Grown(sources, sources', s), WellFormed(sources'),
         owing \subseteq owing',
         LET n == Len(sources) + 1
         IN  Pending(sources', n) \/ Settled(sources', n) \/ n \in owing'
  PROVE  ChainInv'
<1>. DEFINE n == Len(sources) + 1
<1>1. Ordered(sources') /\ Len(sources) \in Nat /\ Len(sources') = n
  BY DEF ChainInv, WellFormed, Ordered, Grown
<1>2. \A m \in 1..Len(sources') : m \in 1..Len(sources) \/ m = n
  BY <1>1
<1>3. ASSUME NEW m \in 1..Len(sources)
      PROVE  Pending(sources', m) \/ Settled(sources', m) \/ Excused(sources', owing', m)
  <2>1. /\ Below(sources', m) = Below(sources, m)
        /\ Pending(sources, m) => Pending(sources', m)
        /\ Settled(sources, m) => Settled(sources', m)
    BY <1>1, GrownKeeps DEF ChainInv
  <2>2. Excused(sources, owing, m) => Excused(sources', owing', m)
    BY <2>1 DEF Excused
  <2>. QED
    BY <2>1, <2>2 DEF ChainInv
<1>4. n \in owing' => Excused(sources', owing', n)
  <2>1. n \in Below(sources', n)
    BY <1>1, BelowEarlier
  <2>. QED
    BY <2>1 DEF Excused
<1>. QED
  BY <1>2, <1>3, <1>4 DEF ChainInv

\* A source that is not settled is always pending or excused.
LEMMA ChainInvariant == Spec => []ChainInv
<1>1. Init => ChainInv
  BY DEF Init, ChainInv, WellFormed, Ordered
<1>2. ChainInv /\ [Next]_vars => ChainInv'
  <2>. SUFFICES ASSUME ChainInv, [Next]_vars PROVE ChainInv'
    OBVIOUS
  <2>1. WellFormed(sources) /\ DOMAIN sources = 1..Len(sources)
    BY DEF ChainInv, WellFormed, Ordered
  <2>2. ASSUME NEW sum \in Sums, NEW pending \in BOOLEAN, AddView(sum, pending) PROVE ChainInv'
    <3>1. owing' = owing
      BY <2>2 DEF AddView
    <3>. QED
      BY <2>1, <2>2, <3>1, AddViewInv, GrownInv
  <2>3. ASSUME NEW inputs \in Inputs, AddDerived(inputs) PROVE ChainInv'
    <3>1. owing \subseteq owing' /\ (Growing(inputs) \/ Len(sources) + 1 \in owing')
      BY <2>3 DEF AddDerived
    <3>. QED
      BY <2>1, <2>3, <3>1, AddDerivedInv, GrownInv
  <2>4. ASSUME NEW n \in DOMAIN sources, Query(n) PROVE ChainInv'
    BY <2>1, <2>4, QueryInv
  <2>5. ASSUME NEW n \in DOMAIN sources, NEW sum \in Sums, Write(n, sum) PROVE ChainInv'
    <3>1. /\ WellFormed(sources') /\ Len(sources') = Len(sources)
          /\ \A m \in 1..Len(sources) :
               /\ Below(sources', m) = Below(sources, m)
               /\ Pending(sources, m) \/ Settled(sources, m) =>
                    Pending(sources', m) \/ Settled(sources', m)
      BY <2>1, <2>5, WriteInv
    <3>2. owing' = owing
      BY <2>5 DEF Write
    <3>3. \A m \in 1..Len(sources) : Excused(sources, owing, m) => Excused(sources', owing', m)
      BY <3>1, <3>2 DEF Excused
    <3>. QED
      BY <3>1, <3>3 DEF ChainInv
  <2>6. ASSUME NEW n \in DOMAIN sources, RefreshThrows(n) PROVE ChainInv'
    BY <2>1, <2>6, RefreshThrowsInv
  <2>7. ASSUME NEW n \in DOMAIN sources, CombineThrows(n) PROVE ChainInv'
    BY <2>1, <2>7, CombineThrowsInv
  <2>8. CASE UNCHANGED vars
    BY <2>8 DEF ChainInv, vars
  <2>. QED
    BY <2>2, <2>3, <2>4, <2>5, <2>6, <2>7, <2>8 DEF Next
<1>. QED
  BY <1>1, <1>2, PTL DEF Spec

-----------------------------------------------------------------------------
(* The theorems.                                                           *)

\* "Materialize if dirty and return the current value" (view.hpp:28): a query of
\* any source answers with the value computed afresh from the tables, whatever
\* the graph of the inputs is, whatever the function that combines values, and
\* whatever threw before, unless a derived view below owes a computation (it was
\* made when nothing was pending, or its function threw) and still does after
\* the query.
THEOREM AnswersCorrect == Spec => []AnswersTruth
<1>1. ChainInv => AnswersTruth
  <2>. SUFFICES ASSUME ChainInv, NEW n \in DOMAIN sources,
                       Below(sources, n) \cap Owed(Materialized(sources, n)) = {}
                PROVE  Materialized(sources, n)[n].value = Truth(n)
    BY DEF AnswersTruth
  <2>. DEFINE S == sources
              R == Materialized(S, n)
              T == {m \in Nat : m \in Below(S, n) => R[m].value = Truth(m)}
  <2>1. WellFormed(S) /\ Ordered(S) /\ n \in 1..Len(S) /\ Len(S) \in Nat
    BY DEF ChainInv, WellFormed, Ordered
  <2>2. Queried(S, R, Below(S, n), 0)
    BY <2>1, QueryReturns
  <2>3. Below(S, n) \cap Owed(R) = {}
    OBVIOUS
  <2>. HIDE DEF R
  <2>4. SameShape(S, R) /\ Done(S, R, Below(S, n))
    BY <2>2 DEF Queried
  <2>5. ASSUME NEW m \in Below(S, n) PROVE Pending(S, m) \/ Settled(S, m)
    <3>1. m \in 1..Len(S) /\ Below(S, m) \subseteq Below(S, n) /\ 0 \notin Below(S, m)
      <4>1. m \in 1..Len(S) /\ Below(S, m) \subseteq Below(S, n)
        BY <2>1, BelowMore
      <4>. QED
        BY <2>1, <4>1, BelowEarlier
    <3>2. ASSUME ~Pending(S, m), Excused(S, owing, m) PROVE FALSE
      <4>1. PICK w \in Below(S, m) : w \in owing
        BY <3>2 DEF Excused
      <4>2. R[w] = S[w]
        BY <2>1, <2>2, <3>1, <3>2, StillExcused
      <4>. QED
        BY <2>3, <3>1, <4>1, <4>2 DEF Owed
    <3>. QED
      BY <3>1, <3>2 DEF ChainInv
  <2>6. ASSUME NEW m \in 1..Len(S), \A l \in 1..(m - 1) : l \in T PROVE m \in T
    <3>. SUFFICES ASSUME m \in Below(S, n) PROVE R[m].value = Truth(m)
      BY <2>1
    <3>1. Settled(R, m)
      BY <2>1, <2>4, <2>5, SettledAfter
    <3>2. R[m].inputs = S[m].inputs /\ (IsView(S[m]) => R[m].world = S[m].world)
      BY <2>4 DEF SameShape
    <3>3. ASSUME NEW i \in DOMAIN S[m].inputs
          PROVE  R[S[m].inputs[i]].value = Truth(S[m].inputs[i])
      <4>1. S[m].inputs[i] \in 1..(m - 1) /\ S[m].inputs[i] \in Below(S, n)
        BY <2>1, BelowClosed DEF Ordered
      <4>. QED
        BY <2>6, <4>1
    <3>4. [i \in DOMAIN R[m].inputs |-> R[R[m].inputs[i]].value] =
            [i \in DOMAIN S[m].inputs |-> Truth(S[m].inputs[i])]
      BY <3>2, <3>3
    <3>5. Truth(m) = IF IsView(S[m]) THEN S[m].world
                     ELSE Combine([i \in DOMAIN S[m].inputs |-> Truth(S[m].inputs[i])])
      BY <2>1, TruthStep
    <3>. QED
      BY <3>1, <3>2, <3>4, <3>5, Zenon DEF Settled, IsView
  <2>7. n \in T
    <3>. HIDE DEF T
    <3>. QED
      BY <2>1, <2>6, StrongInduction
  <2>8. n \in Below(S, n)
    BY <2>1, BelowEarlier
  <2>. QED
    BY <2>7, <2>8 DEF R
<1>. QED
  BY <1>1, ChainInvariant, PTL

\* "No recompute when nothing grew" (spec S6.3): a query that follows another
\* one of the same source changes nothing in any source, whenever the derived
\* views were made and whatever threw before.
THEOREM SecondQueryCorrect == Spec => []SecondQueryIdle
<1>1. SourcesInv => SecondQueryIdle
  <2>. SUFFICES ASSUME WellFormed(sources), NEW n \in DOMAIN sources
                PROVE  Materialized(Materialized(sources, n), n) = Materialized(sources, n)
    BY DEF SecondQueryIdle, SourcesInv
  <2>. DEFINE S == sources
              R == Materialized(S, n)
              R2 == Materialized(R, n)
  <2>1. Ordered(S) /\ n \in 1..Len(S) /\ Len(S) \in Nat
    BY DEF WellFormed, Ordered
  <2>2. WellFormed(R) /\ SameShape(S, R) /\ Done(S, R, Below(S, n))
    BY <2>1, QueryReturns DEF Queried
  <2>. HIDE DEF R
  <2>3. Ordered(R) /\ Len(R) = Len(S) /\ R = [m \in 1..Len(R) |-> R[m]]
    BY <2>2 DEF SameShape, WellFormed, Ordered
  <2>4. Below(R, n) = Below(S, n)
    <3>1. \A l \in 1..n : l \in 1..Len(S)
      BY <2>1
    <3>2. \A l \in 1..n : R[l].inputs = S[l].inputs
      BY <2>2, <3>1 DEF SameShape
    <3>. QED
      BY <2>1, <2>3, <3>2, BelowSame
  <2>5. \A m \in Below(R, n) : ~Pending(R, m)
    <3>1. \A u \in Below(S, n) : ~Stale(R, u)
      BY <2>2 DEF Done, Turned
    <3>2. \A m \in Below(R, n) : Below(R, m) \subseteq Below(R, n)
      <4>. SUFFICES ASSUME NEW m \in Below(R, n) PROVE Below(R, m) \subseteq Below(R, n)
        OBVIOUS
      <4>1. Done(S, R, Below(S, n)) /\ m \in Below(S, n)
        BY <2>2, <2>4
      <4>2. Below(S, m) \subseteq Below(S, n) /\ m \in 1..Len(S)
        BY <2>1, <4>1, DoneBelow DEF Done
      <4>3. Below(R, m) = Below(S, m)
        <5>1. \A l \in 1..m : l \in 1..Len(S)
          BY <2>1, <4>2
        <5>2. \A l \in 1..m : R[l].inputs = S[l].inputs
          BY <2>2, <5>1 DEF SameShape
        <5>. QED
          BY <2>1, <2>3, <4>2, <5>2, BelowSame
      <4>. QED
        BY <2>4, <4>2, <4>3
    <3>. QED
      BY <2>4, <3>1, <3>2 DEF Pending
  <2>6. /\ WellFormed(R2) /\ SameShape(R, R2) /\ Done(R, R2, Below(R, n))
        /\ \A l \in 1..Len(R) : l \notin Below(R, n) => R2[l] = R[l]
    BY <2>1, <2>2, <2>3, QueryReturns DEF Queried
  <2>. HIDE DEF R2
  <2>7. \A l \in 1..Len(R) : R2[l] = R[l]
    BY <2>5, <2>6 DEF Done, Turned
  <2>8. Len(R2) = Len(R) /\ R2 = [m \in 1..Len(R2) |-> R2[m]]
    BY <2>6 DEF SameShape, WellFormed, Ordered
  <2>9. R2 = R
    BY <2>3, <2>7, <2>8
  <2>. QED
    BY <2>9 DEF R, R2
<1>. QED
  BY <1>1, SourcesInvariant, PTL

\* "Touches only the path" (test_chain.cpp:8): though the recursion comes by a
\* source once for every path that leads there, a query recomputes none more
\* than once, and it leaves alone what the queried source does not depend on,
\* whenever the derived views were made and whatever threw before.
THEOREM PathCorrect == Spec => []QueryTouchesPathOnly
<1>1. SourcesInv => QueryTouchesPathOnly
  <2>. SUFFICES ASSUME WellFormed(sources), NEW n \in DOMAIN sources, NEW m \in DOMAIN sources
                PROVE  LET R == Materialized(sources, n)
                       IN  IF m \in Below(sources, n)
                           THEN R[m].version \in sources[m].version .. sources[m].version + 1
                           ELSE R[m] = sources[m]
    BY DEF QueryTouchesPathOnly, SourcesInv
  <2>. DEFINE S == sources
              R == Materialized(S, n)
  <2>1. n \in 1..Len(S) /\ m \in 1..Len(S) /\ S[m].version \in Nat
    BY DEF WellFormed, Ordered
  <2>2. Done(S, R, Below(S, n)) /\ (m \notin Below(S, n) => R[m] = S[m])
    BY <2>1, QueryReturns DEF Queried
  <2>. HIDE DEF R
  <2>3. CASE m \in Below(S, n)
    <3>. DEFINE before == S[m].version
    <3>1. R[m].version = before \/ R[m].version = before + 1
      BY <2>2, <2>3 DEF Done, Turned
    <3>2. before \in Nat
      BY <2>1
    <3>. HIDE DEF before
    <3>3. R[m].version \in before .. before + 1
      BY <3>1, <3>2
    <3>. QED
      BY <2>3, <3>3 DEF before, R
  <2>4. CASE m \notin Below(S, n)
    BY <2>2, <2>4 DEF R
  <2>. QED
    BY <2>3, <2>4
<1>. QED
  BY <1>1, SourcesInvariant, PTL
=============================================================================
