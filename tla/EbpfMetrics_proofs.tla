-------------------------- MODULE EbpfMetrics_proofs --------------------------
(***************************************************************************)
(* Proofs about EbpfMetrics, for any CPUs, any UEs, any size of the map and *)
(* any number of packets: first what is needed of sums, which come down to *)
(* cardinalities; then Inductive, step by step.                            *)
(*                                                                         *)
(* Then about Window, for any UEs, packets and lengths of them, and with   *)
(* the same sums: what a poll makes of the counters, averages that are     *)
(* rounded, and WindowInductive.  A name of Window that EbpfMetrics has as *)
(* well begins with Window there.                                          *)
(***************************************************************************)
EXTENDS EbpfMetrics, Window, FiniteSetTheorems, TLAPS

\* Induction over the subsets of a finite set, for a set of them: G holds
\* every subset when it holds the empty one, and any that it holds without
\* one of its elements.
LEMMA SubsetInduction ==
  ASSUME NEW S, IsFiniteSet(S), NEW G, {} \in G,
         \A T \in SUBSET S : T # {} /\ (\A x \in T : T \ {x} \in G) => T \in G
  PROVE  SUBSET S \subseteq G
<1> DEFINE Bad == {T \in SUBSET S : T \notin G}
<1> SUFFICES ASSUME Bad # {}
             PROVE  FALSE
  OBVIOUS
<1>1. IsWellFoundedOn(StrictSubsetOrdering(S), FiniteSubsetsOf(S))
  BY FS_StrictSubsetOrderingWellFounded
<1>2. Bad \subseteq FiniteSubsetsOf(S)
  BY FS_Subset DEF FiniteSubsetsOf
<1> HIDE DEF Bad
<1>3. PICK T \in Bad : \A U \in Bad : ~ (<<U, T>> \in StrictSubsetOrdering(S))
  BY <1>1, <1>2, WFMin
<1> USE DEF Bad
<1>4. ASSUME NEW x \in T
      PROVE  T \ {x} \in G
  <2>1. <<T \ {x}, T>> \in StrictSubsetOrdering(S)
    BY DEF StrictSubsetOrdering
  <2> QED
    BY <1>3, <2>1
<1> QED
  BY <1>3, <1>4

\* What a sum of numbers counts.
Units(f, T) == {p \in T \X Nat : p[2] < f[p[1]]}

\* One more element adds its number.
LEMMA UnitsStep ==
  ASSUME NEW S, NEW f \in [S -> Nat], NEW T \in SUBSET S, NEW x \in T,
         IsFiniteSet(Units(f, T \ {x}))
  PROVE  /\ IsFiniteSet(Units(f, T))
         /\ Cardinality(Units(f, T)) = f[x] + Cardinality(Units(f, T \ {x}))
<1> DEFINE C == {x} \X (0..(f[x] - 1))
<1>1. f[x] \in Nat
  OBVIOUS
<1>2. IsFiniteSet(0..(f[x] - 1)) /\ Cardinality(0..(f[x] - 1)) = f[x]
  BY <1>1, FS_Interval
<1>3. IsFiniteSet({x}) /\ Cardinality({x}) = 1
  BY FS_Singleton
<1>4. IsFiniteSet(C) /\ Cardinality(C) = f[x]
  <2>1. IsFiniteSet(C) /\ Cardinality(C) = Cardinality({x}) * Cardinality(0..(f[x] - 1))
    BY <1>2, <1>3, FS_Product
  <2>2. 1 * f[x] = f[x]
    BY <1>1
  <2> QED
    BY <1>2, <1>3, <2>1, <2>2
<1>5. Units(f, T) = Units(f, T \ {x}) \cup C
  BY <1>1 DEF Units
<1>6. Units(f, T \ {x}) \cap C = {}
  BY DEF Units
<1>7. Cardinality({}) = 0
  BY FS_EmptySet
<1>8. Cardinality(Units(f, T \ {x})) \in Nat
  BY FS_CardinalityType
<1> HIDE DEF C
<1> QED
  <2>1. /\ IsFiniteSet(Units(f, T))
        /\ Cardinality(Units(f, T)) = Cardinality(Units(f, T \ {x})) + Cardinality(C)
                                        - Cardinality(Units(f, T \ {x}) \cap C)
    BY <1>4, <1>5, FS_Union
  <2>2. Cardinality(Units(f, T \ {x}) \cap C) = 0
    BY <1>6, <1>7
  <2> QED
    BY <1>1, <1>4, <1>8, <2>1, <2>2

\* The units are a finite set.
LEMMA UnitsFinite ==
  ASSUME NEW S, IsFiniteSet(S), NEW f \in [S -> Nat]
  PROVE  \A T \in SUBSET S : IsFiniteSet(Units(f, T))
<1> DEFINE G == {T \in SUBSET S : IsFiniteSet(Units(f, T))}
<1>1. {} \in G
  <2>1. Units(f, {}) = {}
    BY DEF Units
  <2> QED
    BY <2>1, FS_EmptySet
<1>2. \A T \in SUBSET S : T # {} /\ (\A x \in T : T \ {x} \in G) => T \in G
  BY UnitsStep
<1> HIDE DEF G
<1>3. SUBSET S \subseteq G
  BY <1>1, <1>2, SubsetInduction
<1> QED
  BY <1>3 DEF G

\* The recursion of MapThenSumSet.
SumStep(h, f, S) ==
  [s \in SUBSET S |-> IF s = {} THEN 0
                      ELSE LET x == CHOOSE x \in s : TRUE IN f[x] + h[s \ {x}]]

\* A sum over a finite set is the number of its units.
LEMMA SumIsCardinality ==
  ASSUME NEW S, IsFiniteSet(S), NEW f \in [S -> Nat]
  PROVE  MapThenSumSet(LAMBDA u : f[u], S) = Cardinality(Units(f, S))
<1> DEFINE h == [s \in SUBSET S |-> Cardinality(Units(f, s))]
           g == CHOOSE k : k = SumStep(k, f, S)
           first(s) == CHOOSE x \in s : TRUE
<1>0. Units(f, {}) = {} /\ Cardinality({}) = 0
  BY FS_EmptySet DEF Units
<1>1. h = SumStep(h, f, S)
  <2>1. ASSUME NEW s \in SUBSET S, s # {}
        PROVE  h[s] = f[first(s)] + h[s \ {first(s)}]
    <3>1. first(s) \in s
      BY <2>1
    <3> HIDE DEF first
    <3>2. s \ {first(s)} \in SUBSET S
      OBVIOUS
    <3> QED
      BY <3>1, <3>2, UnitsStep, UnitsFinite
  <2>2. h[{}] = 0
    BY <1>0
  <2> QED
    BY <2>1, <2>2 DEF SumStep
<1>2. g = SumStep(g, f, S)
  BY <1>1
<1>3. MapThenSumSet(LAMBDA u : f[u], S) = g[S]
  BY DEF MapThenSumSet, MapThenFoldSet, SumStep
<1>4. g[S] = h[S]
  <2> DEFINE G == {T \in SUBSET S : g[T] = h[T]}
  <2> HIDE DEF g
  <2>1. {} \in G
    BY <1>0, <1>2 DEF SumStep
  <2>2. ASSUME NEW T \in SUBSET S, T # {}, \A x \in T : T \ {x} \in G
        PROVE  T \in G
    <3>1. first(T) \in T
      BY <2>2
    <3>2. g[T] = f[first(T)] + g[T \ {first(T)}] /\ h[T] = f[first(T)] + h[T \ {first(T)}]
      BY <1>1, <1>2, <2>2 DEF SumStep
    <3> HIDE DEF first, h
    <3>3. g[T \ {first(T)}] = h[T \ {first(T)}]
      BY <2>2, <3>1
    <3> QED
      BY <3>2, <3>3
  <2> HIDE DEF G
  <2>3. SUBSET S \subseteq G
    BY <2>1, <2>2, SubsetInduction
  <2> QED
    BY <2>3 DEF G
<1> QED
  BY <1>3, <1>4

(***************************************************************************)
(* Totals over the UEs.                                                    *)
(***************************************************************************)
\* A total is a number, and no smaller when no summand is.
LEMMA TotalMonotone ==
  ASSUME NEW f \in [Ues -> Nat], NEW g \in [Ues -> Nat], \A u \in Ues : f[u] <= g[u]
  PROVE  Total(f) \in Nat /\ Total(g) \in Nat /\ Total(f) <= Total(g)
<1>1. IsFiniteSet(Ues)
  BY MetricsAssumption
<1>2. Total(f) = Cardinality(Units(f, Ues)) /\ Total(g) = Cardinality(Units(g, Ues))
  BY <1>1, SumIsCardinality DEF Total
<1>3. IsFiniteSet(Units(f, Ues)) /\ IsFiniteSet(Units(g, Ues))
  BY <1>1, UnitsFinite
<1>4. Units(f, Ues) \subseteq Units(g, Ues)
  <2> SUFFICES ASSUME NEW p \in Ues \X Nat, p[2] < f[p[1]]
               PROVE  p[2] < g[p[1]]
    BY DEF Units
  <2>1. f[p[1]] \in Nat /\ g[p[1]] \in Nat /\ f[p[1]] <= g[p[1]] /\ p[2] \in Nat
    OBVIOUS
  <2> QED
    BY <2>1
<1> QED
  BY <1>2, <1>3, <1>4, FS_Subset, FS_CardinalityType

LEMMA TotalType ==
  ASSUME NEW f \in [Ues -> Nat]
  PROVE  Total(f) \in Nat
<1>1. \A u \in Ues : f[u] <= f[u]
  OBVIOUS
<1> QED
  BY <1>1, TotalMonotone

\* Changing one summand changes the total by as much.
LEMMA TotalChange ==
  ASSUME NEW f \in [Ues -> Nat], NEW g \in [Ues -> Nat], NEW x \in Ues,
         \A u \in Ues \ {x} : f[u] = g[u]
  PROVE  Total(g) + f[x] = Total(f) + g[x]
<1>1. IsFiniteSet(Ues)
  BY MetricsAssumption
<1>2. Total(f) = Cardinality(Units(f, Ues)) /\ Total(g) = Cardinality(Units(g, Ues))
  BY <1>1, SumIsCardinality DEF Total
<1>3. IsFiniteSet(Units(f, Ues \ {x})) /\ IsFiniteSet(Units(g, Ues \ {x}))
  BY <1>1, UnitsFinite
<1>4. Units(f, Ues \ {x}) = Units(g, Ues \ {x})
  BY DEF Units
<1>5. Cardinality(Units(f, Ues)) = f[x] + Cardinality(Units(f, Ues \ {x}))
  BY <1>3, UnitsStep
<1>6. Cardinality(Units(g, Ues)) = g[x] + Cardinality(Units(g, Ues \ {x}))
  BY <1>3, UnitsStep
<1>7. Cardinality(Units(f, Ues \ {x})) \in Nat /\ f[x] \in Nat /\ g[x] \in Nat
  BY <1>3, FS_CardinalityType
<1> QED
  BY <1>2, <1>4, <1>5, <1>6, <1>7

\* The total of zeros.
LEMMA TotalZero ==
  ASSUME NEW f \in [Ues -> Nat], \A u \in Ues : f[u] = 0
  PROVE  Total(f) = 0
<1>1. Units(f, Ues) = {}
  BY DEF Units
<1> QED
  BY <1>1, SumIsCardinality, MetricsAssumption, FS_EmptySet DEF Total

\* Raising one summand by one, and none of the others, raises the total by
\* one at most.
LEMMA TotalRaise ==
  ASSUME NEW f \in [Ues -> Nat], NEW g \in [Ues -> Nat], NEW x \in Ues,
         g[x] <= f[x] + 1, \A u \in Ues \ {x} : g[u] <= f[u]
  PROVE  Total(g) <= Total(f) + 1
<1> DEFINE h == [f EXCEPT ![x] = @ + 1]
<1>1. h \in [Ues -> Nat] /\ h[x] = f[x] + 1 /\ \A u \in Ues \ {x} : f[u] = h[u]
  OBVIOUS
<1> HIDE DEF h
<1>2. Total(h) + f[x] = Total(f) + h[x]
  BY <1>1, TotalChange
<1>3. \A u \in Ues : g[u] <= h[u]
  BY <1>1
<1>4. Total(g) \in Nat /\ Total(h) \in Nat /\ Total(g) <= Total(h)
  BY <1>1, <1>3, TotalMonotone
<1>5. Total(f) \in Nat
  BY TotalType
<1>6. f[x] \in Nat
  OBVIOUS
<1> QED
  BY <1>1, <1>2, <1>4, <1>5, <1>6


(***************************************************************************)
(* What the state's types give.                                            *)
(***************************************************************************)
AllHeld == [u \in Ues |-> Held(u)]

LEMMA EntriesLemma ==
  /\ Cardinality(Cpus) \in Nat /\ NoEntry \notin Entries
  /\ \A e \in Entries : e \in Nat \ {0}
<1>1. Cardinality(Cpus) \in Nat
  BY MetricsAssumption, FS_CardinalityType
<1> QED
  BY <1>1, MetricsAssumption DEF Entries, NoEntry

LEMMA HeldType ==
  TypeOK => AllHeld \in [Ues -> Nat]
<1> SUFFICES ASSUME TypeOK, NEW u \in Ues
             PROVE  Held(u) \in Nat
  BY DEF AllHeld
<1>1. reported[u] \in Nat /\ metrics[u].packets \in Nat
  BY DEF TypeOK, Counters
<1>2. at[u] # NoEntry => val[at[u]].packets \in Nat
  BY DEF TypeOK, Counters
<1> QED
  BY <1>1, <1>2 DEF Held

LEMMA UncountedFinite ==
  /\ IsFiniteSet(Uncounted) /\ Cardinality(Uncounted) \in Nat
  /\ \A u \in Ues : IsFiniteSet(InFlight(u)) /\ Cardinality(InFlight(u)) \in Nat
<1>1. Uncounted \subseteq Cpus /\ \A u \in Ues : InFlight(u) \subseteq Cpus
  BY DEF Uncounted, InFlight
<1> QED
  BY <1>1, MetricsAssumption, FS_Subset, FS_CardinalityType

LEMMA PresentFinite ==
  IsFiniteSet(Present) /\ Cardinality(Present) \in Nat
<1>1. Present \subseteq Ues
  BY DEF Present
<1> QED
  BY <1>1, MetricsAssumption, FS_Subset, FS_CardinalityType

\* How the totals of a step are compared.
LEMMA TotalsLemma ==
  ASSUME TypeOK, TypeOK', HeldOnce
  PROVE  /\ AllHeld \in [Ues -> Nat] /\ AllHeld' \in [Ues -> Nat]
         /\ \A u \in Ues : AllHeld[u] = Held(u) /\ AllHeld'[u] = Held(u)'
         /\ Total(AllHeld) \in Nat /\ Total(AllHeld') \in Nat /\ Total(arrived) \in Nat
         /\ Total(arrived)' = Total(arrived') /\ Total(AllHeld)' = Total(AllHeld')
         /\ Cardinality(Uncounted) \in Nat
         /\ Total(AllHeld) + Cardinality(Uncounted) <= Total(arrived)
<1>1. (TypeOK => AllHeld \in [Ues -> Nat])'
  BY HeldType, PTL
<1>2. AllHeld \in [Ues -> Nat] /\ AllHeld' \in [Ues -> Nat]
  BY <1>1, HeldType
<1>3. \A u \in Ues : AllHeld[u] = Held(u) /\ AllHeld'[u] = Held(u)'
  BY DEF AllHeld
<1>4. Total(AllHeld) \in Nat /\ Total(AllHeld') \in Nat
  BY <1>2, TotalType
<1>5. Total(arrived) \in Nat
  BY TotalType DEF TypeOK
<1>6. Total(arrived)' = Total(arrived') /\ Total(AllHeld)' = Total(AllHeld')
  OBVIOUS
<1>7. Cardinality(Uncounted) \in Nat
  BY UncountedFinite
<1>8. Total(AllHeld) + Cardinality(Uncounted) <= Total(arrived)
  BY DEF HeldOnce, AllHeld
<1> QED
  BY <1>2, <1>3, <1>4, <1>5, <1>6, <1>7, <1>8

\* A step that leaves the arrivals and the uncounted packets alone must not
\* hold more for any UE.
LEMMA HeldNoMore ==
  ASSUME TypeOK, TypeOK', HeldOnce, arrived' = arrived, Uncounted' = Uncounted,
         \A u \in Ues : Held(u)' <= Held(u)
  PROVE  (Total(AllHeld) + Cardinality(Uncounted) <= Total(arrived))'
<1>1. \A u \in Ues : AllHeld'[u] <= AllHeld[u]
  BY TotalsLemma
<1>2. Total(AllHeld') <= Total(AllHeld)
  BY <1>1, TotalsLemma, TotalMonotone
<1> QED
  BY <1>2, TotalsLemma

\* A step that counts a packet, or fails to, may hold one more for one UE.
LEMMA HeldOneMore ==
  ASSUME TypeOK, TypeOK', HeldOnce, arrived' = arrived,
         NEW c \in Uncounted, Uncounted' = Uncounted \ {c},
         NEW x \in Ues, Held(x)' <= Held(x) + 1,
         \A u \in Ues \ {x} : Held(u)' <= Held(u)
  PROVE  (Total(AllHeld) + Cardinality(Uncounted) <= Total(arrived))'
<1>1. AllHeld'[x] <= AllHeld[x] + 1 /\ \A u \in Ues \ {x} : AllHeld'[u] <= AllHeld[u]
  BY TotalsLemma
<1>2. Total(AllHeld') <= Total(AllHeld) + 1
  BY <1>1, TotalsLemma, TotalRaise
<1>3. Cardinality(Uncounted') = Cardinality(Uncounted) - 1
  BY UncountedFinite, FS_RemoveElement
<1> QED
  BY <1>2, <1>3, TotalsLemma

\* A packet arrives, uncounted.
LEMMA HeldForArrival ==
  ASSUME TypeOK, TypeOK', HeldOnce, NEW x \in Ues, arrived' = [arrived EXCEPT ![x] = @ + 1],
         NEW c, c \notin Uncounted, Uncounted' = Uncounted \cup {c},
         \A u \in Ues : Held(u)' = Held(u)
  PROVE  (Total(AllHeld) + Cardinality(Uncounted) <= Total(arrived))'
<1>1. AllHeld' = AllHeld
  BY DEF AllHeld
<1>2. /\ arrived \in [Ues -> Nat] /\ arrived' \in [Ues -> Nat]
      /\ arrived'[x] = arrived[x] + 1 /\ \A u \in Ues \ {x} : arrived[u] = arrived'[u]
  BY DEF TypeOK
<1>3. Total(arrived') + arrived[x] = Total(arrived) + arrived'[x]
  BY <1>2, TotalChange
<1>4. Total(arrived') \in Nat
  BY <1>2, TotalType
<1>5. Cardinality(Uncounted') = Cardinality(Uncounted) + 1
  BY UncountedFinite, FS_AddElement
<1>6. arrived[x] \in Nat
  BY <1>2
<1>7. Total(arrived') = Total(arrived) + 1
  BY <1>2, <1>3, <1>4, <1>6, TotalsLemma
<1> QED
  BY <1>1, <1>5, <1>7, TotalsLemma

LEMMA InitLemma == Init => Inductive
<1> SUFFICES ASSUME Init
             PROVE  Inductive
  OBVIOUS
<1> USE DEF Init
<1>1. TypeOK
  BY EntriesLemma DEF TypeOK, Counters, Zero
<1>2. Present = {} /\ Uncounted = {} /\ \A u \in Ues : InFlight(u) = {}
  BY DEF Present, Uncounted, InFlight, SameUe
<1>3. Cardinality({}) = 0
  BY FS_EmptySet
<1>4. EntriesAreOwned
  BY <1>2, <1>3, MetricsAssumption DEF EntriesAreOwned
<1>5. OverlapsAreNoted
  BY DEF OverlapsAreNoted
<1>6. CleanAreSafe
  <2>1. \A u \in Ues : Clean(u) = 0 /\ Counted(u) = 0 /\ reported[u] = 0
    BY <1>2, <1>3 DEF Clean, Counted
  <2> QED
    BY <2>1 DEF CleanAreSafe
<1>7. HeldOnce
  <2>1. AllHeld \in [Ues -> Nat] /\ \A u \in Ues : AllHeld[u] = 0
    BY DEF AllHeld, Held
  <2>2. Total(AllHeld) = 0 /\ Total(arrived) = 0
    BY <2>1, TotalZero
  <2> QED
    BY <1>2, <1>3, <2>2 DEF HeldOnce, AllHeld
<1> QED
  BY <1>1, <1>4, <1>5, <1>6, <1>7 DEF Inductive

(***************************************************************************)
(* The eBPF programs.                                                      *)
(***************************************************************************)
LEMMA LookupLemma ==
  ASSUME Inductive, NEW c \in Cpus, NEW x \in Ues, NEW isTcp \in BOOLEAN, Lookup(c, x, isTcp)
  PROVE  Inductive'
<1> USE DEF Inductive, Lookup, readVars
<1>1. /\ UNCHANGED <<at, val, reader, must, keys, metrics, copying, reported, overlapped>>
      /\ pc[c] = "idle" /\ pc' = [pc EXCEPT ![c] = IF at[x] = NoEntry THEN "insert" ELSE "addPacket"]
      /\ arrived' = [arrived EXCEPT ![x] = @ + 1]
  OBVIOUS
<1>2. /\ pkt'[c].ue = x /\ pkt'[c].entry = at[x]
      /\ ~ pkt'[c].overlaps => reader = "idle" /\ \A b \in Cpus : ~ SameUe(b, x)
      /\ pkt'[c] \in Packets
  BY DEF TypeOK, Packets
<1>3. \A d \in Cpus \ {c} :
        /\ pc'[d] = pc[d]
        /\ SameUe(d, x) => pkt'[d] = [pkt[d] EXCEPT !.overlaps = TRUE]
        /\ ~ SameUe(d, x) => pkt'[d] = pkt[d]
  BY DEF TypeOK
<1>4. \A d \in Cpus \ {c} :
        /\ pc[d] = "idle" => pkt'[d] = NoPacket
        /\ pc[d] # "idle" =>
             /\ pkt'[d] \in Packets
             /\ pkt'[d].ue = pkt[d].ue /\ pkt'[d].entry = pkt[d].entry
             /\ ~ pkt'[d].overlaps => ~ pkt[d].overlaps /\ pkt[d].ue # x
  <2> SUFFICES ASSUME NEW d \in Cpus \ {c}
               PROVE  /\ pc[d] = "idle" => pkt'[d] = NoPacket
                      /\ pc[d] # "idle" =>
                           /\ pkt'[d] \in Packets
                           /\ pkt'[d].ue = pkt[d].ue /\ pkt'[d].entry = pkt[d].entry
                           /\ ~ pkt'[d].overlaps => ~ pkt[d].overlaps /\ pkt[d].ue # x
    OBVIOUS
  <2>1. IF pc[d] = "idle" THEN pkt[d] = NoPacket
        ELSE pkt[d] \in Packets
    BY DEF TypeOK
  <2> HIDE DEF Inductive, Lookup
  <2>2. CASE SameUe(d, x)
    <3>1. pc[d] # "idle" /\ pkt'[d] = [pkt[d] EXCEPT !.overlaps = TRUE]
      BY <1>3, <2>2 DEF SameUe
    <3> QED
      BY <2>1, <3>1 DEF Packets
  <2>3. CASE ~ SameUe(d, x)
    BY <1>3, <2>1, <2>3 DEF SameUe
  <2> QED
    BY <2>2, <2>3
<1>5. TypeOK'
  <2>1. arrived' \in [Ues -> Nat] /\ pc' \in [Cpus -> {"idle", "insert", "addPacket", "addTcp"}]
    BY <1>1 DEF TypeOK
  <2> QED
    BY <1>1, <1>2, <1>3, <1>4, <2>1 DEF TypeOK
<1>6. EntriesAreOwned'
  BY <1>1 DEF EntriesAreOwned, Present
<1>7. OverlapsAreNoted'
  <2>1. ASSUME NEW d \in Cpus \ {c}, pc'[d] # "idle"
        PROVE  /\ pc'[d] \in {"addPacket", "addTcp"} => pkt'[d].entry # NoEntry
               /\ \/ pkt'[d].overlaps
                  \/ /\ reader' = "idle"
                     /\ \A b \in Cpus : b # d => ~ SameUe(b, pkt[d].ue)'
                     /\ pc'[d] \in {"addPacket", "addTcp"} => at'[pkt'[d].ue] = pkt'[d].entry
    <3>1. /\ pc[d] # "idle" /\ pc[d] = pc'[d]
          /\ pkt'[d].ue = pkt[d].ue /\ pkt'[d].entry = pkt[d].entry
          /\ ~ pkt'[d].overlaps => ~ pkt[d].overlaps /\ pkt[d].ue # x
      BY <1>3, <1>4, <2>1
    <3>2. \A b \in Cpus : SameUe(b, pkt[d].ue)' => SameUe(b, pkt[d].ue) \/ b = c
      BY <1>3, <1>4, <3>1 DEF SameUe
    <3>3. SameUe(c, pkt[d].ue)' => pkt[d].ue = x
      BY <1>2, <3>1 DEF SameUe
    <3> HIDE DEF Lookup
    <3> QED
      BY <1>1, <3>1, <3>2, <3>3 DEF OverlapsAreNoted
  <2>2. /\ pc'[c] = "addPacket" => pkt'[c].entry # NoEntry
        /\ pc'[c] \in {"insert", "addPacket"}
        /\ at'[pkt'[c].ue] = pkt'[c].entry
    BY <1>1, <1>2 DEF TypeOK
  <2>3. ASSUME ~ pkt'[c].overlaps
        PROVE  reader' = "idle" /\ \A b \in Cpus : b # c => ~ SameUe(b, pkt[c].ue)'
    BY <1>1, <1>2, <1>3, <1>4, <2>3 DEF SameUe
  <2> HIDE DEF Lookup, Inductive
  <2> QED
    BY <2>1, <2>2, <2>3 DEF OverlapsAreNoted
<1>8. \A u \in Ues : Clean(u)' = Clean(u)
  <2> SUFFICES ASSUME NEW u \in Ues
               PROVE  Clean(u)' = Clean(u)
    OBVIOUS
  <2>1. InFlight(u)' = IF u = x THEN InFlight(u) \cup {c} ELSE InFlight(u)
    BY <1>1, <1>2, <1>3, <1>4 DEF InFlight, SameUe, TypeOK
  <2>2. c \notin InFlight(u)
    BY <1>1 DEF InFlight, SameUe
  <2>3. Cardinality(InFlight(u)') = Cardinality(InFlight(u)) + IF u = x THEN 1 ELSE 0
    <3>1. CASE u = x
      BY <2>1, <2>2, <3>1, UncountedFinite, FS_AddElement
    <3>2. CASE u # x
      BY <2>1, <3>2, UncountedFinite
    <3> QED
      BY <3>1, <3>2
  <2>4. arrived[u] \in Nat /\ overlapped[u] \in Nat /\ Cardinality(InFlight(u)) \in Nat
    BY UncountedFinite DEF TypeOK
  <2>5. arrived'[u] = arrived[u] + IF u = x THEN 1 ELSE 0
    BY <1>1 DEF TypeOK
  <2> QED
    BY <1>1, <2>3, <2>4, <2>5 DEF Clean
<1>9. CleanAreSafe'
  <2>1. \A u \in Ues : Replacing(u)' => Replacing(u) \/ at[u] = NoEntry
    BY <1>1, <1>2, <1>3, <1>4 DEF Replacing, TypeOK
  <2>2. \A u \in Ues : Counted(u)' = Counted(u) /\ Collected(u)' = Collected(u)
    BY <1>1 DEF Counted, Collected
  <2>3. \A u \in Ues : at[u] = NoEntry => Counted(u) = reported[u]
    BY DEF Counted, TypeOK
  <2>4. \A d \in Cpus : pc'[d] = "addTcp" /\ ~ pkt'[d].overlaps
          => pc[d] = "addTcp" /\ ~ pkt[d].overlaps /\ pkt'[d].ue = pkt[d].ue
    BY <1>1, <1>2, <1>3, <1>4 DEF TypeOK
  <2> QED
    BY <1>1, <1>8, <2>1, <2>2, <2>3, <2>4 DEF CleanAreSafe
<1>10. HeldOnce'
  <2>1. \A u \in Ues : Held(u)' = Held(u)
    BY <1>1 DEF Held, Doomed, Collected
  <2>2. c \notin Uncounted /\ Uncounted' = Uncounted \cup {c}
    BY <1>1 DEF Uncounted, TypeOK
  <2>3. (Total(AllHeld) + Cardinality(Uncounted) <= Total(arrived))'
    BY <1>1, <1>5, <2>1, <2>2, HeldForArrival
  <2> QED
    BY <1>1, <2>3 DEF HeldOnce, AllHeld, Collected
<1> QED
  BY <1>5, <1>6, <1>7, <1>9, <1>10

\* The types and the entries of a CPU's packet.
LEMMA PacketLemma ==
  ASSUME TypeOK, NEW c \in Cpus, pc[c] # "idle"
  PROVE  /\ pkt[c] \in Packets
         /\ pkt[c].ue \in Ues /\ pkt[c].entry \in Entries \cup {NoEntry}
         /\ pkt[c].overlaps \in BOOLEAN
<1>1. pkt[c] \in Packets
  BY DEF TypeOK
<1> QED
  BY <1>1 DEF Packets

LEMMA AddPacketLemma ==
  ASSUME Inductive, NEW c \in Cpus, AddPacket(c)
  PROVE  Inductive'
<1> DEFINE e == pkt[c].entry
<1>1. /\ UNCHANGED <<at, pkt, reader, must, keys, metrics, copying, arrived, reported, overlapped>>
      /\ pc[c] = "addPacket" /\ pc' = [pc EXCEPT ![c] = "addTcp"]
      /\ val' = [val EXCEPT ![e].packets = @ + 1]
  BY DEF AddPacket, readVars
<1>2. TypeOK /\ EntriesAreOwned /\ OverlapsAreNoted /\ CleanAreSafe /\ HeldOnce
  BY DEF Inductive
<1>3. e \in Entries /\ val \in [Entries -> Counters]
  BY <1>1, <1>2, PacketLemma DEF OverlapsAreNoted, TypeOK
<1> HIDE DEF e
<1>4. /\ val' \in [Entries -> Counters]
      /\ \A i \in Entries : val'[i].packets = val[i].packets + IF i = e THEN 1 ELSE 0
  <2>1. val[e] \in Counters
    BY <1>3
  <2>2. [val[e] EXCEPT !.packets = @ + 1] \in Counters
        /\ [val[e] EXCEPT !.packets = @ + 1].packets = val[e].packets + 1
    BY <2>1 DEF Counters
  <2>3. val' = [val EXCEPT ![e] = [val[e] EXCEPT !.packets = @ + 1]]
    BY <1>1
  <2>4. \A i \in Entries : val[i].packets \in Nat
    BY <1>3 DEF Counters
  <2> QED
    BY <1>3, <2>2, <2>3, <2>4
<1>5. TypeOK'
  BY <1>1, <1>2, <1>4 DEF TypeOK
<1>6. EntriesAreOwned'
  BY <1>1, <1>2 DEF EntriesAreOwned, Present
<1>7. OverlapsAreNoted'
  BY <1>1, <1>2 DEF OverlapsAreNoted, SameUe, TypeOK
<1>8. \A u \in Ues : at[u] # NoEntry => at[u] \in Entries /\ val[at[u]].packets \in Nat
  BY <1>2 DEF TypeOK, Counters
<1>9. CleanAreSafe'
  <2>1. \A u \in Ues : Clean(u)' = Clean(u) /\ Clean(u) \in Int
    <3>1. \A u \in Ues : InFlight(u)' = InFlight(u)
      BY <1>1, <1>2 DEF InFlight, SameUe, TypeOK
    <3>2. \A u \in Ues : Cardinality(InFlight(u)) \in Nat /\ arrived[u] \in Nat /\ overlapped[u] \in Nat
      BY <1>2, UncountedFinite DEF TypeOK
    <3> QED
      BY <1>1, <3>1, <3>2 DEF Clean
  <2>2. \A u \in Ues :
          /\ Counted(u) \in Nat /\ Counted(u)' = Counted(u) + IF at[u] = e THEN 1 ELSE 0
          /\ reported[u] \in Nat
    BY <1>1, <1>2, <1>3, <1>4, <1>8, EntriesLemma DEF Counted, TypeOK
  <2>3. \A u \in Ues : Replacing(u)' => Replacing(u)
    BY <1>1, <1>2 DEF Replacing, TypeOK
  <2>4. ASSUME NEW u \in Ues, reader = "idle", NEW d \in Cpus, pc'[d] = "addTcp", pkt'[d].ue = u, ~ pkt'[d].overlaps
        PROVE  Clean(u) < Counted(u)'
    <3>1. CASE d = c
      <4>1. at[u] = e
        BY <1>1, <1>2, <2>4, <3>1 DEF OverlapsAreNoted, e
      <4>2. Clean(u) <= Counted(u)
        BY <1>2, <2>4 DEF CleanAreSafe
      <4> QED
        BY <2>1, <2>2, <4>1, <4>2
    <3>2. CASE d # c
      <4>1. Clean(u) < Counted(u)
        BY <1>1, <1>2, <2>4, <3>2 DEF CleanAreSafe, TypeOK
      <4> QED
        BY <2>1, <2>2, <4>1
    <3> QED
      BY <3>1, <3>2
  <2>5. \A u \in Ues : Collected(u)' = Collected(u)
    BY <1>1 DEF Collected
  <2>6. \A u \in Ues : Counted(u) <= Counted(u)'
    BY <2>2
  <2>7. \A u \in Ues : Clean(u) <= Counted(u) => Clean(u)' <= Counted(u)'
    BY <2>1, <2>2
  <2> QED
    BY <1>1, <1>2, <2>1, <2>3, <2>4, <2>5, <2>7 DEF CleanAreSafe
<1>10. HeldOnce'
  <2>1. \A u \in Ues : Held(u)' <= Held(u) + IF at[u] = e THEN 1 ELSE 0
    <3>1. \A u \in Ues : reported[u] \in Nat /\ metrics[u].packets \in Nat
      BY <1>2 DEF TypeOK, Counters
    <3>2. \A u \in Ues : Doomed(u)' = Doomed(u)
      BY <1>1 DEF Doomed, Collected
    <3> QED
      BY <1>1, <1>4, <1>8, <3>1, <3>2 DEF Held
  <2>2. c \in Uncounted /\ Uncounted' = Uncounted \ {c}
    BY <1>1, <1>2 DEF Uncounted, TypeOK
  <2>3. \A u \in Ues : Held(u) \in Nat /\ Held(u)' \in Nat
    BY <1>2, <1>5, TotalsLemma
  <2>4. PICK x \in Ues : \A u \in Ues \ {x} : at[u] # e
    BY <1>2, <1>3, EntriesLemma, PacketLemma, <1>1 DEF EntriesAreOwned, Present
  <2>5. Held(x)' <= Held(x) + 1 /\ \A u \in Ues \ {x} : Held(u)' <= Held(u)
    BY <2>1, <2>3, <2>4
  <2>6. (Total(AllHeld) + Cardinality(Uncounted) <= Total(arrived))'
    BY <1>1, <1>2, <1>5, <2>2, <2>5, HeldOneMore
  <2> QED
    BY <1>1, <1>2, <2>6 DEF HeldOnce, AllHeld, Collected
<1> QED
  BY <1>5, <1>6, <1>7, <1>9, <1>10 DEF Inductive

\* A CPU is done with a packet, which from then on is either excused or clean.
LEMMA LeaveLemma ==
  ASSUME Inductive, NEW c \in Cpus, pc[c] # "idle", NEW excused \in BOOLEAN, Leave(c, excused)
  PROVE  /\ UNCHANGED <<reader, must, keys, metrics, copying, arrived, reported>>
         /\ pc' \in [Cpus -> {"idle", "insert", "addPacket", "addTcp"}]
         /\ pc'[c] = "idle" /\ pkt'[c] = NoPacket
         /\ \A d \in Cpus \ {c} : pc'[d] = pc[d] /\ pkt'[d] = pkt[d]
         /\ pkt' \in [Cpus -> Packets \cup {NoPacket}]
         /\ \A d \in Cpus : IF pc'[d] = "idle" THEN pkt'[d] = NoPacket ELSE pkt'[d] \in Packets
         /\ overlapped' \in [Ues -> Nat]
         /\ \A u \in Ues : Clean(u) \in Int
         /\ excused => \A u \in Ues : Clean(u)' = Clean(u)
         /\ ~ excused => \A u \in Ues : Clean(u)' = Clean(u) + IF u = pkt[c].ue THEN 1 ELSE 0
         /\ \A u \in Ues : Replacing(u)' => Replacing(u)
         /\ \A u \in Ues, d \in Cpus : SameUe(d, u)' => d # c /\ SameUe(d, u)
<1> DEFINE x == pkt[c].ue
<1>1. TypeOK
  BY DEF Inductive
<1>2. x \in Ues
  BY <1>1, PacketLemma
<1>3. /\ UNCHANGED <<reader, must, keys, metrics, copying, arrived, reported>>
      /\ pc' = [pc EXCEPT ![c] = "idle"] /\ pkt' = [pkt EXCEPT ![c] = NoPacket]
      /\ overlapped' = [overlapped EXCEPT ![x] = @ + IF excused THEN 1 ELSE 0]
  BY DEF Leave, readVars
<1> HIDE DEF x
<1>4. /\ pc' \in [Cpus -> {"idle", "insert", "addPacket", "addTcp"}]
      /\ pc'[c] = "idle"
      /\ \A d \in Cpus \ {c} : pc'[d] = pc[d]
  BY <1>1, <1>3 DEF TypeOK
<1>5. /\ pkt' \in [Cpus -> Packets \cup {NoPacket}]
      /\ pkt'[c] = NoPacket /\ \A d \in Cpus \ {c} : pkt'[d] = pkt[d]
  BY <1>1, <1>3 DEF TypeOK
<1>6. overlapped' \in [Ues -> Nat] /\ overlapped'[x] = overlapped[x] + (IF excused THEN 1 ELSE 0)
      /\ \A u \in Ues \ {x} : overlapped'[u] = overlapped[u]
  BY <1>1, <1>2, <1>3 DEF TypeOK
<1>7. \A d \in Cpus : IF pc'[d] = "idle" THEN pkt'[d] = NoPacket
        ELSE pkt'[d] \in Packets
  BY <1>1, <1>4, <1>5 DEF TypeOK
<1>8. \A u \in Ues, d \in Cpus : SameUe(d, u)' <=> d # c /\ SameUe(d, u)
  BY <1>4, <1>5 DEF SameUe
<1>9. \A u \in Ues : InFlight(u)' = InFlight(u) \ {c}
  BY <1>8 DEF InFlight
<1>10. \A u \in Ues : c \in InFlight(u) <=> u = x
  BY DEF InFlight, SameUe, x
<1>11. \A u \in Ues : Cardinality(InFlight(u)') = Cardinality(InFlight(u)) - IF u = x THEN 1 ELSE 0
  <2> SUFFICES ASSUME NEW u \in Ues
               PROVE  Cardinality(InFlight(u)') = Cardinality(InFlight(u)) - IF u = x THEN 1 ELSE 0
    OBVIOUS
  <2>1. CASE u = x
    BY <1>9, <1>10, <2>1, UncountedFinite, FS_RemoveElement
  <2>2. CASE u # x
    <3>1. InFlight(u)' = InFlight(u)
      BY <1>9, <1>10, <2>2
    <3> QED
      BY <2>2, <3>1, UncountedFinite
  <2> QED
    BY <2>1, <2>2
<1>12. \A u \in Ues : arrived[u] \in Nat /\ overlapped[u] \in Nat /\ Cardinality(InFlight(u)) \in Nat
  BY <1>1, UncountedFinite DEF TypeOK
<1>13. \A u \in Ues : Clean(u) \in Int
  BY <1>12 DEF Clean
<1>14. \A u \in Ues : Clean(u)' = Clean(u) + IF u = x /\ ~ excused THEN 1 ELSE 0
  BY <1>2, <1>3, <1>6, <1>11, <1>12 DEF Clean
<1>15. excused => \A u \in Ues : Clean(u)' = Clean(u)
  BY <1>13, <1>14
<1>16. ~ excused => \A u \in Ues : Clean(u)' = Clean(u) + IF u = x THEN 1 ELSE 0
  BY <1>14
<1>17. \A u \in Ues : Replacing(u)' => Replacing(u)
  BY <1>4, <1>5 DEF Replacing
<1> QED
  BY <1>3, <1>4, <1>5, <1>6, <1>7, <1>8, <1>13, <1>15, <1>16, <1>17 DEF x

\* When a CPU leaves, having changed the entry of its own UE at most, what is
\* known of the others' packets stays true.
LEMMA LeaveOverlaps ==
  ASSUME Inductive, NEW c \in Cpus, pc[c] # "idle", NEW excused \in BOOLEAN, Leave(c, excused),
         \A u \in Ues \ {pkt[c].ue} : at'[u] = at[u]
  PROVE  OverlapsAreNoted'
<1>1. OverlapsAreNoted /\ TypeOK
  BY DEF Inductive
<1>2. /\ reader' = reader /\ pc'[c] = "idle"
      /\ \A d \in Cpus \ {c} : pc'[d] = pc[d] /\ pkt'[d] = pkt[d]
      /\ \A u \in Ues, d \in Cpus : SameUe(d, u)' => d # c /\ SameUe(d, u)
  BY LeaveLemma
<1> SUFFICES ASSUME NEW d \in Cpus, pc'[d] # "idle"
             PROVE  /\ pc'[d] \in {"addPacket", "addTcp"} => pkt'[d].entry # NoEntry
                    /\ \/ pkt'[d].overlaps
                       \/ /\ reader' = "idle"
                          /\ \A b \in Cpus : b # d => ~ SameUe(b, pkt[d].ue)'
                          /\ pc'[d] \in {"addPacket", "addTcp"} => at'[pkt'[d].ue] = pkt'[d].entry
  BY DEF OverlapsAreNoted
<1>3. d # c /\ pc'[d] = pc[d] /\ pkt'[d] = pkt[d] /\ pkt[d].ue \in Ues
  BY <1>1, <1>2, PacketLemma
<1>4. pc[d] \in {"addPacket", "addTcp"} => pkt[d].entry # NoEntry
  BY <1>1, <1>3 DEF OverlapsAreNoted
<1>5. CASE ~ pkt[d].overlaps
  <2>1. /\ reader = "idle" /\ \A b \in Cpus : b # d => ~ SameUe(b, pkt[d].ue)
        /\ pc[d] \in {"addPacket", "addTcp"} => at[pkt[d].ue] = pkt[d].entry
    BY <1>1, <1>3, <1>5 DEF OverlapsAreNoted
  <2>2. pkt[d].ue # pkt[c].ue
    BY <1>3, <2>1 DEF SameUe
  <2>3. \A b \in Cpus : SameUe(b, pkt[d].ue)' => SameUe(b, pkt[d].ue)
    BY <1>2, <1>3 DEF SameUe
  <2> QED
    BY <1>2, <1>3, <1>4, <2>1, <2>2, <2>3
<1>6. CASE pkt[d].overlaps
  BY <1>3, <1>4, <1>6
<1> QED
  BY <1>5, <1>6

\* A packet that leaves without an overlap is the only one of its UE, and
\* the reader sleeps.
LEMMA AloneLemma ==
  ASSUME Inductive, NEW c \in Cpus, pc[c] # "idle", ~ pkt[c].overlaps
  PROVE  reader = "idle" /\ \A d \in Cpus \ {c} : pc[d] # "idle" => pkt[d].ue # pkt[c].ue
<1> QED
  BY DEF Inductive, OverlapsAreNoted, SameUe

LEMMA AddTcpLemma ==
  ASSUME Inductive, NEW c \in Cpus, AddTcp(c)
  PROVE  Inductive'
<1> DEFINE x == pkt[c].ue
<1>0. TypeOK /\ EntriesAreOwned /\ OverlapsAreNoted /\ CleanAreSafe /\ HeldOnce
  BY DEF Inductive
<1>1. /\ pc[c] = "addTcp" /\ at' = at
      /\ val' = [val EXCEPT ![pkt[c].entry].tcp = @ + IF pkt[c].tcp THEN 1 ELSE 0]
      /\ Leave(c, pkt[c].overlaps)
  BY DEF AddTcp
<1>2. pkt[c] \in Packets /\ x \in Ues /\ pkt[c].overlaps \in BOOLEAN /\ pkt[c].tcp \in BOOLEAN
  BY <1>0, <1>1, PacketLemma DEF Packets
<1>3. pkt[c].entry \in Entries
  BY <1>0, <1>1, PacketLemma DEF OverlapsAreNoted
<1>4. val' \in [Entries -> Counters] /\ \A i \in Entries : val'[i].packets = val[i].packets
  <2>1. val[pkt[c].entry] \in Counters /\ val \in [Entries -> Counters]
    BY <1>0, <1>3 DEF TypeOK
  <2>2. (IF pkt[c].tcp THEN 1 ELSE 0) \in Nat
    OBVIOUS
  <2> QED
    BY <1>1, <1>3, <2>1, <2>2 DEF Counters
<1> HIDE DEF x
<1>5. /\ UNCHANGED <<reader, must, keys, metrics, copying, arrived, reported>>
      /\ pc' \in [Cpus -> {"idle", "insert", "addPacket", "addTcp"}]
      /\ pc'[c] = "idle"
      /\ \A d \in Cpus \ {c} : pc'[d] = pc[d] /\ pkt'[d] = pkt[d]
      /\ pkt' \in [Cpus -> Packets \cup {NoPacket}]
      /\ \A d \in Cpus : IF pc'[d] = "idle" THEN pkt'[d] = NoPacket ELSE pkt'[d] \in Packets
      /\ overlapped' \in [Ues -> Nat]
      /\ \A u \in Ues : Clean(u) \in Int
      /\ \A u \in Ues : Replacing(u)' => Replacing(u)
  BY <1>1, <1>2, LeaveLemma
<1>6. /\ pkt[c].overlaps => \A u \in Ues : Clean(u)' = Clean(u)
      /\ ~ pkt[c].overlaps => \A u \in Ues : Clean(u)' = Clean(u) + IF u = x THEN 1 ELSE 0
  BY <1>1, <1>2, LeaveLemma DEF x
<1>7. TypeOK'
  BY <1>0, <1>1, <1>4, <1>5 DEF TypeOK
<1>8. EntriesAreOwned'
  BY <1>0, <1>1 DEF EntriesAreOwned, Present
<1>9. OverlapsAreNoted'
  BY <1>1, <1>2, LeaveOverlaps
<1>10. \A u \in Ues : at[u] # NoEntry => at[u] \in Entries
  BY <1>0 DEF TypeOK
<1>11. CleanAreSafe'
  <2>1. \A u \in Ues : Counted(u)' = Counted(u) /\ Collected(u)' = Collected(u)
    BY <1>1, <1>4, <1>5, <1>10 DEF Counted, Collected
  <2>2. \A d \in Cpus : pc'[d] = "addTcp" => d # c /\ pc[d] = "addTcp" /\ pkt'[d] = pkt[d]
    BY <1>5
  <2>3. CASE pkt[c].overlaps
    BY <1>0, <1>1, <1>5, <1>6, <2>1, <2>2, <2>3 DEF CleanAreSafe
  <2>4. CASE ~ pkt[c].overlaps
    <3>1. reader = "idle" /\ \A d \in Cpus \ {c} : pc[d] # "idle" => pkt[d].ue # x
      BY <1>1, <2>4, AloneLemma DEF x
    <3>2. ASSUME NEW u \in Ues
          PROVE  /\ Clean(u)' <= Counted(u)'
                 /\ Replacing(u)' => Clean(u)' <= reported[u]
                 /\ \A d \in Cpus : pc'[d] = "addTcp" /\ pkt'[d].ue = u /\ ~ pkt'[d].overlaps
                      => Clean(u)' < Counted(u)'
      <4>1. CASE u # x
        BY <1>0, <1>5, <1>6, <2>1, <2>2, <2>4, <3>1, <4>1 DEF CleanAreSafe
      <4>2. CASE u = x
        <5>1. Clean(u) < Counted(u)
          BY <1>0, <1>1, <2>4, <3>1, <4>2 DEF CleanAreSafe, x
        <5>2. Clean(u)' = Clean(u) + 1
          BY <1>6, <2>4, <4>2
        <5>3. Counted(u) \in Int
          BY <1>0, <1>10 DEF Counted, TypeOK, Counters
        <5>4. ~ Replacing(u)' /\ \A d \in Cpus : pc'[d] = "addTcp" => pkt'[d].ue # u
          BY <1>5, <2>2, <3>1, <4>2 DEF Replacing
        <5> QED
          BY <1>5, <2>1, <5>1, <5>2, <5>3, <5>4
      <4> QED
        BY <4>1, <4>2
    <3> QED
      BY <1>5, <3>1, <3>2 DEF CleanAreSafe
  <2> QED
    BY <2>3, <2>4
<1>12. HeldOnce'
  <2>1. \A u \in Ues : Doomed(u)' = Doomed(u)
    BY <1>5 DEF Doomed, Collected
  <2>2. \A u \in Ues : Held(u)' = Held(u)
    BY <1>1, <1>4, <1>5, <1>10, <2>1 DEF Held
  <2>3. \A u \in Ues : Held(u)' <= Held(u)
    BY <1>0, <1>7, <2>2, TotalsLemma
  <2>4. Uncounted' = Uncounted
    BY <1>1, <1>5 DEF Uncounted
  <2>5. (Total(AllHeld) + Cardinality(Uncounted) <= Total(arrived))'
    BY <1>0, <1>5, <1>7, <2>3, <2>4, HeldNoMore
  <2> QED
    BY <1>0, <1>5, <2>5 DEF HeldOnce, AllHeld, Collected
<1> QED
  BY <1>7, <1>8, <1>9, <1>11, <1>12 DEF Inductive

LEMMA InsertLemma ==
  ASSUME Inductive, NEW c \in Cpus, Insert(c)
  PROVE  Inductive'
<1> DEFINE x == pkt[c].ue
<1>0. TypeOK /\ EntriesAreOwned /\ OverlapsAreNoted /\ CleanAreSafe /\ HeldOnce
  BY DEF Inductive
<1>1. /\ pc[c] = "insert" /\ ~ Full(x) /\ Leave(c, pkt[c].overlaps)
  BY DEF Insert
<1>2. pkt[c] \in Packets /\ x \in Ues /\ pkt[c].overlaps \in BOOLEAN /\ pkt[c].tcp \in BOOLEAN
  BY <1>0, <1>1, PacketLemma DEF Packets
<1>3. PICK e \in Free : at' = [at EXCEPT ![x] = e] /\ val' = [val EXCEPT ![e] = First(c)]
  BY DEF Insert
<1> HIDE DEF x
<1>4. e \in Entries /\ e # NoEntry /\ \A u \in Ues : at[u] # e
  BY EntriesLemma DEF Free
<1>5. /\ at' \in [Ues -> Entries \cup {NoEntry}] /\ at'[x] = e
      /\ \A u \in Ues \ {x} : at'[u] = at[u]
  BY <1>0, <1>2, <1>3, <1>4 DEF TypeOK
<1>6. /\ val' \in [Entries -> Counters] /\ val'[e].packets = 1
      /\ \A i \in Entries \ {e} : val'[i] = val[i]
  <2>1. First(c) \in Counters /\ First(c).packets = 1
    BY <1>2 DEF First, Counters
  <2> QED
    BY <1>0, <1>3, <1>4, <2>1 DEF TypeOK
<1>7. /\ UNCHANGED <<reader, must, keys, metrics, copying, arrived, reported>>
      /\ pc' \in [Cpus -> {"idle", "insert", "addPacket", "addTcp"}]
      /\ pc'[c] = "idle"
      /\ \A d \in Cpus \ {c} : pc'[d] = pc[d] /\ pkt'[d] = pkt[d]
      /\ pkt' \in [Cpus -> Packets \cup {NoPacket}]
      /\ \A d \in Cpus : IF pc'[d] = "idle" THEN pkt'[d] = NoPacket ELSE pkt'[d] \in Packets
      /\ overlapped' \in [Ues -> Nat]
      /\ \A u \in Ues : Clean(u) \in Int
      /\ \A u \in Ues : Replacing(u)' => Replacing(u)
  BY <1>1, <1>2, LeaveLemma
<1>8. /\ pkt[c].overlaps => \A u \in Ues : Clean(u)' = Clean(u)
      /\ ~ pkt[c].overlaps => \A u \in Ues : Clean(u)' = Clean(u) + IF u = x THEN 1 ELSE 0
  BY <1>1, <1>2, LeaveLemma DEF x
<1>9. TypeOK'
  BY <1>0, <1>5, <1>6, <1>7 DEF TypeOK
<1>10. EntriesAreOwned'
  <2>1. Present' = Present \cup {x}
    BY <1>2, <1>4, <1>5 DEF Present
  <2>2. Cardinality(Present') <= MaxEntries
    <3>1. CASE x \in Present
      <4>1. Present' = Present
        BY <2>1, <3>1
      <4> QED
        BY <1>0, <4>1 DEF EntriesAreOwned
    <3>2. CASE x \notin Present
      <4>1. Cardinality(Present) # MaxEntries /\ Cardinality(Present) <= MaxEntries
        BY <1>0, <1>1, <3>2 DEF Full, EntriesAreOwned
      <4>2. Cardinality(Present') = Cardinality(Present) + 1
        BY <2>1, <3>2, PresentFinite, FS_AddElement
      <4> QED
        BY <4>1, <4>2, PresentFinite, MetricsAssumption
    <3> QED
      BY <3>1, <3>2
  <2>3. \A u, v \in Present' : at'[u] = at'[v] => u = v
    BY <1>0, <1>4, <1>5, <2>1 DEF EntriesAreOwned, Present
  <2> QED
    BY <2>2, <2>3 DEF EntriesAreOwned
<1>11. OverlapsAreNoted'
  BY <1>1, <1>2, <1>5, LeaveOverlaps DEF x
<1>12. \A u \in Ues : at[u] # NoEntry => at[u] \in Entries \ {e} /\ val[at[u]].packets \in Nat
  BY <1>0, <1>4 DEF TypeOK, Counters
<1>13. CleanAreSafe'
  <2>1. \A u \in Ues : u # x => Counted(u)' = Counted(u)
    BY <1>5, <1>6, <1>7, <1>12 DEF Counted
  <2>2. \A u \in Ues : u = x => Counted(u)' = reported[u] + 1
    BY <1>4, <1>5, <1>6, <1>7 DEF Counted
  <2>3. \A d \in Cpus : pc'[d] = "addTcp" => d # c /\ pc[d] = "addTcp" /\ pkt'[d] = pkt[d]
    BY <1>7
  <2>4. \A u \in Ues : reported[u] \in Nat /\ Collected(u)' = Collected(u)
    BY <1>0, <1>7 DEF TypeOK, Collected
  <2>5. Replacing(x)
    BY <1>1 DEF Replacing, x
  <2>6. \A u \in Ues : u # x => at'[u] = at[u]
    BY <1>5
  <2>7. CASE pkt[c].overlaps
    <3>1. \A u \in Ues : Clean(u)' = Clean(u)
      BY <1>8, <2>7
    <3>2. ASSUME reader = "idle"
          PROVE  CleanAreSafe'
      <4>1. ASSUME NEW u \in Ues, u = x
            PROVE  Clean(u)' < Counted(u)' /\ (Replacing(u)' => Clean(u)' <= reported[u])
        <5>1. Clean(u) <= reported[u]
          BY <1>0, <2>5, <3>2, <4>1 DEF CleanAreSafe
        <5> QED
          BY <1>7, <2>2, <2>4, <3>1, <4>1, <5>1
      <4>2. ASSUME NEW u \in Ues, u # x
            PROVE  /\ Clean(u)' <= Counted(u)'
                   /\ Replacing(u)' => Clean(u)' <= reported[u]
                   /\ \A d \in Cpus : pc'[d] = "addTcp" /\ pkt'[d].ue = u /\ ~ pkt'[d].overlaps
                        => Clean(u)' < Counted(u)'
        BY <1>0, <1>7, <2>1, <2>3, <3>1, <3>2, <4>2 DEF CleanAreSafe
      <4>3. \A u \in Ues : u = x => Counted(u)' \in Int /\ Clean(u)' \in Int
        BY <1>7, <2>2, <2>4, <3>1
      <4> QED
        BY <1>7, <3>2, <4>1, <4>2, <4>3 DEF CleanAreSafe
    <3>3. ASSUME reader # "idle"
          PROVE  CleanAreSafe'
      BY <1>0, <1>7, <2>1, <2>4, <2>5, <2>6, <3>1, <3>3 DEF CleanAreSafe
    <3> QED
      BY <3>2, <3>3
  <2>8. CASE ~ pkt[c].overlaps
    <3>1. reader = "idle" /\ \A d \in Cpus \ {c} : pc[d] # "idle" => pkt[d].ue # x
      BY <1>1, <2>8, AloneLemma DEF x
    <3>2. ASSUME NEW u \in Ues, u = x
          PROVE  /\ Clean(u)' <= Counted(u)'
                 /\ ~ Replacing(u)'
                 /\ \A d \in Cpus : pc'[d] = "addTcp" => pkt'[d].ue # u
      <4>1. Clean(u) <= reported[u] /\ Clean(u)' = Clean(u) + 1
        BY <1>0, <1>8, <2>5, <2>8, <3>1, <3>2 DEF CleanAreSafe
      <4>2. ~ Replacing(u)' /\ \A d \in Cpus : pc'[d] = "addTcp" => pkt'[d].ue # u
        BY <1>7, <2>3, <3>1, <3>2 DEF Replacing
      <4> QED
        BY <1>7, <2>2, <2>4, <3>2, <4>1, <4>2
    <3>3. ASSUME NEW u \in Ues, u # x
          PROVE  /\ Clean(u)' <= Counted(u)'
                 /\ Replacing(u)' => Clean(u)' <= reported[u]
                 /\ \A d \in Cpus : pc'[d] = "addTcp" /\ pkt'[d].ue = u /\ ~ pkt'[d].overlaps
                      => Clean(u)' < Counted(u)'
      <4>1. Clean(u)' = Clean(u)
        BY <1>7, <1>8, <2>8, <3>3
      <4> QED
        BY <1>0, <1>7, <2>1, <2>3, <3>1, <3>3, <4>1 DEF CleanAreSafe
    <3> QED
      BY <1>7, <3>1, <3>2, <3>3 DEF CleanAreSafe
  <2> QED
    BY <2>7, <2>8
<1>14. HeldOnce'
  <2>1. \A u \in Ues : Doomed(u)' = Doomed(u)
    BY <1>7 DEF Doomed, Collected
  <2>2. \A u \in Ues : reported[u] \in Nat /\ metrics[u].packets \in Nat
    BY <1>0 DEF TypeOK, Counters
  <2>3. \A u \in Ues : u # x => Held(u)' = Held(u)
    BY <1>5, <1>6, <1>7, <1>12, <2>1 DEF Held
  <2>4. \A u \in Ues : u = x => Held(u)' <= Held(u) + 1
    BY <1>4, <1>5, <1>6, <1>7, <1>12, <2>1, <2>2 DEF Held
  <2>5. \A u \in Ues : Held(u) \in Nat
    BY <1>0, <1>9, TotalsLemma
  <2>6. PICK y \in Ues : y = x
    BY <1>2
  <2>7. Held(y)' <= Held(y) + 1 /\ \A u \in Ues \ {y} : Held(u)' <= Held(u)
    BY <2>3, <2>4, <2>5, <2>6
  <2>8. c \in Uncounted /\ Uncounted' = Uncounted \ {c}
    BY <1>1, <1>7 DEF Uncounted
  <2>9. (Total(AllHeld) + Cardinality(Uncounted) <= Total(arrived))'
    BY <1>0, <1>7, <1>9, <2>7, <2>8, HeldOneMore
  <2> QED
    BY <1>0, <1>7, <2>9 DEF HeldOnce, AllHeld, Collected
<1> QED
  BY <1>9, <1>10, <1>11, <1>13, <1>14 DEF Inductive

LEMMA DropLemma ==
  ASSUME Inductive, NEW c \in Cpus, Drop(c)
  PROVE  Inductive'
<1>0. TypeOK /\ EntriesAreOwned /\ OverlapsAreNoted /\ CleanAreSafe /\ HeldOnce
  BY DEF Inductive
<1>1. pc[c] = "insert" /\ Leave(c, TRUE) /\ at' = at /\ val' = val
  BY DEF Drop
<1>2. /\ UNCHANGED <<reader, must, keys, metrics, copying, arrived, reported>>
      /\ pc' \in [Cpus -> {"idle", "insert", "addPacket", "addTcp"}]
      /\ pc'[c] = "idle"
      /\ \A d \in Cpus \ {c} : pc'[d] = pc[d] /\ pkt'[d] = pkt[d]
      /\ pkt' \in [Cpus -> Packets \cup {NoPacket}]
      /\ \A d \in Cpus : IF pc'[d] = "idle" THEN pkt'[d] = NoPacket ELSE pkt'[d] \in Packets
      /\ overlapped' \in [Ues -> Nat]
      /\ \A u \in Ues : Clean(u)' = Clean(u)
      /\ \A u \in Ues : Replacing(u)' => Replacing(u)
  BY <1>1, LeaveLemma
<1>3. TypeOK'
  BY <1>0, <1>1, <1>2 DEF TypeOK
<1>4. EntriesAreOwned'
  BY <1>0, <1>1 DEF EntriesAreOwned, Present
<1>5. OverlapsAreNoted'
  BY <1>1, LeaveOverlaps
<1>6. CleanAreSafe'
  <2>1. \A u \in Ues : Counted(u)' = Counted(u) /\ Collected(u)' = Collected(u)
    BY <1>1, <1>2 DEF Counted, Collected
  <2>2. \A d \in Cpus : pc'[d] = "addTcp" => d # c /\ pc[d] = "addTcp" /\ pkt'[d] = pkt[d]
    BY <1>2
  <2> QED
    BY <1>0, <1>1, <1>2, <2>1, <2>2 DEF CleanAreSafe
<1>7. HeldOnce'
  <2>1. \A u \in Ues : Held(u)' = Held(u)
    BY <1>1, <1>2 DEF Held, Doomed, Collected
  <2>2. PICK x \in Ues : x = pkt[c].ue
    BY <1>0, <1>1, PacketLemma
  <2>3. Held(x)' <= Held(x) + 1 /\ \A u \in Ues \ {x} : Held(u)' <= Held(u)
    BY <1>0, <1>3, <2>1, TotalsLemma
  <2>4. c \in Uncounted /\ Uncounted' = Uncounted \ {c}
    BY <1>1, <1>2 DEF Uncounted
  <2>5. (Total(AllHeld) + Cardinality(Uncounted) <= Total(arrived))'
    BY <1>0, <1>2, <1>3, <2>3, <2>4, HeldOneMore
  <2> QED
    BY <1>0, <1>2, <2>5 DEF HeldOnce, AllHeld, Collected
<1> QED
  BY <1>3, <1>4, <1>5, <1>6, <1>7 DEF Inductive

(***************************************************************************)
(* ReadAndReset.                                                           *)
(***************************************************************************)
LEMMA BeginReadLemma ==
  ASSUME Inductive, BeginRead
  PROVE  Inductive'
<1>0. TypeOK /\ EntriesAreOwned /\ OverlapsAreNoted /\ CleanAreSafe /\ HeldOnce
  BY DEF Inductive
<1>1. /\ UNCHANGED <<at, val, pc, copying, arrived, reported, overlapped>>
      /\ reader = "idle" /\ reader' = "next" /\ must' = Present /\ keys' = {}
      /\ metrics' = [u \in Ues |-> Zero]
      /\ pkt' = [c \in Cpus |-> IF pc[c] = "idle" THEN pkt[c] ELSE [pkt[c] EXCEPT !.overlaps = TRUE]]
  BY DEF BeginRead
<1>2. \A c \in Cpus : IF pc[c] = "idle" THEN pkt'[c] = NoPacket
        ELSE /\ pkt'[c] \in Packets /\ pkt'[c].overlaps
             /\ pkt'[c].ue = pkt[c].ue /\ pkt'[c].entry = pkt[c].entry
  <2> SUFFICES ASSUME NEW c \in Cpus
               PROVE  IF pc[c] = "idle" THEN pkt'[c] = NoPacket
                      ELSE /\ pkt'[c] \in Packets /\ pkt'[c].overlaps
                           /\ pkt'[c].ue = pkt[c].ue /\ pkt'[c].entry = pkt[c].entry
    OBVIOUS
  <2>1. CASE pc[c] = "idle"
    BY <1>0, <1>1, <2>1 DEF TypeOK
  <2>2. CASE pc[c] # "idle"
    <3>1. pkt[c] \in Packets
      BY <1>0, <2>2, PacketLemma
    <3>2. pkt'[c] = [pkt[c] EXCEPT !.overlaps = TRUE]
      BY <1>1, <2>2
    <3> QED
      BY <2>2, <3>1, <3>2 DEF Packets
  <2> QED
    BY <2>1, <2>2
<1>3. TypeOK'
  <2>1. /\ metrics' \in [Ues -> Counters] /\ Present \subseteq Ues
        /\ \A u \in Ues : metrics'[u].packets = 0
    BY <1>1 DEF Counters, Zero, Present
  <2>2. pkt' \in [Cpus -> Packets \cup {NoPacket}]
    BY <1>1, <1>2
  <2> QED
    BY <1>0, <1>1, <1>2, <2>1, <2>2 DEF TypeOK
<1>4. EntriesAreOwned'
  BY <1>0, <1>1 DEF EntriesAreOwned, Present
<1>5. OverlapsAreNoted'
  BY <1>0, <1>1, <1>2 DEF OverlapsAreNoted
<1>6. \A u \in Ues : /\ ~ Collected(u)' /\ metrics'[u].packets = 0
                     /\ Counted(u)' = Counted(u)
                     /\ Replacing(u)' => Replacing(u)
  BY <1>1, <1>2 DEF Collected, Zero, Counted, Replacing
<1>7. \A u \in Ues : Clean(u)' = Clean(u)
  <2>1. \A u \in Ues : InFlight(u)' = InFlight(u)
    BY <1>1, <1>2 DEF InFlight, SameUe
  <2> QED
    BY <1>1, <2>1 DEF Clean
<1>8. CleanAreSafe'
  <2> SUFFICES ASSUME NEW u \in Ues
               PROVE  \/ Clean(u)' <= reported'[u]
                      \/ /\ u \in must' /\ at'[u] # NoEntry
                         /\ ~ Collected(u)' /\ ~ Replacing(u)'
                         /\ Clean(u)' <= Counted(u)'
    BY <1>1 DEF CleanAreSafe
  <2>1. CASE Replacing(u)
    BY <1>0, <1>1, <1>7, <2>1 DEF CleanAreSafe
  <2>2. CASE at[u] = NoEntry
    <3>1. Counted(u) = reported[u]
      BY <1>0, <2>2 DEF Counted, TypeOK
    <3> QED
      BY <1>0, <1>1, <1>7, <3>1 DEF CleanAreSafe
  <2>3. CASE ~ Replacing(u) /\ at[u] # NoEntry
    BY <1>0, <1>1, <1>6, <1>7, <2>3 DEF CleanAreSafe, Present
  <2> QED
    BY <2>1, <2>2, <2>3
<1>9. HeldOnce'
  <2>1. \A u \in Ues : Held(u)' = Held(u)
    BY <1>1, <1>6 DEF Held, Doomed
  <2>2. \A u \in Ues : Held(u)' <= Held(u)
    BY <1>0, <1>3, <2>1, TotalsLemma
  <2>3. Uncounted' = Uncounted
    BY <1>1 DEF Uncounted
  <2>4. (Total(AllHeld) + Cardinality(Uncounted) <= Total(arrived))'
    BY <1>0, <1>1, <1>3, <2>2, <2>3, HeldNoMore
  <2> QED
    BY <1>6, <2>4 DEF HeldOnce, AllHeld
<1> QED
  BY <1>3, <1>4, <1>5, <1>8, <1>9 DEF Inductive

\* While ReadAndReset runs, its steps leave the packets alone.
LEMMA ReaderKeeps ==
  ASSUME Inductive, reader # "idle", UNCHANGED <<pc, pkt, arrived, overlapped>>
  PROVE  /\ \A u \in Ues : Clean(u)' = Clean(u) /\ Clean(u) \in Int /\ (Replacing(u)' <=> Replacing(u))
         /\ Uncounted' = Uncounted
         /\ \A c \in Cpus : pc[c] # "idle" => pkt[c].overlaps
         /\ OverlapsAreNoted'
<1>1. TypeOK /\ OverlapsAreNoted
  BY DEF Inductive
<1>2. \A u \in Ues : InFlight(u)' = InFlight(u)
  BY DEF InFlight, SameUe
<1>3. \A u \in Ues : arrived[u] \in Nat /\ overlapped[u] \in Nat /\ Cardinality(InFlight(u)) \in Nat
  BY <1>1, UncountedFinite DEF TypeOK
<1>4. \A u \in Ues : Clean(u)' = Clean(u) /\ Clean(u) \in Int
  BY <1>2, <1>3 DEF Clean
<1>5. Uncounted' = Uncounted /\ \A u \in Ues : Replacing(u)' <=> Replacing(u)
  BY DEF Uncounted, Replacing
<1>6. (\A c \in Cpus : pc[c] # "idle" => pkt[c].overlaps) /\ OverlapsAreNoted'
  BY <1>1 DEF OverlapsAreNoted
<1> QED
  BY <1>4, <1>5, <1>6

LEMMA ReadPacketsLemma ==
  ASSUME Inductive, NEW x \in Ues, ReadPackets(x)
  PROVE  Inductive'
<1>0. TypeOK /\ EntriesAreOwned /\ OverlapsAreNoted /\ CleanAreSafe /\ HeldOnce
  BY DEF Inductive
<1>1. /\ UNCHANGED <<at, val, pc, pkt, must, keys, arrived, reported, overlapped>>
      /\ reader = "next" /\ reader' = "copy" /\ at[x] # NoEntry /\ x \notin keys
      /\ copying' = [ue |-> x, entry |-> at[x]]
      /\ metrics' = [metrics EXCEPT ![x].packets = val[at[x]].packets]
  BY DEF ReadPackets, cpuVars, Present
<1>2. at[x] \in Entries /\ val[at[x]] \in Counters
  BY <1>0, <1>1 DEF TypeOK
<1>3. /\ metrics' \in [Ues -> Counters] /\ metrics'[x].packets = val[at[x]].packets
      /\ \A u \in Ues \ {x} : metrics'[u] = metrics[u]
  BY <1>0, <1>1, <1>2 DEF TypeOK, Counters
<1>4. /\ \A u \in Ues : Clean(u)' = Clean(u) /\ Clean(u) \in Int /\ (Replacing(u)' <=> Replacing(u))
      /\ Uncounted' = Uncounted /\ OverlapsAreNoted'
  BY <1>1, ReaderKeeps
<1>5. TypeOK'
  BY <1>0, <1>1, <1>2, <1>3 DEF TypeOK
<1>6. EntriesAreOwned'
  BY <1>0, <1>1 DEF EntriesAreOwned, Present
<1>7. /\ \A u \in Ues \ {x} : Collected(u)' <=> Collected(u)
      /\ ~ Collected(x) /\ Collected(x)'
      /\ \A u \in Ues : Counted(u)' = Counted(u)
  BY <1>1 DEF Collected, Counted
<1>8. Counted(x) = reported[x] + val[at[x]].packets
  BY <1>1 DEF Counted
<1>9. CleanAreSafe'
  BY <1>0, <1>1, <1>3, <1>4, <1>7, <1>8 DEF CleanAreSafe
<1>10. HeldOnce'
  <2>1. metrics[x].packets = 0 /\ \A u \in Ues \ {x} : Collected(u) \/ metrics[u].packets = 0
    BY <1>0, <1>1, <1>7 DEF HeldOnce
  <2>2. \A u \in Ues : u # x => Held(u)' = Held(u)
    BY <1>1, <1>3, <1>7 DEF Held, Doomed
  <2>3. Held(x)' = Held(x)
    <3>1. ~ Doomed(x) /\ Doomed(x)'
      BY <1>1, <1>7 DEF Doomed
    <3>2. reported[x] \in Nat /\ val[at[x]].packets \in Nat
      BY <1>0, <1>2 DEF TypeOK, Counters
    <3> QED
      BY <1>1, <1>3, <2>1, <3>1, <3>2 DEF Held
  <2>4. \A u \in Ues : Held(u)' <= Held(u)
    BY <1>0, <1>5, <2>2, <2>3, TotalsLemma
  <2>5. (Total(AllHeld) + Cardinality(Uncounted) <= Total(arrived))'
    BY <1>0, <1>1, <1>4, <1>5, <2>4, HeldNoMore
  <2> QED
    BY <1>3, <1>7, <2>1, <2>5 DEF HeldOnce, AllHeld
<1> QED
  BY <1>4, <1>5, <1>6, <1>9, <1>10 DEF Inductive

LEMMA ReadTcpLemma ==
  ASSUME Inductive, ReadTcp
  PROVE  Inductive'
<1>0. TypeOK /\ EntriesAreOwned /\ OverlapsAreNoted /\ CleanAreSafe /\ HeldOnce
  BY DEF Inductive
<1>1. /\ UNCHANGED <<at, val, pc, pkt, must, arrived, reported, overlapped>>
      /\ reader = "copy" /\ reader' = "next" /\ keys' = keys \cup {copying.ue}
      /\ metrics' = [metrics EXCEPT ![copying.ue].tcp = val[copying.entry].tcp]
  BY DEF ReadTcp, cpuVars
<1>2. copying.ue \in Ues /\ val[copying.entry] \in Counters
  BY <1>0, <1>1 DEF TypeOK
<1>3. metrics' \in [Ues -> Counters] /\ \A u \in Ues : metrics'[u].packets = metrics[u].packets
  BY <1>0, <1>1, <1>2 DEF TypeOK, Counters
<1>4. /\ \A u \in Ues : Clean(u)' = Clean(u) /\ Clean(u) \in Int /\ (Replacing(u)' <=> Replacing(u))
      /\ Uncounted' = Uncounted /\ OverlapsAreNoted'
  BY <1>1, ReaderKeeps
<1>5. TypeOK'
  BY <1>0, <1>1, <1>2, <1>3 DEF TypeOK
<1>6. EntriesAreOwned'
  BY <1>0, <1>1 DEF EntriesAreOwned, Present
<1>7. \A u \in Ues : (Collected(u)' <=> Collected(u)) /\ Counted(u)' = Counted(u)
  BY <1>1 DEF Collected, Counted
<1>8. CleanAreSafe'
  BY <1>0, <1>1, <1>3, <1>4, <1>7 DEF CleanAreSafe
<1>9. HeldOnce'
  <2>1. \A u \in Ues : Held(u)' = Held(u)
    BY <1>1, <1>3, <1>7 DEF Held, Doomed
  <2>2. \A u \in Ues : Held(u)' <= Held(u)
    BY <1>0, <1>5, <2>1, TotalsLemma
  <2>3. (Total(AllHeld) + Cardinality(Uncounted) <= Total(arrived))'
    BY <1>0, <1>1, <1>4, <1>5, <2>2, HeldNoMore
  <2> QED
    BY <1>0, <1>1, <1>3, <1>7, <2>3 DEF HeldOnce, AllHeld
<1> QED
  BY <1>4, <1>5, <1>6, <1>8, <1>9 DEF Inductive

LEMMA EndIterationLemma ==
  ASSUME Inductive, EndIteration
  PROVE  Inductive'
<1>0. TypeOK /\ EntriesAreOwned /\ OverlapsAreNoted /\ CleanAreSafe /\ HeldOnce
  BY DEF Inductive
<1>1. /\ UNCHANGED <<at, val, pc, pkt, keys, metrics, copying, arrived, reported, overlapped>>
      /\ reader = "next" /\ reader' = "delete" /\ must' = keys /\ must \subseteq keys
  BY DEF EndIteration, cpuVars
<1>2. /\ \A u \in Ues : Clean(u)' = Clean(u) /\ Clean(u) \in Int /\ (Replacing(u)' <=> Replacing(u))
      /\ Uncounted' = Uncounted /\ OverlapsAreNoted'
  BY <1>1, ReaderKeeps
<1>3. TypeOK'
  BY <1>0, <1>1 DEF TypeOK
<1>4. EntriesAreOwned'
  BY <1>0, <1>1 DEF EntriesAreOwned, Present
<1>5. \A u \in Ues : /\ (Collected(u)' <=> Collected(u)) /\ (Collected(u) <=> u \in keys)
                     /\ reported[u] \in Nat /\ metrics[u].packets \in Nat
  BY <1>0, <1>1 DEF Collected, TypeOK, Counters
<1>6. CleanAreSafe'
  BY <1>0, <1>1, <1>2, <1>5 DEF CleanAreSafe
<1>7. HeldOnce'
  <2>1. \A u \in Ues : Held(u)' = Held(u)
    BY <1>1, <1>5 DEF Held, Doomed
  <2>2. \A u \in Ues : Held(u)' <= Held(u)
    BY <1>0, <1>3, <2>1, TotalsLemma
  <2>3. (Total(AllHeld) + Cardinality(Uncounted) <= Total(arrived))'
    BY <1>0, <1>1, <1>2, <1>3, <2>2, HeldNoMore
  <2> QED
    BY <1>0, <1>1, <1>5, <2>3 DEF HeldOnce, AllHeld
<1> QED
  BY <1>2, <1>3, <1>4, <1>6, <1>7 DEF Inductive

LEMMA DeleteLemma ==
  ASSUME Inductive, NEW x \in Ues, Delete(x)
  PROVE  Inductive'
<1>0. TypeOK /\ EntriesAreOwned /\ OverlapsAreNoted /\ CleanAreSafe /\ HeldOnce
  BY DEF Inductive
<1>1. /\ UNCHANGED <<val, pc, pkt, reader, keys, metrics, copying, arrived, reported, overlapped>>
      /\ reader = "delete" /\ x \in must /\ must' = must \ {x}
      /\ at' = [at EXCEPT ![x] = NoEntry]
  BY DEF Delete, cpuVars
<1>2. /\ \A u \in Ues : Clean(u)' = Clean(u) /\ Clean(u) \in Int /\ (Replacing(u)' <=> Replacing(u))
      /\ Uncounted' = Uncounted /\ OverlapsAreNoted'
  BY <1>1, ReaderKeeps
<1>3. /\ at' \in [Ues -> Entries \cup {NoEntry}] /\ at'[x] = NoEntry
      /\ \A u \in Ues \ {x} : at'[u] = at[u]
  BY <1>0, <1>1 DEF TypeOK
<1>4. TypeOK'
  BY <1>0, <1>1, <1>3 DEF TypeOK
<1>5. EntriesAreOwned'
  <2>1. Present' \subseteq Present /\ \A u \in Present' : at'[u] = at[u]
    BY <1>3 DEF Present
  <2>2. Cardinality(Present') <= Cardinality(Present) /\ Cardinality(Present') \in Nat
    BY <2>1, PresentFinite, FS_Subset, FS_CardinalityType
  <2>3. Cardinality(Present') <= MaxEntries
    BY <1>0, <2>2, PresentFinite, MetricsAssumption DEF EntriesAreOwned
  <2> QED
    BY <1>0, <2>1, <2>3 DEF EntriesAreOwned
<1>6. CleanAreSafe'
  BY <1>0, <1>1, <1>2 DEF CleanAreSafe
<1>7. HeldOnce'
  <2>1. \A u \in Ues : u # x => Held(u)' = Held(u)
    BY <1>1, <1>3 DEF Held, Doomed
  <2>2. Held(x)' = Held(x)
    BY <1>1, <1>3 DEF Held, Doomed
  <2>3. \A u \in Ues : Held(u)' <= Held(u)
    BY <1>0, <1>4, <2>1, <2>2, TotalsLemma
  <2>4. (Total(AllHeld) + Cardinality(Uncounted) <= Total(arrived))'
    BY <1>0, <1>1, <1>2, <1>4, <2>3, HeldNoMore
  <2> QED
    BY <1>0, <1>1, <2>4 DEF HeldOnce, AllHeld, Collected
<1> QED
  BY <1>2, <1>4, <1>5, <1>6, <1>7 DEF Inductive

LEMMA ReturnLemma ==
  ASSUME Inductive, Return
  PROVE  Inductive'
<1>0. TypeOK /\ EntriesAreOwned /\ OverlapsAreNoted /\ CleanAreSafe /\ HeldOnce
  BY DEF Inductive
<1>1. /\ UNCHANGED <<at, val, pc, pkt, must, keys, metrics, copying, arrived, overlapped>>
      /\ reader = "delete" /\ must = {} /\ reader' = "idle"
      /\ reported' = [u \in Ues |-> reported[u] + metrics[u].packets]
  BY DEF Return, cpuVars
<1>2. /\ \A u \in Ues : Clean(u)' = Clean(u) /\ Clean(u) \in Int /\ (Replacing(u)' <=> Replacing(u))
      /\ Uncounted' = Uncounted /\ OverlapsAreNoted'
      /\ \A c \in Cpus : pc[c] # "idle" => pkt[c].overlaps
  BY <1>1, ReaderKeeps
<1>3. \A u \in Ues : /\ reported[u] \in Nat /\ metrics[u].packets \in Nat
                     /\ reported'[u] = reported[u] + metrics[u].packets
                     /\ at[u] # NoEntry => val[at[u]].packets \in Nat
  BY <1>0, <1>1 DEF TypeOK, Counters
<1>4. TypeOK'
  <2>1. reported' \in [Ues -> Nat]
    BY <1>1, <1>3
  <2> QED
    BY <1>0, <1>1, <2>1 DEF TypeOK
<1>5. EntriesAreOwned'
  BY <1>0, <1>1 DEF EntriesAreOwned, Present
<1>6. CleanAreSafe'
  <2>1. \A u \in Ues : Clean(u)' <= reported'[u]
    BY <1>0, <1>1, <1>2, <1>3 DEF CleanAreSafe
  <2>2. \A u \in Ues : Counted(u)' \in Int /\ Counted(u)' >= reported'[u] /\ reported'[u] \in Nat
    BY <1>1, <1>3 DEF Counted
  <2> QED
    BY <1>1, <1>2, <2>1, <2>2 DEF CleanAreSafe
<1>7. HeldOnce'
  <2>1. \A u \in Ues : Held(u)' = Held(u)
    BY <1>1, <1>3 DEF Held, Doomed
  <2>2. \A u \in Ues : Held(u)' <= Held(u)
    BY <1>0, <1>4, <2>1, TotalsLemma
  <2>3. (Total(AllHeld) + Cardinality(Uncounted) <= Total(arrived))'
    BY <1>0, <1>1, <1>2, <1>4, <2>2, HeldNoMore
  <2> QED
    BY <1>1, <2>3 DEF HeldOnce, AllHeld
<1> QED
  BY <1>2, <1>4, <1>5, <1>6, <1>7 DEF Inductive

(***************************************************************************)
(* The theorems.                                                           *)
(***************************************************************************)
LEMMA StepLemma == Inductive /\ [Next]_vars => Inductive'
<1> SUFFICES ASSUME Inductive, [Next]_vars
             PROVE  Inductive'
  OBVIOUS
<1>1. CASE BeginRead
  BY <1>1, BeginReadLemma
<1>2. CASE ReadTcp
  BY <1>2, ReadTcpLemma
<1>3. CASE EndIteration
  BY <1>3, EndIterationLemma
<1>4. CASE Return
  BY <1>4, ReturnLemma
<1>5. ASSUME NEW u \in Ues, ReadPackets(u) \/ Delete(u)
      PROVE  Inductive'
  BY <1>5, ReadPacketsLemma, DeleteLemma
<1>6. ASSUME NEW c \in Cpus, Cpu(c)
      PROVE  Inductive'
  BY <1>6, LookupLemma, AddPacketLemma, AddTcpLemma, InsertLemma, DropLemma DEF Cpu
<1>7. CASE UNCHANGED vars
  <2>1. UNCHANGED <<at, val, pc, pkt, reader, must, keys, metrics, copying, arrived, reported, overlapped>>
    BY <1>7 DEF vars, cpuVars, readVars
  <2>2. TypeOK' /\ EntriesAreOwned' /\ OverlapsAreNoted'
    BY <2>1 DEF Inductive, TypeOK, EntriesAreOwned, Present, OverlapsAreNoted, SameUe
  <2>3. CleanAreSafe'
    BY <2>1 DEF Inductive, CleanAreSafe, Clean, InFlight, SameUe, Counted, Replacing, Collected
  <2>4. HeldOnce'
    <3>1. AllHeld' = AllHeld /\ Uncounted' = Uncounted
      BY <2>1 DEF AllHeld, Held, Doomed, Collected, Uncounted
    <3> QED
      BY <2>1, <3>1 DEF Inductive, HeldOnce, AllHeld, Collected
  <2> QED
    BY <2>2, <2>3, <2>4 DEF Inductive
<1> QED
  BY <1>1, <1>2, <1>3, <1>4, <1>5, <1>6, <1>7 DEF Next, Reader

\* Every reachable state satisfies Inductive: among the rest, an entry
\* belongs to one UE and the map keeps to max_entries, whatever CPUs race to
\* insert and whatever entries the kernel hands out again.
THEOREM InductiveHolds == Spec => []Inductive
<1> QED
  BY InitLemma, StepLemma, PTL DEF Spec

\* Between two calls of ReadAndReset, no more packets are reported or waiting
\* in the map than the programs processed, for any CPUs and UEs.
THEOREM NeverOvercountedHolds == Spec => []NeverOvercounted
<1>1. Inductive => NeverOvercounted
  <2> SUFFICES ASSUME Inductive, reader = "idle"
               PROVE  Total([u \in Ues |-> Counted(u)]) <= Total(arrived)
    BY DEF NeverOvercounted
  <2>1. TypeOK /\ HeldOnce
    BY DEF Inductive
  <2>2. \A u \in Ues : Held(u) = Counted(u)
    <3>1. \A u \in Ues : reported[u] \in Nat /\ ~ Doomed(u)
      BY <2>1 DEF TypeOK, Doomed
    <3> QED
      BY <3>1 DEF Held, Counted
  <2>3. [u \in Ues |-> Counted(u)] = AllHeld
    BY <2>2 DEF AllHeld
  <2>4. /\ Total(AllHeld) + Cardinality(Uncounted) <= Total(arrived)
        /\ Total(AllHeld) \in Nat /\ Total(arrived) \in Nat /\ Cardinality(Uncounted) \in Nat
    BY <2>1, HeldType, TotalType, UncountedFinite DEF HeldOnce, AllHeld, TypeOK
  <2> QED
    BY <2>3, <2>4
<1> QED
  BY <1>1, InductiveHolds, PTL

\* When none of a UE's packets is in progress and the reader sleeps, those
\* that are missing met another CPU, ReadAndReset or a full map.
THEOREM LossIsBoundedHolds == Spec => []LossIsBounded
<1>1. Inductive => LossIsBounded
  <2> SUFFICES ASSUME Inductive, NEW u \in Ues, reader = "idle", \A c \in Cpus : ~ SameUe(c, u)
               PROVE  arrived[u] - Counted(u) <= overlapped[u]
    BY DEF LossIsBounded
  <2>1. TypeOK /\ CleanAreSafe
    BY DEF Inductive
  <2>2. Cardinality(InFlight(u)) = 0
    <3>1. InFlight(u) = {}
      BY DEF InFlight
    <3> QED
      BY <3>1, FS_EmptySet
  <2>3. Clean(u) <= Counted(u)
    BY <2>1 DEF CleanAreSafe
  <2>4. arrived[u] \in Nat /\ overlapped[u] \in Nat /\ Counted(u) \in Nat
    BY <2>1 DEF TypeOK, Counted, Counters
  <2> QED
    BY <2>2, <2>3, <2>4 DEF Clean
<1> QED
  BY <1>1, InductiveHolds, PTL


(***************************************************************************)
(* Window: arithmetic.                                                     *)
(***************************************************************************)
LEMMA DivLemma ==
  ASSUME NEW a \in Nat, NEW d \in Nat \ {0}
  PROVE  a \div d \in Nat /\ d * (a \div d) <= a /\ a < d * (a \div d) + d
BY SMT

LEMMA RatioLemma ==
  ASSUME NEW a \in Nat, NEW b \in Nat
  PROVE  /\ Ratio(a, b) \in Nat
         /\ b = 0 => Ratio(a, b) = 0
         /\ b # 0 /\ b <= a => Ratio(a, b) >= 1
<1>1. CASE b = 0
  BY <1>1 DEF Ratio
<1>2. CASE b # 0
  <2>1. PICK x \in Nat, y \in Nat \ {0} : x = 2 * (100 * a) + b /\ y = 2 * b
    BY <1>2
  <2>2. Ratio(a, b) = x \div y
    BY <1>2, <2>1 DEF Ratio, Rounded
  <2>3. PICK q : q = x \div y
    OBVIOUS
  <2>4. q \in Nat /\ x < y * q + y
    BY <2>1, <2>3, DivLemma
  <2>5. b <= a => q >= 1
    <3> SUFFICES ASSUME b <= a, q = 0
                 PROVE  FALSE
      BY <2>4
    <3>1. y * q = 0
      BY <2>1
    <3>2. x < y
      BY <2>1, <2>4, <3>1
    <3> QED
      BY <1>2, <2>1, <3>2
  <2> QED
    BY <1>2, <2>2, <2>3, <2>4, <2>5
<1> QED
  BY <1>1, <1>2

LEMMA NoFanOut == Ratio(0, 64) = 0
<1>1. Ratio(0, 64) = 64 \div 128
  BY DEF Ratio, Rounded
<1>2. PICK q : q = 64 \div 128
  OBVIOUS
<1>3. q \in Nat /\ 128 * q <= 64
  BY <1>2, DivLemma
<1> QED
  BY <1>1, <1>2, <1>3

LEMMA CapLemma ==
  ASSUME NEW n \in Nat
  PROVE  Min({100, n}) = IF n < 100 THEN n ELSE 100
<1> DEFINE l == IF n < 100 THEN n ELSE 100
<1>1. l \in {100, n} /\ \A y \in {100, n} : l =< y
  OBVIOUS
<1>2. \A x \in {100, n} : (\A y \in {100, n} : x =< y) => x = l
  OBVIOUS
<1> HIDE DEF l
<1>3. (CHOOSE x \in {100, n} : \A y \in {100, n} : x =< y) = l
  BY <1>1, <1>2
<1> QED
  BY <1>3 DEF Min, l

LEMMA DstsLemma ==
  ASSUME NEW c \in UeMetrics
  PROVE  IsFiniteSet(c.dsts) /\ Cardinality(c.dsts) \in Nat
<1>1. c.dsts \subseteq 0..63
  BY DEF UeMetrics
<1>2. IsFiniteSet(0..63)
  <2>1. 0 \in Int /\ 63 \in Int
    OBVIOUS
  <2> QED
    BY <2>1, FS_Interval
<1> QED
  BY <1>1, <1>2, FS_Subset, FS_CardinalityType

\* The features of some counters are numbers, and tell whether there was a
\* packet.
LEMMA FeaturesLemma ==
  ASSUME NEW c \in UeMetrics, c.packets <= MaxArrivals, c.dlPackets <= MaxArrivals,
         c.packets <= c.bytes, Cardinality(c.dsts) <= c.packets
  PROVE  /\ Features(c) \in [FeatureNames -> Nat]
         /\ Active(Features(c)) <=> c.packets > 0
         /\ IsEmptyRecord(Features(c)) <=> c.packets = 0
<1>1. /\ c.packets \in Nat /\ c.bytes \in Nat /\ c.tcp \in Nat /\ c.udp \in Nat /\ c.icmp \in Nat
      /\ c.syn \in Nat /\ c.rst \in Nat /\ c.flows \in Nat /\ c.dlPackets \in Nat
      /\ c.dlBytes \in Nat /\ c.dlTcp \in Nat /\ c.dlAck \in Nat
  BY DEF UeMetrics
<1>2. Cardinality(c.dsts) \in Nat
  BY DstsLemma
<1>3. \A n \in Nat : n <= MaxArrivals => LogOf(n) \in Nat /\ (n = 0 => LogOf(n) = 0)
  BY WindowAssumption DEF LogOf
<1>4. LogOf(c.packets) \in Nat /\ LogOf(c.dlPackets) \in Nat /\ (c.packets = 0 => LogOf(c.packets) = 0)
  BY <1>1, <1>3
<1>5. \A a, b \in Nat : Ratio(a, b) \in Nat /\ (b = 0 => Ratio(a, b) = 0)
  BY RatioLemma
<1>6. PICK rate \in Nat : rate = Min({100, Ratio(c.flows, c.packets)}) /\ (c.packets = 0 => rate = 0)
  <2>1. PICK n \in Nat : n = Ratio(c.flows, c.packets) /\ (c.packets = 0 => n = 0)
    BY <1>1, <1>5
  <2> QED
    BY <2>1, CapLemma
<1>7. PICK len \in Nat : len = Ratio(c.bytes, c.packets) /\ (len = 0 <=> c.packets = 0)
  <2>1. PICK a \in Nat, b \in Nat : a = c.bytes /\ b = c.packets /\ b <= a
    BY <1>1
  <2>2. PICK len \in Nat : len = Ratio(a, b)
    BY RatioLemma
  <2>3. (b = 0 => len = 0) /\ (b # 0 /\ b <= a => len >= 1)
    <3>1. b = 0 => Ratio(a, b) = 0
      BY RatioLemma
    <3>2. b # 0 /\ b <= a => Ratio(a, b) >= 1
      BY RatioLemma
    <3> QED
      BY <2>2, <3>1, <3>2
  <2> QED
    BY <2>1, <2>2, <2>3
<1>8. c.packets = 0 => Ratio(Cardinality(c.dsts), 64) = 0
  <2>1. c.packets = 0 => Cardinality(c.dsts) = 0
    BY <1>1, <1>2
  <2> QED
    BY <2>1, NoFanOut
<1> HIDE DEF Ratio, LogOf
<1>9. /\ Features(c).UlLogPPS = LogOf(c.packets) /\ Features(c).AvgLen = Ratio(c.bytes, c.packets)
      /\ Features(c).NewFlowRate = rate /\ Features(c).IcmpRatio = Ratio(c.icmp, c.packets)
      /\ Features(c).TcpRatio = Ratio(c.tcp, c.packets) /\ Features(c).UdpRatio = Ratio(c.udp, c.packets)
      /\ Features(c).SynRatio = Ratio(c.syn, c.packets) /\ Features(c).RstRatio = Ratio(c.rst, c.packets)
      /\ Features(c).FanOut = Ratio(Cardinality(c.dsts), 64)
  BY <1>6 DEF Features
<1>10. Active(Features(c)) <=> c.packets > 0
  <2>1. Active(Features(c)) <=> ~ (LogOf(c.packets) = 0 /\ len = 0 /\ rate = 0)
    BY <1>7, <1>9 DEF Active
  <2> QED
    BY <1>1, <1>4, <1>6, <1>7, <2>1
<1>11. IsEmptyRecord(Features(c)) <=> c.packets = 0
  <2>1. c.packets = 0 => IsEmptyRecord(Features(c))
    BY <1>1, <1>4, <1>5, <1>6, <1>8, <1>9, ZenonT(40) DEF IsEmptyRecord
  <2>2. c.packets # 0 => ~ IsEmptyRecord(Features(c))
    <3>1. c.packets # 0 => Features(c).AvgLen # 0
      BY <1>7, <1>9
    <3> QED
      BY <3>1 DEF IsEmptyRecord
  <2> QED
    BY <2>1, <2>2
<1>12. Features(c) \in [FeatureNames -> Nat]
  <2>1. /\ Ratio(c.bytes, c.packets) \in Nat /\ Ratio(c.icmp, c.packets) \in Nat
        /\ Ratio(c.tcp, c.packets) \in Nat /\ Ratio(c.udp, c.packets) \in Nat
        /\ Ratio(c.syn, c.packets) \in Nat /\ Ratio(c.rst, c.packets) \in Nat
        /\ Ratio(Cardinality(c.dsts), 64) \in Nat /\ Ratio(c.dlBytes, c.dlPackets) \in Nat
        /\ Ratio(c.dlPackets, c.packets) \in Nat /\ Ratio(c.dlBytes, c.bytes) \in Nat
        /\ Ratio(c.dlAck, c.dlTcp) \in Nat
    BY <1>1, <1>2, <1>5
  <2> QED
    BY <1>4, <1>6, <2>1 DEF Features, FeatureNames
<1> QED
  BY <1>10, <1>11, <1>12


(***************************************************************************)
(* Averages.                                                               *)
(***************************************************************************)
\* A sum of n numbers is at least, or at most, n times their bound.
LEMMA SumBounds ==
  ASSUME NEW D, IsFiniteSet(D), NEW vs \in [D -> Nat], NEW k \in Nat
  PROVE  /\ (\A u \in D : vs[u] >= k) => Cardinality(Units(vs, D)) >= Cardinality(D) * k
         /\ (\A u \in D : vs[u] <= k) => Cardinality(Units(vs, D)) <= Cardinality(D) * k
<1> DEFINE B == D \X (0..(k - 1))
<1>1. IsFiniteSet(Units(vs, D)) /\ Cardinality(Units(vs, D)) \in Nat /\ Cardinality(D) \in Nat
  BY UnitsFinite, FS_CardinalityType
<1>2. IsFiniteSet(0..(k - 1)) /\ Cardinality(0..(k - 1)) = k
  <2>1. 0 \in Int /\ k - 1 \in Int
    OBVIOUS
  <2> QED
    BY <2>1, FS_Interval
<1>3. IsFiniteSet(B) /\ Cardinality(B) = Cardinality(D) * k
  BY <1>2, FS_Product
<1>4. ASSUME \A u \in D : vs[u] >= k
      PROVE  Cardinality(Units(vs, D)) >= Cardinality(D) * k
  <2>1. B \subseteq Units(vs, D)
    <3> SUFFICES ASSUME NEW p \in B
                 PROVE  p \in D \X Nat /\ p[2] < vs[p[1]]
      BY DEF Units
    <3>1. p[1] \in D /\ p[2] \in 0..(k - 1) /\ p \in D \X Nat
      OBVIOUS
    <3>2. vs[p[1]] \in Nat /\ vs[p[1]] >= k
      BY <1>4, <3>1
    <3> QED
      BY <3>1, <3>2
  <2> HIDE DEF B
  <2>2. Cardinality(B) <= Cardinality(Units(vs, D)) /\ Cardinality(B) \in Nat
    BY <1>1, <1>3, <2>1, FS_Subset, FS_CardinalityType
  <2> QED
    BY <1>1, <1>3, <2>2
<1>5. ASSUME \A u \in D : vs[u] <= k
      PROVE  Cardinality(Units(vs, D)) <= Cardinality(D) * k
  <2>1. Units(vs, D) \subseteq B
    <3> SUFFICES ASSUME NEW p \in D \X Nat, p[2] < vs[p[1]]
                 PROVE  p \in B
      BY DEF Units
    <3>1. p[1] \in D /\ p[2] \in Nat /\ p = <<p[1], p[2]>>
      OBVIOUS
    <3>2. vs[p[1]] \in Nat /\ vs[p[1]] <= k
      BY <1>5, <3>1
    <3>3. p[2] \in 0..(k - 1)
      BY <3>1, <3>2
    <3> QED
      BY <3>1, <3>3
  <2> HIDE DEF B
  <2> QED
    BY <1>3, <2>1, FS_Subset
<1> QED
  BY <1>4, <1>5

\* An average is no less than all of the numbers, nor more than all of them,
\* although it is rounded.
LEMMA AverageLemma ==
  ASSUME NEW D, IsFiniteSet(D), D # {}, NEW vs \in [D -> Nat]
  PROVE  /\ Average(vs) \in Nat
         /\ \E u \in D : vs[u] <= Average(vs)
         /\ \E u \in D : vs[u] >= Average(vs)
<1>1. PICK n : n = Cardinality(D)
  OBVIOUS
<1>2. n \in Nat \ {0}
  BY <1>1, FS_CardinalityType, FS_EmptySet
<1>3. PICK s : s = Cardinality(Units(vs, D))
  OBVIOUS
<1>4. s \in Nat
  BY <1>3, UnitsFinite, FS_CardinalityType
<1>5. Average(vs) = (2 * s + n) \div (2 * n)
  <2>1. DOMAIN vs = D
    OBVIOUS
  <2>2. MapThenSumSet(LAMBDA u : vs[u], D) = s
    BY <1>3, SumIsCardinality
  <2> QED
    BY <1>1, <2>1, <2>2 DEF Average, Rounded
<1>6. PICK a \in Nat, d \in Nat \ {0} : a = 2 * s + n /\ d = 2 * n
  BY <1>2, <1>4
<1>7. PICK q : q = a \div d
  OBVIOUS
<1>8. q \in Nat /\ d * q <= a /\ a < d * q + d
  BY <1>6, <1>7, DivLemma
<1>9. PICK nq \in Nat : nq = n * q
  BY <1>2, <1>8
<1>10. d * q = 2 * nq
  BY <1>2, <1>6, <1>8, <1>9
<1>11. 2 * nq <= 2 * s + n /\ 2 * s + n < 2 * nq + 2 * n
  BY <1>6, <1>8, <1>10
<1>12. \A u \in D : vs[u] \in Nat
  OBVIOUS
<1>13. \E u \in D : vs[u] <= q
  <2> SUFFICES ASSUME \A u \in D : vs[u] >= q + 1
               PROVE  FALSE
    BY <1>8, <1>12
  <2>1. PICK k \in Nat : k = q + 1
    BY <1>8
  <2>2. s >= n * k
    BY <1>1, <1>3, <2>1, SumBounds
  <2>3. n * k = nq + n
    BY <1>2, <1>8, <1>9, <2>1
  <2> QED
    BY <1>2, <1>4, <1>9, <1>11, <2>2, <2>3
<1>14. \E u \in D : vs[u] >= q
  <2> SUFFICES ASSUME \A u \in D : vs[u] < q
               PROVE  FALSE
    BY <1>8, <1>12
  <2>1. PICK u \in D : TRUE
    OBVIOUS
  <2>2. q # 0
    BY <1>8, <1>12, <2>1
  <2>3. PICK k \in Nat : k = q - 1
    BY <1>8, <2>2
  <2>4. \A v \in D : vs[v] <= k
    BY <1>8, <1>12, <2>3
  <2>5. s <= n * k
    BY <1>1, <1>3, <2>4, SumBounds
  <2>6. n * k = nq - n
    BY <1>2, <1>8, <1>9, <2>3
  <2> QED
    BY <1>2, <1>4, <1>9, <1>11, <2>5, <2>6
<1> QED
  BY <1>5, <1>6, <1>7, <1>8, <1>13, <1>14


\* What processBatch makes of the records, with the active ones among them.
LEMMA GlobalsLemma ==
  ASSUME NEW rs \in [KnownUes -> [FeatureNames -> Nat]], NEW us, us = {u \in KnownUes : Active(rs[u])}
  PROVE  /\ us = {} => Globals(rs) = NoStats
         /\ us # {} =>
              /\ Globals(rs) \in [UlAverages \cup DlAverages -> Nat]
              /\ \A f \in UlAverages : /\ \E u \in us : rs[u][f] <= Globals(rs)[f]
                                       /\ \E u \in us : rs[u][f] >= Globals(rs)[f]
              /\ \A f \in DlAverages : \/ Globals(rs)[f] = 0
                                       \/ /\ \E u \in us : rs[u][f] <= Globals(rs)[f]
                                          /\ \E u \in us : rs[u][f] >= Globals(rs)[f]
<1>1. CASE us = {}
  BY <1>1 DEF Globals
<1>2. CASE us # {}
  <2>1. PICK dl : dl = {u \in us : rs[u].DlLogPPS > 0}
    OBVIOUS
  <2>2. PICK g : g = [f \in UlAverages \cup DlAverages |->
                        Average([u \in IF f \in UlAverages THEN us ELSE dl |-> rs[u][f]])]
    OBVIOUS
  <2>3. Globals(rs) = g
    BY <1>2, <2>1, <2>2 DEF Globals
  <2>4. IsFiniteSet(us) /\ IsFiniteSet(dl) /\ us \subseteq KnownUes /\ dl \subseteq us
    BY <2>1, WindowAssumption, FS_Subset
  <2>5. /\ \A f \in UlAverages \cup DlAverages : f \in FeatureNames
        /\ \A f \in DlAverages : f \notin UlAverages
    BY DEF UlAverages, DlAverages, FeatureNames, Features
  <2>6. ASSUME NEW f \in UlAverages \cup DlAverages, NEW D, D \subseteq us, IsFiniteSet(D), D # {},
               g[f] = Average([u \in D |-> rs[u][f]])
        PROVE  /\ g[f] \in Nat
               /\ \E u \in us : rs[u][f] <= g[f]
               /\ \E u \in us : rs[u][f] >= g[f]
    <3>1. PICK vs : vs = [u \in D |-> rs[u][f]]
      OBVIOUS
    <3>2. vs \in [D -> Nat] /\ \A u \in D : vs[u] = rs[u][f]
      <4>1. \A u \in D : rs[u] \in [FeatureNames -> Nat] /\ f \in FeatureNames
        BY <2>4, <2>5, <2>6
      <4> QED
        BY <3>1, <4>1
    <3>3. /\ Average(vs) \in Nat
          /\ \E u \in D : vs[u] <= Average(vs)
          /\ \E u \in D : vs[u] >= Average(vs)
      BY <2>6, <3>2, AverageLemma
    <3>4. g[f] = Average(vs)
      BY <2>6, <3>1
    <3> QED
      BY <2>6, <3>2, <3>3, <3>4
  <2>7. ASSUME NEW f \in UlAverages
        PROVE  /\ g[f] \in Nat
               /\ \E u \in us : rs[u][f] <= g[f]
               /\ \E u \in us : rs[u][f] >= g[f]
    <3>1. g[f] = Average([u \in us |-> rs[u][f]])
      BY <2>2
    <3> QED
      BY <1>2, <2>4, <2>6, <3>1
  <2>8. ASSUME NEW f \in DlAverages
        PROVE  /\ g[f] \in Nat
               /\ \/ g[f] = 0
                  \/ /\ \E u \in us : rs[u][f] <= g[f]
                     /\ \E u \in us : rs[u][f] >= g[f]
    <3>1. g[f] = Average([u \in dl |-> rs[u][f]])
      BY <2>2, <2>5
    <3>2. CASE dl = {}
      <4>1. DOMAIN [u \in dl |-> rs[u][f]] = {}
        BY <3>2
      <4>2. g[f] = 0
        BY <3>1, <4>1 DEF Average
      <4> QED
        BY <4>2
    <3>3. CASE dl # {}
      BY <2>4, <2>6, <3>1, <3>3
    <3> QED
      BY <3>2, <3>3
  <2>9. g \in [UlAverages \cup DlAverages -> Nat]
    <3>1. \A f \in UlAverages \cup DlAverages : g[f] \in Nat
      BY <2>7, <2>8
    <3> QED
      BY <2>2, <3>1
  <2> QED
    BY <1>2, <2>3, <2>7, <2>8, <2>9
<1> QED
  BY <1>1, <1>2

(***************************************************************************)
(* Window: the invariant.                                                  *)
(***************************************************************************)
\* A packet has a length, and packets are no more than have come.
CountersFit ==
  \A u \in KnownUes :
    /\ counters[u].packets <= counters[u].bytes
    /\ sent[u].up <= arrivals /\ sent[u].down <= arrivals

\* The records of the last poll are active as the UEs were before it.
RecordsFit ==
  /\ \A u \in KnownUes : Active(records[u]) <=> (u \in Subnet /\ before[u].up > 0)
  /\ globals = Globals(records)

WindowInductive == CountersMatchTraffic /\ CountersFit /\ RecordsFit /\ AskedIfItSent

LEMMA AveragesLemma == WindowInductive => AveragesOfActive
<1> SUFFICES ASSUME WindowInductive
             PROVE  AveragesOfActive
  OBVIOUS
<1>1. records \in [KnownUes -> [FeatureNames -> Nat]] /\ globals = Globals(records)
  BY DEF WindowInductive, CountersMatchTraffic, WindowTypeOK, RecordsFit
<1>2. PICK us : us = {u \in KnownUes : Active(records[u])}
  OBVIOUS
<1>3. us = {u \in Subnet : before[u].up > 0}
  BY <1>2, WindowAssumption DEF WindowInductive, RecordsFit
<1>4. /\ us = {} => globals = NoStats
      /\ us # {} =>
           /\ \A f \in UlAverages : /\ \E u \in us : records[u][f] <= globals[f]
                                    /\ \E u \in us : records[u][f] >= globals[f]
           /\ \A f \in DlAverages : \/ globals[f] = 0
                                    \/ /\ \E u \in us : records[u][f] <= globals[f]
                                       /\ \E u \in us : records[u][f] >= globals[f]
  BY <1>1, <1>2, GlobalsLemma
<1> QED
  BY <1>3, <1>4 DEF AveragesOfActive

LEMMA NoTrafficLemma ==
  /\ NoTraffic \in UeMetrics /\ NoTraffic.packets = 0 /\ NoTraffic.bytes = 0
  /\ NoTraffic.dlPackets = 0 /\ NoTraffic.tcp = 0 /\ NoTraffic.udp = 0 /\ NoTraffic.icmp = 0
  /\ NoTraffic.syn = 0 /\ NoTraffic.rst = 0 /\ NoTraffic.flows = 0
  /\ NoTraffic.dlAck = 0 /\ NoTraffic.dlTcp = 0 /\ Cardinality(NoTraffic.dsts) = 0
<1>1. Cardinality({}) = 0
  BY FS_EmptySet
<1> QED
  BY <1>1 DEF NoTraffic, UeMetrics

\* Counters after a poll, and what each UE has sent since.
Fresh == counters = [u \in KnownUes |-> NoTraffic] /\ sent = NoPackets

LEMMA FreshLemma ==
  ASSUME Fresh, arrivals \in Nat
  PROVE  /\ counters \in [KnownUes -> UeMetrics] /\ sent \in [KnownUes -> [up : Nat, down : Nat, other : Nat]]
         /\ CountersFit
         /\ WindowTypeOK => CountersMatchTraffic
<1>1. \A u \in KnownUes : /\ counters[u] = NoTraffic
                           /\ sent[u].up = 0 /\ sent[u].down = 0 /\ sent[u].other = 0
  BY DEF Fresh, NoPackets
<1>2. counters \in [KnownUes -> UeMetrics] /\ sent \in [KnownUes -> [up : Nat, down : Nat, other : Nat]]
  BY NoTrafficLemma DEF Fresh, NoPackets
<1>3. CountersFit
  BY <1>1, NoTrafficLemma DEF CountersFit
<1>4. WindowTypeOK => CountersMatchTraffic
  BY <1>1, NoTrafficLemma, WindowAssumption DEF CountersMatchTraffic
<1> QED
  BY <1>2, <1>3, <1>4

LEMMA WindowInitLemma == WindowInit => WindowInductive
<1> SUFFICES ASSUME WindowInit
             PROVE  WindowInductive
  OBVIOUS
<1>1. Fresh /\ arrivals = 0 /\ MaxArrivals \in Nat
  BY WindowAssumption DEF WindowInit, Fresh
<1>2. PICK r : r = Features(NoTraffic)
  OBVIOUS
<1>3. r \in [FeatureNames -> Nat] /\ ~ Active(r)
  BY <1>1, <1>2, NoTrafficLemma, FeaturesLemma
<1>4. records = [u \in KnownUes |-> r]
  BY <1>2 DEF WindowInit
<1>5. \A u \in KnownUes : ~ Active(records[u]) /\ before[u].up = 0
  BY <1>3, <1>4 DEF WindowInit, NoPackets
<1>6. records \in [KnownUes -> [FeatureNames -> Nat]]
  BY <1>3, <1>4
<1>7. globals = Globals(records)
  <2>1. {u \in KnownUes : Active(records[u])} = {}
    BY <1>5
  <2>2. Globals(records) = NoStats
    BY <1>6, <2>1, GlobalsLemma
  <2> QED
    BY <2>2 DEF WindowInit
<1>8. RecordsFit /\ AskedIfItSent
  BY <1>5, <1>7, WindowAssumption DEF RecordsFit, AskedIfItSent, WindowInit
<1>9. WindowTypeOK
  <2>1. before \in [KnownUes -> [up : Nat, down : Nat, other : Nat]] /\ device \in {"n3", "upfgtp"}
        /\ tracked = {} /\ globals = NoStats /\ shown = {}
    BY DEF WindowInit, NoPackets
  <2> QED
    BY <1>1, <1>6, <2>1, FreshLemma DEF WindowTypeOK
<1> QED
  BY <1>1, <1>8, <1>9, FreshLemma DEF WindowInductive


LEMMA WindowPollLemma ==
  ASSUME WindowInductive, Poll
  PROVE  WindowInductive'
<1>0. WindowTypeOK /\ CountersMatchTraffic /\ CountersFit /\ Subnet \subseteq KnownUes
  BY WindowAssumption DEF WindowInductive, CountersMatchTraffic
<1>1. arrivals \in Nat /\ MaxArrivals \in Nat /\ arrivals <= MaxArrivals
  BY <1>0, WindowAssumption DEF WindowTypeOK
<1>2. Fresh' /\ before' = sent /\ UNCHANGED <<device, tracked, arrivals>>
  BY DEF Poll, Fresh, NoPackets, NoTraffic
<1>3. ASSUME NEW u \in KnownUes
      PROVE  /\ Features(counters[u]) \in [FeatureNames -> Nat]
             /\ Active(Features(counters[u])) <=> (u \in Subnet /\ sent[u].up > 0)
             /\ IsEmptyRecord(Features(counters[u])) <=> ~ (u \in Subnet /\ sent[u].up > 0)
  <2>1. PICK c \in UeMetrics : c = counters[u]
    BY <1>0 DEF WindowTypeOK
  <2>2. /\ sent[u].up \in Nat /\ sent[u].down \in Nat
        /\ sent[u].up <= arrivals /\ sent[u].down <= arrivals /\ c.packets <= c.bytes
    BY <1>0, <2>1 DEF WindowTypeOK, CountersFit
  <2>3. c.packets \in Nat /\ c.dlPackets \in Nat /\ Cardinality(c.dsts) \in Nat
    BY <2>1, DstsLemma DEF UeMetrics
  <2>4. CASE u \in Subnet
    <3>1. c.packets = sent[u].up /\ c.dlPackets <= sent[u].down /\ Cardinality(c.dsts) <= c.packets
      BY <1>0, <2>1, <2>4 DEF CountersMatchTraffic
    <3>2. c.packets <= MaxArrivals /\ c.dlPackets <= MaxArrivals
      BY <1>1, <2>2, <2>3, <3>1
    <3>3. /\ Features(c) \in [FeatureNames -> Nat]
          /\ (Active(Features(c)) <=> c.packets > 0)
          /\ (IsEmptyRecord(Features(c)) <=> c.packets = 0)
      BY <2>2, <3>1, <3>2, FeaturesLemma
    <3> QED
      BY <2>1, <2>2, <2>4, <3>1, <3>3
  <2>5. CASE u \notin Subnet
    <3>1. c = NoTraffic
      BY <1>0, <2>1, <2>5 DEF CountersMatchTraffic
    <3>2. c.packets <= MaxArrivals /\ c.dlPackets <= MaxArrivals /\ Cardinality(c.dsts) <= c.packets
          /\ c.packets = 0
      BY <1>1, <3>1, NoTrafficLemma
    <3>3. /\ Features(c) \in [FeatureNames -> Nat]
          /\ (Active(Features(c)) <=> c.packets > 0)
          /\ (IsEmptyRecord(Features(c)) <=> c.packets = 0)
      BY <2>2, <3>2, FeaturesLemma
    <3> QED
      BY <2>1, <2>5, <3>2, <3>3
  <2> QED
    BY <2>4, <2>5
<1>4. PICK rs : rs = [u \in KnownUes |-> Features(counters[u])]
  OBVIOUS
<1>5. records' = rs /\ globals' = Globals(rs) /\ shown' = {u \in KnownUes : ~ IsEmptyRecord(rs[u])}
  BY <1>4 DEF Poll
<1>6. /\ rs \in [KnownUes -> [FeatureNames -> Nat]]
      /\ \A u \in KnownUes : /\ Active(rs[u]) <=> (u \in Subnet /\ sent[u].up > 0)
                             /\ IsEmptyRecord(rs[u]) <=> ~ (u \in Subnet /\ sent[u].up > 0)
  BY <1>3, <1>4
<1>7. AskedIfItSent'
  BY <1>0, <1>2, <1>5, <1>6 DEF AskedIfItSent
<1>8. RecordsFit'
  <2>1. Globals(rs) = Globals(records)'
    BY <1>5
  <2>2. \A u \in KnownUes : Active(records[u])' <=> Active(rs[u])
    BY <1>5 DEF Active
  <2> QED
    BY <1>2, <1>5, <1>6, <2>1, <2>2 DEF RecordsFit
<1>9. WindowTypeOK'
  <2>1. globals' = NoStats \/ globals' \in [UlAverages \cup DlAverages -> Nat]
    <3>1. PICK us : us = {u \in KnownUes : Active(rs[u])}
      OBVIOUS
    <3>2. /\ us = {} => Globals(rs) = NoStats
          /\ us # {} => Globals(rs) \in [UlAverages \cup DlAverages -> Nat]
      BY <1>6, <3>1, GlobalsLemma
    <3> QED
      BY <1>5, <3>2
  <2>2. /\ counters' \in [KnownUes -> UeMetrics] /\ sent' \in [KnownUes -> [up : Nat, down : Nat, other : Nat]]
    <3>1. counters' = [u \in KnownUes |-> NoTraffic] /\ sent' = NoPackets
      BY DEF Poll
    <3> QED
      BY <3>1, NoTrafficLemma DEF NoPackets
  <2>3. device' \in {"n3", "upfgtp"} /\ tracked' \subseteq [ue : Subnet, peer : Peers, tcp : BOOLEAN]
        /\ arrivals' \in 0..MaxArrivals /\ before' \in [KnownUes -> [up : Nat, down : Nat, other : Nat]]
    BY <1>0, <1>2 DEF WindowTypeOK
  <2>4. records' \in [KnownUes -> [FeatureNames -> Nat]] /\ shown' \subseteq KnownUes
    BY <1>5, <1>6
  <2> QED
    BY <2>1, <2>2, <2>3, <2>4 DEF WindowTypeOK
<1>10. CountersMatchTraffic' /\ CountersFit'
  <2>1. \A u \in KnownUes : /\ counters'[u] = NoTraffic
                             /\ sent'[u].up = 0 /\ sent'[u].down = 0 /\ sent'[u].other = 0
    BY DEF Poll, NoPackets
  <2>2. CountersFit'
    BY <1>1, <1>2, <2>1, NoTrafficLemma DEF CountersFit
  <2>3. CountersMatchTraffic'
    BY <1>9, <2>1, NoTrafficLemma, WindowAssumption DEF CountersMatchTraffic
  <2> QED
    BY <2>2, <2>3
<1> QED
  BY <1>7, <1>8, <1>10 DEF WindowInductive


\* What a packet leaves as it was.
LEMMA OtherCounters ==
  ASSUME NEW c, NEW u \in KnownUes, counters' = [counters EXCEPT ![u] = c],
         counters \in [KnownUes -> UeMetrics]
  PROVE  counters'[u] = c /\ \A v \in KnownUes : v # u => counters'[v] = counters[v]
OBVIOUS

\* A counted packet goes into the counters of its direction, and they go on
\* fitting each other; n are the packets that no protocol's counter had
\* counted before it.
AddsUp(c, n, d, p) ==
  /\ d \in UeMetrics
  /\ d.packets = c.packets + One(p.up) /\ d.bytes >= d.packets
  /\ d.dlPackets = c.dlPackets + One(~ p.up)
  /\ d.packets = d.tcp + d.udp + d.icmp + (n + One(p.up /\ Is(p, "other")))
  /\ d.syn <= d.tcp /\ d.rst <= d.tcp /\ d.flows <= d.syn + d.udp
  /\ Cardinality(d.dsts) <= d.packets
  /\ d.dlAck <= d.dlTcp /\ d.dlTcp <= d.dlPackets

LEMMA MetricsLemma ==
  ASSUME NEW n1 \in Nat, NEW n2 \in Nat, NEW n3 \in Nat, NEW n4 \in Nat, NEW n5 \in Nat,
         NEW n6 \in Nat, NEW n7 \in Nat, NEW n8 \in Nat, NEW dsts \in SUBSET (0..63),
         NEW m1 \in Nat, NEW m2 \in Nat, NEW m3 \in Nat, NEW m4 \in Nat
  PROVE  [packets |-> n1, bytes |-> n2, tcp |-> n3, udp |-> n4, icmp |-> n5, syn |-> n6,
          rst |-> n7, flows |-> n8, dsts |-> dsts, dlPackets |-> m1, dlBytes |-> m2,
          dlTcp |-> m3, dlAck |-> m4] \in UeMetrics
BY DEF UeMetrics

LEMMA AddsUpLemma ==
  ASSUME NEW c \in UeMetrics, NEW n \in Nat, NEW p \in AllPackets, c.bytes >= c.packets,
         c.packets = c.tcp + c.udp + c.icmp + n, c.syn <= c.tcp, c.rst <= c.tcp,
         c.flows <= c.syn + c.udp,
         Cardinality(c.dsts) <= c.packets, c.dlAck <= c.dlTcp, c.dlTcp <= c.dlPackets,
         NEW d, d = IF p.up THEN AddUplink(c, p) ELSE AddDownlink(c, p)
  PROVE  AddsUp(c, n, d, p)
<1>1. /\ c.packets \in Nat /\ c.bytes \in Nat /\ c.tcp \in Nat /\ c.udp \in Nat /\ c.icmp \in Nat
      /\ c.syn \in Nat /\ c.rst \in Nat /\ c.flows \in Nat /\ c.dlPackets \in Nat
      /\ c.dlBytes \in Nat /\ c.dlTcp \in Nat /\ c.dlAck \in Nat /\ c.dsts \subseteq 0..63
  BY DEF UeMetrics
<1>2. /\ p.kind \in Kinds /\ p.up \in BOOLEAN /\ p.peer \in Peers
      /\ p.kind.proto \in {"tcp", "udp", "icmp", "other"}
  BY WindowAssumption DEF AllPackets, AllKinds
<1>3. PICK len \in Nat : len = LengthOf[p.kind] /\ len >= 1
  BY <1>2, WindowAssumption
<1>4. PICK bit \in 0..63 : bit = BitOf[p.peer]
  BY <1>2, WindowAssumption
<1>5. CASE p.up
  <2>1. d = AddUplink(c, p)
    BY <1>5
  <2>a. PICK tcp \in Nat, udp \in Nat, icmp \in Nat, other \in Nat :
               /\ tcp = One(Is(p, "tcp")) /\ udp = One(Is(p, "udp")) /\ icmp = One(Is(p, "icmp"))
               /\ other = One(p.up /\ Is(p, "other"))
    BY DEF One
  <2>b. PICK syn \in Nat, rst \in Nat, flow \in Nat :
               syn = One(Has(p, "SYN")) /\ rst = One(Has(p, "RST")) /\ flow = One(NewFlow(p))
    BY DEF One
  <2>c. tcp + udp + icmp + other = 1 /\ syn <= tcp /\ rst <= tcp /\ flow <= syn + udp
    <3>1. p.kind.proto \in {"tcp", "udp", "icmp", "other"}
      BY <1>2
    <3>2. tcp + udp + icmp + other = 1
      BY <1>5, <2>a, <3>1 DEF One, Is
    <3>3. syn <= tcp /\ rst <= tcp
      BY <2>a, <2>b DEF One, Has
    <3>4. flow <= syn + udp
      BY <2>a, <2>b DEF One, NewFlow
    <3> QED
      BY <3>2, <3>3, <3>4
  <2>d. PICK dsts : dsts = c.dsts \cup {bit}
    OBVIOUS
  <2>e. PICK n1 \in Nat, n2 \in Nat, n3 \in Nat, n4 \in Nat :
               n1 = c.packets + 1 /\ n2 = c.bytes + len /\ n3 = c.tcp + tcp /\ n4 = c.udp + udp
    <3>1. c.packets + 1 \in Nat /\ c.bytes + len \in Nat /\ c.tcp + tcp \in Nat /\ c.udp + udp \in Nat
      BY <1>1
    <3> QED
      BY <3>1
  <2>f. PICK n5 \in Nat, n6 \in Nat, n7 \in Nat, n8 \in Nat :
               n5 = c.icmp + icmp /\ n6 = c.syn + syn /\ n7 = c.rst + rst /\ n8 = c.flows + flow
    <3>1. c.icmp + icmp \in Nat /\ c.syn + syn \in Nat /\ c.rst + rst \in Nat /\ c.flows + flow \in Nat
      BY <1>1
    <3> QED
      BY <3>1
  <2>g. d = [c EXCEPT !.packets = n1, !.bytes = n2, !.tcp = n3, !.udp = n4, !.icmp = n5,
                      !.syn = n6, !.rst = n7, !.flows = n8, !.dsts = dsts]
    BY <1>3, <1>4, <2>1, <2>a, <2>b, <2>d, <2>e, <2>f DEF AddUplink
  <2>h. d = [packets |-> n1, bytes |-> n2, tcp |-> n3, udp |-> n4, icmp |-> n5, syn |-> n6,
             rst |-> n7, flows |-> n8, dsts |-> dsts, dlPackets |-> c.dlPackets,
             dlBytes |-> c.dlBytes, dlTcp |-> c.dlTcp, dlAck |-> c.dlAck]
    BY <2>g, ZenonT(40) DEF UeMetrics
  <2>2. /\ d.packets = c.packets + 1 /\ d.bytes = c.bytes + len /\ d.tcp = c.tcp + tcp
        /\ d.udp = c.udp + udp /\ d.icmp = c.icmp + icmp /\ d.syn = c.syn + syn
        /\ d.rst = c.rst + rst /\ d.flows = c.flows + flow /\ d.dsts = dsts
        /\ d.dlPackets = c.dlPackets /\ d.dlTcp = c.dlTcp /\ d.dlAck = c.dlAck
    BY <2>e, <2>f, <2>h
  <2>3. d \in UeMetrics
    <3>1. dsts \subseteq 0..63
      BY <1>1, <2>d
    <3>2. PICK m1 \in Nat, m2 \in Nat, m3 \in Nat, m4 \in Nat :
                 m1 = c.dlPackets /\ m2 = c.dlBytes /\ m3 = c.dlTcp /\ m4 = c.dlAck
      BY <1>1
    <3>3. d = [packets |-> n1, bytes |-> n2, tcp |-> n3, udp |-> n4, icmp |-> n5, syn |-> n6,
               rst |-> n7, flows |-> n8, dsts |-> dsts, dlPackets |-> m1, dlBytes |-> m2,
               dlTcp |-> m3, dlAck |-> m4]
      BY <2>h, <3>2
    <3>4. dsts \in SUBSET (0..63)
      BY <3>1
    <3>5. [packets |-> n1, bytes |-> n2, tcp |-> n3, udp |-> n4, icmp |-> n5, syn |-> n6,
           rst |-> n7, flows |-> n8, dsts |-> dsts, dlPackets |-> m1, dlBytes |-> m2,
           dlTcp |-> m3, dlAck |-> m4] \in UeMetrics
      BY <3>4, MetricsLemma
    <3> QED
      BY <3>3, <3>5
  <2>4. Cardinality(d.dsts) <= Cardinality(c.dsts) + 1
    <3>1. IsFiniteSet(c.dsts) /\ Cardinality(c.dsts) \in Nat
      BY DstsLemma
    <3>2. Cardinality(dsts) = IF bit \in c.dsts THEN Cardinality(c.dsts) ELSE Cardinality(c.dsts) + 1
      BY <2>d, <3>1, FS_AddElement
    <3> QED
      BY <2>2, <3>1, <3>2
  <2>5. Cardinality(c.dsts) \in Nat /\ Cardinality(d.dsts) \in Nat
    BY <2>3, DstsLemma
  <2>6. Cardinality(d.dsts) <= d.packets /\ d.bytes >= d.packets
    BY <1>1, <1>3, <2>2, <2>4, <2>5
  <2>8. /\ d.packets = d.tcp + d.udp + d.icmp + (n + other)
        /\ d.syn <= d.tcp /\ d.rst <= d.tcp
        /\ d.flows <= d.syn + d.udp
    <3>1. c.packets + 1 = (c.tcp + tcp) + (c.udp + udp) + (c.icmp + icmp) + (n + other)
      <4>1. PICK x \in Nat, y \in Nat, z \in Nat : x = c.tcp /\ y = c.udp /\ z = c.icmp
        BY <1>1
      <4>2. (x + y + z + n) + 1 = (x + tcp) + (y + udp) + (z + icmp) + (n + other)
        BY <2>c
      <4>3. c.packets = x + y + z + n
        BY <4>1
      <4> QED
        BY <4>1, <4>2, <4>3
    <3>2. c.syn + syn <= c.tcp + tcp /\ c.rst + rst <= c.tcp + tcp
      BY <1>1, <2>c
    <3>3. c.flows + flow <= (c.syn + syn) + (c.udp + udp)
      BY <1>1, <2>c
    <3> QED
      BY <2>2, <3>1, <3>2, <3>3
  <2> QED
    <3>1. One(p.up) = 1 /\ One(~ p.up) = 0
      BY <1>5 DEF One
    <3>2. d.packets = c.packets + 1 /\ d.dlPackets = c.dlPackets + 0
      BY <1>1, <2>2
    <3> QED
      BY <1>1, <2>2, <2>3, <2>6, <2>8, <2>a, <3>1, <3>2 DEF AddsUp
<1>6. CASE ~ p.up
  <2>1. d = AddDownlink(c, p)
    BY <1>6
  <2>a. PICK tcp \in Nat, ack \in Nat :
               tcp = One(Is(p, "tcp")) /\ ack = One(Has(p, "ACK")) /\ ack <= tcp /\ tcp <= 1
    BY DEF One, Has
  <2>b. d = [c EXCEPT !.dlPackets = c.dlPackets + 1, !.dlBytes = c.dlBytes + len,
                      !.dlTcp = c.dlTcp + tcp, !.dlAck = c.dlAck + ack]
    BY <1>3, <2>1, <2>a DEF AddDownlink
  <2>2. /\ d.packets = c.packets /\ d.bytes = c.bytes /\ d.tcp = c.tcp /\ d.udp = c.udp
        /\ d.icmp = c.icmp /\ d.syn = c.syn /\ d.rst = c.rst /\ d.flows = c.flows
        /\ d.dsts = c.dsts /\ d.dlPackets = c.dlPackets + 1
        /\ d.dlTcp = c.dlTcp + tcp /\ d.dlAck = c.dlAck + ack
    BY <2>b DEF UeMetrics
  <2>4. d \in UeMetrics
    <3>1. d = [packets |-> c.packets, bytes |-> c.bytes, tcp |-> c.tcp, udp |-> c.udp,
               icmp |-> c.icmp, syn |-> c.syn, rst |-> c.rst, flows |-> c.flows, dsts |-> c.dsts,
               dlPackets |-> c.dlPackets + 1, dlBytes |-> c.dlBytes + len,
               dlTcp |-> c.dlTcp + tcp, dlAck |-> c.dlAck + ack]
      BY <2>b DEF UeMetrics
    <3>2. c.dlPackets + 1 \in Nat /\ c.dlBytes + len \in Nat /\ c.dlTcp + tcp \in Nat
          /\ c.dlAck + ack \in Nat
      BY <1>1
    <3> QED
      BY <1>1, <3>1, <3>2 DEF UeMetrics
  <2> QED
    <3>1. One(p.up) = 0 /\ One(~ p.up) = 1 /\ One(p.up /\ Is(p, "other")) = 0
      BY <1>6 DEF One
    <3>2. d.packets = c.packets + 0 /\ d.bytes >= d.packets
      BY <1>1, <2>2
    <3>3. c.packets = c.tcp + c.udp + c.icmp + (n + 0)
      OBVIOUS
    <3> QED
      BY <1>1, <2>2, <2>a, <2>4, <3>1, <3>2, <3>3 DEF AddsUp
<1> QED
  BY <1>2, <1>5, <1>6


\* Every packet that is not lost in its headers is counted if it is of a UE
\* of the subnet and goes up, or if the programs see frames.
LEMMA WhatIsCounted ==
  ASSUME WindowTypeOK, NEW p \in AllPackets
  PROVE  /\ device = "n3" /\ p.exts > 6 => ~ IsCounted(p)
         /\ ~ (device = "n3" /\ p.exts > 6) /\ p.ue \in Subnet /\ (p.up \/ device = "n3") => IsCounted(p)
<1>1. p.exts \in Nat /\ p.up \in BOOLEAN
  BY WindowAssumption DEF AllPackets
<1>2. device \in {"n3", "upfgtp"} /\ "n3" # "upfgtp"
  BY DEF WindowTypeOK
<1>3. Located(p) <=> ~ (p.exts > 6)
  BY <1>1 DEF Located
<1>4. device = "n3" => (Uplink(p) <=> Located(p)) /\ (Downlink(p) <=> Located(p))
  BY <1>2 DEF Uplink, Downlink
<1>5. device = "upfgtp" => Uplink(p)
  BY <1>2 DEF Uplink
<1> QED
  BY <1>1, <1>2, <1>3, <1>4, <1>5 DEF IsCounted

\* What the history keeps of a packet.
LEMMA SentLemma ==
  ASSUME WindowTypeOK, NEW p \in AllPackets, Packet(p)
  PROVE  /\ sent' \in [KnownUes -> [up : Nat, down : Nat, other : Nat]]
         /\ \A u \in KnownUes : u # p.ue => sent'[u] = sent[u]
         /\ device = "n3" /\ p.exts > 6 => sent'[p.ue] = sent[p.ue]
         /\ ~ (device = "n3" /\ p.exts > 6) =>
              /\ sent'[p.ue].up = sent[p.ue].up + One(p.up)
              /\ sent'[p.ue].down = sent[p.ue].down + One(~ p.up)
              /\ sent'[p.ue].other = sent[p.ue].other + One(p.up /\ Is(p, "other"))
<1>1. p.ue \in KnownUes /\ p.up \in BOOLEAN
  BY DEF AllPackets
<1>2. sent \in [KnownUes -> [up : Nat, down : Nat, other : Nat]]
  BY DEF WindowTypeOK
<1>3. PICK s \in [up : Nat, down : Nat, other : Nat] : s = sent[p.ue]
  BY <1>1, <1>2
<1>4. PICK a \in Nat, b \in Nat, c \in Nat :
        a = One(p.up) /\ b = One(~ p.up) /\ c = One(p.up /\ Is(p, "other"))
  BY DEF One
<1>5. PICK more \in [up : Nat, down : Nat, other : Nat] :
        /\ more = Sent(s, p) /\ more.up = s.up + a /\ more.down = s.down + b
        /\ more.other = s.other + c
  <2>1. s.up + a \in Nat /\ s.down + b \in Nat /\ s.other + c \in Nat
    OBVIOUS
  <2>2. PICK x \in Nat, y \in Nat, z \in Nat : x = s.up + a /\ y = s.down + b /\ z = s.other + c
    BY <2>1
  <2>3. Sent(s, p) = [up |-> x, down |-> y, other |-> z]
    BY <1>4, <2>2 DEF Sent
  <2>4. [up |-> x, down |-> y, other |-> z] \in [up : Nat, down : Nat, other : Nat]
    OBVIOUS
  <2> QED
    BY <2>2, <2>3, <2>4
<1>6. PICK t \in [up : Nat, down : Nat, other : Nat] : t = IF device = "n3" /\ p.exts > 6 THEN s ELSE more
  OBVIOUS
<1>7. sent' = [sent EXCEPT ![p.ue] = t]
  BY <1>3, <1>5, <1>6 DEF Packet
<1>8. ~ (device = "n3" /\ p.exts > 6) => /\ t.up = s.up + a /\ t.down = s.down + b
                                       /\ t.other = s.other + c
  BY <1>5, <1>6
<1>9. sent' \in [KnownUes -> [up : Nat, down : Nat, other : Nat]] /\ sent'[p.ue] = t
      /\ \A u \in KnownUes : u # p.ue => sent'[u] = sent[u]
  BY <1>1, <1>2, <1>7
<1> QED
  BY <1>3, <1>4, <1>6, <1>8, <1>9

LEMMA WindowPacketLemma ==
  ASSUME WindowInductive, NEW p \in AllPackets, Packet(p)
  PROVE  WindowInductive'
<1>0. /\ WindowTypeOK /\ CountersMatchTraffic /\ CountersFit /\ Subnet \subseteq KnownUes
      /\ p.ue \in KnownUes /\ p.up \in BOOLEAN
  BY WindowAssumption DEF WindowInductive, CountersMatchTraffic, AllPackets
<1>1. /\ arrivals \in Nat /\ MaxArrivals \in Nat /\ arrivals' = arrivals + 1
      /\ arrivals' \in 0..MaxArrivals
  BY <1>0, WindowAssumption DEF WindowTypeOK, Packet
<1>2. device' = device /\ records' = records /\ globals' = globals /\ shown' = shown /\ before' = before
  BY DEF Packet, pollVars
<1>3. PICK lost \in BOOLEAN : lost <=> (device = "n3" /\ p.exts > 6)
  OBVIOUS
<1>4. /\ sent' \in [KnownUes -> [up : Nat, down : Nat, other : Nat]]
      /\ \A u \in KnownUes : u # p.ue => sent'[u] = sent[u]
      /\ lost => sent'[p.ue] = sent[p.ue]
      /\ ~ lost => /\ sent'[p.ue].up = sent[p.ue].up + One(p.up)
                   /\ sent'[p.ue].down = sent[p.ue].down + One(~ p.up)
                   /\ sent'[p.ue].other = sent[p.ue].other + One(p.up /\ Is(p, "other"))
  BY <1>0, <1>3, SentLemma
<1>5. /\ lost => ~ IsCounted(p)
      /\ ~ lost /\ p.ue \in Subnet /\ (p.up \/ device = "n3") => IsCounted(p)
      /\ IsCounted(p) => p.ue \in Subnet
  BY <1>0, <1>3, WhatIsCounted DEF IsCounted
<1>6. \A u \in KnownUes : sent[u] \in [up : Nat, down : Nat, other : Nat] /\ counters[u] \in UeMetrics
  BY <1>0 DEF WindowTypeOK
<1>7. (One(p.up) = 1 /\ One(~ p.up) = 0) \/ (One(p.up) = 0 /\ One(~ p.up) = 1)
  BY DEF One
<1>8. p.up => One(p.up) = 1 /\ One(~ p.up) = 0
  BY DEF One
<1>9. /\ sent[p.ue].up <= sent'[p.ue].up /\ sent'[p.ue].up <= sent[p.ue].up + 1
      /\ sent[p.ue].down <= sent'[p.ue].down /\ sent'[p.ue].down <= sent[p.ue].down + 1
  BY <1>0, <1>4, <1>6, <1>7
<1>10. \A u \in KnownUes : sent'[u].up <= arrivals' /\ sent'[u].down <= arrivals'
  <2> SUFFICES ASSUME NEW u \in KnownUes
               PROVE  sent'[u].up <= arrivals' /\ sent'[u].down <= arrivals'
    OBVIOUS
  <2>1. sent[u].up <= arrivals /\ sent[u].down <= arrivals
    BY <1>0 DEF CountersFit
  <2>2. CASE u = p.ue
    <3>1. sent'[u].up \in Nat /\ sent'[u].down \in Nat
      BY <1>4
    <3> QED
      BY <1>1, <1>6, <1>9, <2>1, <2>2, <3>1
  <2>3. CASE u # p.ue
    BY <1>1, <1>4, <1>6, <2>1, <2>3
  <2> QED
    BY <2>2, <2>3
<1>11. AskedIfItSent'
  BY <1>2 DEF WindowInductive, AskedIfItSent
<1>12. RecordsFit'
  <2>1. Globals(records)' = Globals(records)
    BY <1>2
  <2>2. \A u \in KnownUes : Active(records[u])' <=> Active(records[u])
    BY <1>2 DEF Active
  <2> QED
    BY <1>2, <2>1, <2>2 DEF WindowInductive, RecordsFit
<1>13. CASE ~ IsCounted(p)
  <2>1. counters' = counters /\ tracked' = tracked
    BY <1>13 DEF Packet, mapVars
  <2>2. WindowTypeOK'
    <3>1. globals' = NoStats \/ globals' \in [UlAverages \cup DlAverages -> Nat]
      BY <1>0, <1>2 DEF WindowTypeOK
    <3>2. /\ counters' \in [KnownUes -> UeMetrics]
          /\ records' \in [KnownUes -> [FeatureNames -> Nat]] /\ shown' \subseteq KnownUes
      BY <1>0, <1>2, <2>1 DEF WindowTypeOK
    <3>3. device' \in {"n3", "upfgtp"} /\ tracked' \subseteq [ue : Subnet, peer : Peers, tcp : BOOLEAN]
          /\ before' \in [KnownUes -> [up : Nat, down : Nat, other : Nat]]
      BY <1>0, <1>2, <2>1 DEF WindowTypeOK
    <3> QED
      BY <1>1, <1>4, <3>1, <3>2, <3>3 DEF WindowTypeOK
  <2>3. CountersFit'
    BY <1>0, <1>10, <2>1 DEF CountersFit
  <2>4. ASSUME NEW u \in Subnet
        PROVE  /\ sent'[u].up = sent[u].up /\ sent[u].down <= sent'[u].down
               /\ sent'[u].other = sent[u].other
               /\ device = "n3" => sent'[u].down = sent[u].down
    <3>1. CASE u # p.ue
      BY <1>0, <1>4, <1>6, <3>1
    <3>2. CASE u = p.ue /\ lost
      BY <1>0, <1>4, <1>6, <3>2
    <3>3. CASE u = p.ue /\ ~ lost
      <4>1. ~ p.up /\ device # "n3"
        BY <1>5, <1>13, <3>3
      <4>2. One(p.up) = 0 /\ One(p.up /\ Is(p, "other")) = 0
        BY <4>1 DEF One
      <4> QED
        BY <1>0, <1>4, <1>6, <1>9, <3>3, <4>1, <4>2
    <3> QED
      BY <3>1, <3>2, <3>3
  <2>5. CountersMatchTraffic'
    <3>1. \A u \in KnownUes \ Subnet : counters'[u] = NoTraffic
      BY <1>0, <2>1 DEF CountersMatchTraffic
    <3>2. ASSUME NEW u \in Subnet
          PROVE  /\ counters[u].packets = sent'[u].up /\ sent'[u].other = sent[u].other
                 /\ counters[u].dlPackets <= sent'[u].down
                 /\ device = "n3" => counters[u].dlPackets = sent'[u].down
      <4>1. /\ counters[u].packets = sent[u].up
            /\ counters[u].dlPackets <= sent[u].down
            /\ device = "n3" => counters[u].dlPackets = sent[u].down
        BY <1>0 DEF CountersMatchTraffic
      <4>2. counters[u].dlPackets \in Nat /\ sent[u].down \in Nat /\ sent'[u].down \in Nat
        BY <1>0, <1>4, <1>6 DEF UeMetrics
      <4> QED
        BY <2>4, <4>1, <4>2
    <3> QED
      BY <1>0, <1>2, <2>1, <2>2, <3>1, <3>2 DEF CountersMatchTraffic
  <2> QED
    BY <1>11, <1>12, <2>3, <2>5 DEF WindowInductive
<1>14. CASE IsCounted(p)
  <2>1. ~ lost /\ p.ue \in Subnet
    BY <1>5, <1>14
  <2>2. PICK c \in UeMetrics : c = counters[p.ue]
    BY <1>0, <1>6
  <2>3. PICK d : d = IF p.up THEN AddUplink(c, p) ELSE AddDownlink(c, p)
    OBVIOUS
  <2>4. counters' = [counters EXCEPT ![p.ue] = d]
    BY <1>14, <2>2, <2>3 DEF Packet
  <2>5. /\ c.packets = sent[p.ue].up /\ c.dlPackets <= sent[p.ue].down
        /\ device = "n3" => c.dlPackets = sent[p.ue].down
        /\ c.packets = c.tcp + c.udp + c.icmp + sent[p.ue].other
        /\ c.syn <= c.tcp /\ c.rst <= c.tcp /\ c.flows <= c.syn + c.udp
        /\ Cardinality(c.dsts) <= c.packets /\ c.dlAck <= c.dlTcp /\ c.dlTcp <= c.dlPackets
    BY <1>0, <2>1, <2>2 DEF CountersMatchTraffic
  <2>6. c.bytes >= c.packets
    <3>1. c.packets <= c.bytes
      BY <1>0, <2>2 DEF CountersFit
    <3>2. c.packets \in Nat /\ c.bytes \in Nat
      BY DEF UeMetrics
    <3> QED
      BY <3>1, <3>2
  <2>7. AddsUp(c, sent[p.ue].other, d, p)
    <3>1. sent[p.ue].other \in Nat
      BY <1>0, <1>6
    <3> QED
      BY <2>3, <2>5, <2>6, <3>1, AddsUpLemma
  <2>8. d \in UeMetrics
    BY <2>7 DEF AddsUp
  <2>9. counters'[p.ue] = d /\ \A v \in KnownUes : v # p.ue => counters'[v] = counters[v]
    <3>1. counters \in [KnownUes -> UeMetrics]
      BY <1>0 DEF WindowTypeOK
    <3> QED
      BY <1>0, <2>4, <3>1, OtherCounters
  <2>10. tracked' \subseteq [ue : Subnet, peer : Peers, tcp : BOOLEAN]
    <3>1. Flow(p) \in [ue : Subnet, peer : Peers, tcp : BOOLEAN]
      <4>1. p.peer \in Peers /\ Is(p, "tcp") \in BOOLEAN
        BY DEF AllPackets, Is
      <4> QED
        BY <2>1, <4>1 DEF Flow
    <3>2. tracked \subseteq [ue : Subnet, peer : Peers, tcp : BOOLEAN]
      BY <1>0 DEF WindowTypeOK
    <3>3. tracked' \subseteq tracked \cup {Flow(p)}
      BY <1>14 DEF Packet
    <3> QED
      BY <3>1, <3>2, <3>3
  <2>11. WindowTypeOK'
    <3>1. globals' = NoStats \/ globals' \in [UlAverages \cup DlAverages -> Nat]
      BY <1>0, <1>2 DEF WindowTypeOK
    <3>2. counters' \in [KnownUes -> UeMetrics]
      BY <1>0, <2>4, <2>8 DEF WindowTypeOK
    <3>3. /\ records' \in [KnownUes -> [FeatureNames -> Nat]] /\ shown' \subseteq KnownUes
          /\ device' \in {"n3", "upfgtp"} /\ before' \in [KnownUes -> [up : Nat, down : Nat, other : Nat]]
      BY <1>0, <1>2 DEF WindowTypeOK
    <3> QED
      BY <1>1, <1>4, <2>10, <3>1, <3>2, <3>3 DEF WindowTypeOK
  <2>12. CountersFit'
    <3>1. \A u \in KnownUes : counters'[u].packets <= counters'[u].bytes
      <4> SUFFICES ASSUME NEW u \in KnownUes
                   PROVE  counters'[u].packets <= counters'[u].bytes
        OBVIOUS
      <4>1. CASE u = p.ue
        <5>1. d.bytes >= d.packets /\ d.bytes \in Nat /\ d.packets \in Nat
          BY <2>7, <2>8 DEF AddsUp, UeMetrics
        <5> QED
          BY <2>9, <4>1, <5>1
      <4>2. CASE u # p.ue
        BY <1>0, <2>9, <4>2 DEF CountersFit
      <4> QED
        BY <4>1, <4>2
    <3> QED
      BY <1>10, <3>1 DEF CountersFit
  <2>13. /\ d.packets = sent'[p.ue].up /\ d.dlPackets <= sent'[p.ue].down
         /\ device = "n3" => d.dlPackets = sent'[p.ue].down
         /\ d.packets = d.tcp + d.udp + d.icmp + sent'[p.ue].other
    <3>1. d.packets = c.packets + One(p.up) /\ d.dlPackets = c.dlPackets + One(~ p.up)
      BY <2>7 DEF AddsUp
    <3>2. sent'[p.ue].up = sent[p.ue].up + One(p.up) /\ sent'[p.ue].down = sent[p.ue].down + One(~ p.up)
      BY <1>4, <2>1
    <3>3. PICK a \in Nat, b \in Nat : a = One(p.up) /\ b = One(~ p.up)
      BY DEF One
    <3>4. PICK n \in Nat, k \in Nat : n = c.dlPackets /\ k = sent[p.ue].down
      BY <1>0, <1>6 DEF UeMetrics
    <3>5. n <= k /\ (device = "n3" => n = k) /\ d.dlPackets = n + b /\ sent'[p.ue].down = k + b
      BY <2>5, <3>1, <3>2, <3>3, <3>4
    <3>6. d.packets = sent'[p.ue].up
      BY <2>5, <3>1, <3>2
    <3>7. d.packets = d.tcp + d.udp + d.icmp + sent'[p.ue].other
      BY <1>4, <2>1, <2>7 DEF AddsUp
    <3> QED
      BY <3>5, <3>6, <3>7
  <2>14. CountersMatchTraffic'
    <3>1. \A u \in KnownUes \ Subnet : counters'[u] = NoTraffic
      BY <1>0, <2>1, <2>9 DEF CountersMatchTraffic
    <3>2. ASSUME NEW u \in Subnet, u # p.ue
          PROVE  counters'[u] = counters[u] /\ sent'[u] = sent[u]
      BY <1>0, <1>4, <2>9, <3>2
    <3>3. ASSUME NEW u \in Subnet
          PROVE  /\ counters'[u].packets = sent'[u].up
                 /\ counters'[u].dlPackets <= sent'[u].down
                 /\ device' = "n3" => counters'[u].dlPackets = sent'[u].down
                 /\ counters'[u].packets = counters'[u].tcp + counters'[u].udp + counters'[u].icmp
                                             + sent'[u].other
                 /\ counters'[u].syn <= counters'[u].tcp /\ counters'[u].rst <= counters'[u].tcp
                 /\ counters'[u].flows <= counters'[u].syn + counters'[u].udp
                 /\ Cardinality(counters'[u].dsts) <= counters'[u].packets
                 /\ counters'[u].dlAck <= counters'[u].dlTcp
                 /\ counters'[u].dlTcp <= counters'[u].dlPackets
      <4>1. CASE u = p.ue
        BY <1>2, <2>7, <2>9, <2>13, <4>1 DEF AddsUp
      <4>2. CASE u # p.ue
        BY <1>0, <1>2, <3>2, <4>2 DEF CountersMatchTraffic
      <4> QED
        BY <4>1, <4>2
    <3> QED
      BY <2>11, <3>1, <3>3 DEF CountersMatchTraffic
  <2> QED
    BY <1>11, <1>12, <2>12, <2>14 DEF WindowInductive
<1> QED
  BY <1>13, <1>14

LEMMA WindowStepLemma == WindowInductive /\ [WindowNext]_windowVars => WindowInductive'
<1> SUFFICES ASSUME WindowInductive, [WindowNext]_windowVars
             PROVE  WindowInductive'
  OBVIOUS
<1>1. CASE Poll
  BY <1>1, WindowPollLemma
<1>2. ASSUME NEW p \in AllPackets, Packet(p)
      PROVE  WindowInductive'
  BY <1>2, WindowPacketLemma
<1>3. CASE UNCHANGED windowVars
  <2>1. /\ device' = device /\ counters' = counters /\ tracked' = tracked /\ records' = records
        /\ globals' = globals /\ shown' = shown /\ arrivals' = arrivals /\ sent' = sent
        /\ before' = before
    BY <1>3 DEF windowVars, mapVars, pollVars
  <2>2. CountersMatchTraffic'
    BY <2>1 DEF WindowInductive, CountersMatchTraffic, WindowTypeOK
  <2>3. CountersFit' /\ AskedIfItSent'
    BY <2>1 DEF WindowInductive, CountersFit, AskedIfItSent
  <2>4. RecordsFit'
    <3>1. Globals(records)' = Globals(records)
      BY <2>1
    <3>2. \A u \in KnownUes : Active(records[u])' <=> Active(records[u])
      BY <2>1 DEF Active
    <3> QED
      BY <2>1, <3>1, <3>2 DEF WindowInductive, RecordsFit
  <2> QED
    BY <2>2, <2>3, <2>4 DEF WindowInductive
<1> QED
  BY <1>1, <1>2, <1>3 DEF WindowNext

\* WindowInductive, which the next three follow from, holds in every state.
LEMMA WindowInductiveHolds == WindowSpec => []WindowInductive
BY WindowInitLemma, WindowStepLemma, PTL DEF WindowSpec

\* On either device and for any packets, the packets of a UE are counted for
\* that UE, once, in their direction, and the counters fit each other: what
\* anlf.c adds to ue_metrics_map is what the UEs have sent.
THEOREM CountersMatchTrafficHolds == WindowSpec => []CountersMatchTraffic
<1>1. WindowInductive => CountersMatchTraffic
  BY DEF WindowInductive
<1> QED
  BY <1>1, WindowInductiveHolds, PTL

\* The records isEmptyRecord passes over are those of the UEs that sent
\* nothing in the window, and no others.
THEOREM AskedIfItSentHolds == WindowSpec => []AskedIfItSent
<1>1. WindowInductive => AskedIfItSent
  BY DEF WindowInductive
<1> QED
  BY <1>1, WindowInductiveHolds, PTL

\* The averages of processBatch, rounded as they are, lie among the features
\* of the UEs that sent something.
THEOREM AveragesOfActiveHolds == WindowSpec => []AveragesOfActive
<1>1. WindowInductive => AveragesOfActive
  BY AveragesLemma
<1> QED
  BY <1>1, WindowInductiveHolds, PTL

=============================================================================
