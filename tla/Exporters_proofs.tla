---------------------------- MODULE Exporters_proofs ----------------------------
(***************************************************************************)
(* Proofs about Exporters, for any workers and any messages.  First what   *)
(* is needed of flattened sequences of rows and of the exchange sort; then *)
(* Inductive and the two properties, which are kept together: what follows *)
(* a row in a file depends on what its message was reported as.            *)
(***************************************************************************)
EXTENDS Exporters, FiniteSetTheorems, SequenceTheorems, WellFoundedInduction, TLAPS

\* Induction over the numbers, for a set of them.
LEMMA NatSetInduction ==
  ASSUME NEW G, 0 \in G, \A n \in Nat : n \in G => n + 1 \in G
  PROVE  Nat \subseteq G
<1> DEFINE Bad == {n \in Nat : n \notin G}
<1> SUFFICES ASSUME Bad # {}
             PROVE  FALSE
  OBVIOUS
<1>1. IsWellFoundedOn(OpToRel(<, Nat), Nat)
  BY NatLessThanWellFounded
<1>2. Bad \subseteq Nat
  OBVIOUS
<1> HIDE DEF Bad
<1>3. PICK n \in Bad : \A k \in Bad : ~ (<<k, n>> \in OpToRel(<, Nat))
  BY <1>1, <1>2, WFMin
<1>4. \A k \in Bad : ~ (k < n)
  BY <1>2, <1>3 DEF OpToRel
<1> USE DEF Bad
<1>5. n # 0 /\ n - 1 \in Nat
  OBVIOUS
<1>6. n - 1 \in G
  BY <1>4, <1>5
<1>7. (n - 1) + 1 = n
  BY <1>5
<1> QED
  BY <1>5, <1>6, <1>7

(***************************************************************************)
(* FlattenSeq.                                                             *)
(***************************************************************************)
\* Its recursion, up to the n-th of the sequences.
Flattens(g, ss, n) == g = [i \in 1..n |-> IF i = 1 THEN ss[i] ELSE g[i - 1] \o ss[i]]

\* The recursion has a solution, however far it goes.
LEMMA FlattenExists ==
  ASSUME NEW ss, NEW n \in Nat
  PROVE  \E g : Flattens(g, ss, n)
<1> DEFINE G == {k \in Nat : \E g : Flattens(g, ss, k)}
<1>1. 0 \in G
  <2>1. Flattens(<<>>, ss, 0)
    BY DEF Flattens
  <2> QED
    BY <2>1
<1>2. ASSUME NEW k \in Nat, k \in G
      PROVE  k + 1 \in G
  <2>1. PICK g : Flattens(g, ss, k)
    BY <1>2
  <2> DEFINE h == [i \in 1..(k + 1) |-> IF i = k + 1 THEN IF i = 1 THEN ss[i] ELSE g[i - 1] \o ss[i]
                                        ELSE g[i]]
  <2>2. Flattens(h, ss, k + 1)
    <3>1. \A i \in 1..k : g[i] = IF i = 1 THEN ss[i] ELSE g[i - 1] \o ss[i]
      BY <2>1 DEF Flattens
    <3>2. \A i \in 1..k : h[i] = g[i]
      OBVIOUS
    <3>3. ASSUME NEW i \in 1..(k + 1)
          PROVE  h[i] = IF i = 1 THEN ss[i] ELSE h[i - 1] \o ss[i]
      <4>1. CASE i = k + 1
        <5>1. i # 1 => i - 1 \in 1..k
          BY <4>1
        <5> QED
          BY <3>2, <4>1, <5>1
      <4>2. CASE i # k + 1
        <5>1. i \in 1..k /\ (i # 1 => i - 1 \in 1..k)
          BY <4>2
        <5> HIDE DEF h
        <5> QED
          BY <3>1, <3>2, <5>1
      <4> QED
        BY <4>1, <4>2
    <3> QED
      BY <3>3 DEF Flattens
  <2> HIDE DEF h
  <2> QED
    BY <2>2
<1> HIDE DEF G
<1>3. n \in G
  BY <1>1, <1>2, NatSetInduction
<1> QED
  BY <1>3 DEF G

Agree(f, g, n) == \A i \in 1..n : f[i] = g[i]

\* A solution for a sequence, and one for it with another at its end, agree
\* on the sequence.
LEMMA FlattenAgree ==
  ASSUME NEW n \in Nat, NEW ss, NEW tt, NEW g, NEW h, NEW d \in Nat,
         Flattens(g, ss, n), Flattens(h, tt, d), n <= d, Agree(ss, tt, n)
  PROVE  Agree(g, h, n)
<1> USE DEF Agree
<1> DEFINE G == {k \in Nat : k \in 1..n => g[k] = h[k]}
<1>1. 0 \in G
  OBVIOUS
<1>2. ASSUME NEW k \in Nat, k \in G, k + 1 \in 1..n
      PROVE  g[k + 1] = h[k + 1]
  <2>1. /\ g[k + 1] = IF k + 1 = 1 THEN ss[k + 1] ELSE g[(k + 1) - 1] \o ss[k + 1]
        /\ h[k + 1] = IF k + 1 = 1 THEN tt[k + 1] ELSE h[(k + 1) - 1] \o tt[k + 1]
    <3>1. k + 1 \in 1..d
      BY <1>2
    <3> QED
      BY <1>2, <3>1 DEF Flattens
  <2>2. (k + 1) - 1 = k /\ ss[k + 1] = tt[k + 1]
    BY <1>2
  <2>3. CASE k = 0
    BY <2>1, <2>2, <2>3
  <2>4. CASE k # 0
    <3>1. k \in 1..n /\ k + 1 # 1
      BY <1>2, <2>4
    <3>2. g[k] = h[k]
      BY <1>2, <3>1
    <3> QED
      BY <2>1, <2>2, <3>1, <3>2
  <2> QED
    BY <2>3, <2>4
<1>3. \A k \in Nat : k \in G => k + 1 \in G
  BY <1>2
<1> HIDE DEF G
<1>4. Nat \subseteq G
  BY <1>1, <1>3, NatSetInduction
<1> QED
  BY <1>4 DEF G

\* The last of a solution is the flattened sequence.
LEMMA FlattenIs ==
  ASSUME NEW E, NEW ss \in Seq(Seq(E)), NEW g, Flattens(g, ss, Len(ss))
  PROVE  FlattenSeq(ss) = IF Len(ss) = 0 THEN <<>> ELSE g[Len(ss)]
<1> DEFINE h == CHOOSE k : Flattens(k, ss, Len(ss))
<1>1. Len(ss) \in Nat
  BY LenProperties
<1>2. CASE Len(ss) = 0
  <2>1. ss = <<>>
    BY <1>2, EmptySeq
  <2> QED
    BY <1>2, <2>1 DEF FlattenSeq
<1>3. CASE Len(ss) # 0
  <2>1. FlattenSeq(ss) = h[Len(ss)]
    BY <1>3 DEF FlattenSeq, Flattens
  <2>2. Flattens(h, ss, Len(ss))
    OBVIOUS
  <2> HIDE DEF h
  <2>3. Agree(g, h, Len(ss))
    BY <1>1, <2>2, FlattenAgree DEF Agree
  <2> QED
    BY <1>1, <1>3, <2>1, <2>3 DEF Agree
<1> QED
  BY <1>2, <1>3

LEMMA FlattenType ==
  ASSUME NEW E, NEW ss \in Seq(Seq(E))
  PROVE  FlattenSeq(ss) \in Seq(E)
<1>1. Len(ss) \in Nat /\ \A i \in 1..Len(ss) : ss[i] \in Seq(E)
  BY LenProperties, ElementOfSeq
<1>2. PICK g : Flattens(g, ss, Len(ss))
  BY <1>1, FlattenExists
<1> DEFINE G == {k \in Nat : k \in 1..Len(ss) => g[k] \in Seq(E)}
<1>3. 0 \in G
  BY <1>1
<1>4. ASSUME NEW k \in Nat, k \in G, k + 1 \in 1..Len(ss)
      PROVE  g[k + 1] \in Seq(E)
  <2>1. g[k + 1] = IF k + 1 = 1 THEN ss[k + 1] ELSE g[(k + 1) - 1] \o ss[k + 1]
    BY <1>2, <1>4 DEF Flattens
  <2>2. CASE k = 0
    BY <1>1, <1>4, <2>1, <2>2
  <2>3. CASE k # 0
    <3>1. k \in 1..Len(ss) /\ k + 1 # 1 /\ (k + 1) - 1 = k
      BY <1>1, <1>4, <2>3
    <3>2. g[k] \in Seq(E) /\ ss[k + 1] \in Seq(E)
      BY <1>1, <1>4, <3>1
    <3> QED
      BY <2>1, <3>1, <3>2, ConcatProperties
  <2> QED
    BY <2>2, <2>3
<1>5. ASSUME NEW k \in Nat, k \in G
      PROVE  k + 1 \in G
  <2>1. k + 1 \in 1..Len(ss) => g[k + 1] \in Seq(E)
    <3> HIDE DEF G
    <3> QED
      BY <1>4, <1>5
  <2> QED
    BY <2>1
<1> HIDE DEF G
<1>6. Nat \subseteq G
  BY <1>3, <1>5, NatSetInduction
<1>7. FlattenSeq(ss) = IF Len(ss) = 0 THEN <<>> ELSE g[Len(ss)]
  BY <1>2, FlattenIs
<1>8. Len(ss) # 0 => g[Len(ss)] \in Seq(E)
  BY <1>1, <1>6 DEF G
<1> QED
  BY <1>7, <1>8

\* One more sequence adds its elements.
LEMMA FlattenAppend ==
  ASSUME NEW E, NEW ss \in Seq(Seq(E)), NEW s \in Seq(E)
  PROVE  FlattenSeq(Append(ss, s)) = FlattenSeq(ss) \o s
<1> DEFINE n == Len(ss)
<1>1. n \in Nat
  BY LenProperties
<1>2. PICK tt : tt = Append(ss, s)
  OBVIOUS
<1>3. /\ tt \in Seq(Seq(E)) /\ Len(tt) = n + 1 /\ tt[n + 1] = s
      /\ \A i \in 1..n : ss[i] = tt[i]
  BY <1>2, AppendProperties
<1>4. PICK g : Flattens(g, ss, n)
  BY <1>1, FlattenExists
<1>5. n + 1 \in Nat /\ n <= n + 1
  BY <1>1
<1>5a. PICK h : Flattens(h, tt, n + 1)
  BY <1>5, FlattenExists
<1>6. FlattenSeq(ss) = IF n = 0 THEN <<>> ELSE g[n]
  BY <1>4, FlattenIs
<1>7. FlattenSeq(tt) = h[n + 1]
  <2>1. FlattenSeq(tt) = IF Len(tt) = 0 THEN <<>> ELSE h[Len(tt)]
    BY <1>3, <1>5a, FlattenIs
  <2> QED
    BY <1>1, <1>3, <2>1
<1>8. h[n + 1] = IF n + 1 = 1 THEN s ELSE h[(n + 1) - 1] \o s
  <2>1. n + 1 \in 1..(n + 1)
    BY <1>1
  <2> QED
    BY <1>3, <1>5a, <2>1 DEF Flattens
<1>9. Agree(g, h, n)
  <2>1. PICK d \in Nat : d = n + 1
    BY <1>5
  <2>2. Flattens(h, tt, d) /\ n <= d
    BY <1>5, <1>5a, <2>1
  <2>3. Agree(ss, tt, n)
    BY <1>3 DEF Agree
  <2> HIDE DEF n
  <2> QED
    BY <1>1, <1>4, <2>2, <2>3, FlattenAgree
<1>10. CASE n = 0
  <2>1. <<>> \o s = s
    BY ConcatEmptySeq
  <2> QED
    BY <1>2, <1>6, <1>7, <1>8, <1>10, <2>1
<1>11. CASE n # 0
  <2>1. n + 1 # 1 /\ (n + 1) - 1 = n /\ g[n] = h[n]
    BY <1>1, <1>9, <1>11 DEF Agree
  <2> HIDE DEF n
  <2> QED
    BY <1>2, <1>6, <1>7, <1>8, <1>11, <2>1
<1> QED
  BY <1>10, <1>11

\* Empty sequences add nothing.
LEMMA FlattenEmpty ==
  ASSUME NEW E, NEW ss \in Seq(Seq(E)), \A i \in 1..Len(ss) : ss[i] = <<>>
  PROVE  FlattenSeq(ss) = <<>>
<1>1. Len(ss) \in Nat
  BY LenProperties
<1>2. PICK g : Flattens(g, ss, Len(ss))
  BY <1>1, FlattenExists
<1> DEFINE G == {k \in Nat : k \in 1..Len(ss) => g[k] = <<>>}
<1>3. 0 \in G
  BY <1>1
<1>4. ASSUME NEW k \in Nat, k \in G, k + 1 \in 1..Len(ss)
      PROVE  g[k + 1] = <<>>
  <2>1. g[k + 1] = IF k + 1 = 1 THEN ss[k + 1] ELSE g[(k + 1) - 1] \o ss[k + 1]
    BY <1>2, <1>4 DEF Flattens
  <2>2. CASE k = 0
    BY <1>4, <2>1, <2>2
  <2>3. CASE k # 0
    <3>1. k \in 1..Len(ss) /\ k + 1 # 1 /\ (k + 1) - 1 = k
      BY <1>1, <1>4, <2>3
    <3>2. g[k] = <<>> /\ ss[k + 1] = <<>>
      BY <1>4, <3>1
    <3>3. <<>> \o <<>> = <<>>
      BY ConcatEmptySeq, EmptySeq
    <3> QED
      BY <2>1, <3>1, <3>2, <3>3
  <2> QED
    BY <2>2, <2>3
<1>5. ASSUME NEW k \in Nat, k \in G
      PROVE  k + 1 \in G
  <2>1. k + 1 \in 1..Len(ss) => g[k + 1] = <<>>
    <3> HIDE DEF G
    <3> QED
      BY <1>4, <1>5
  <2> QED
    BY <2>1
<1> HIDE DEF G
<1>6. Nat \subseteq G
  BY <1>3, <1>5, NatSetInduction
<1>7. FlattenSeq(ss) = IF Len(ss) = 0 THEN <<>> ELSE g[Len(ss)]
  BY <1>2, FlattenIs
<1>8. Len(ss) # 0 => g[Len(ss)] = <<>>
  BY <1>1, <1>6 DEF G
<1> QED
  BY <1>7, <1>8

(***************************************************************************)
(* The entries of a message in the rows of its file.                       *)
(***************************************************************************)
PartOf(r, m) == IF r.msg = m /\ ~ r.torn THEN r.items ELSE <<>>
Parts(rows, m) == [k \in DOMAIN rows |-> PartOf(rows[k], m)]

LEMMA PartsLemma ==
  ASSUME NEW rows \in Seq(RowsOf), NEW m
  PROVE  /\ Parts(rows, m) \in Seq(Seq(Entry))
         /\ FlattenSeq(Parts(rows, m)) \in Seq(Entry)
<1>1. Len(rows) \in Nat /\ DOMAIN rows = 1..Len(rows) /\ \A k \in 1..Len(rows) : rows[k] \in RowsOf
  BY LenProperties, ElementOfSeq
<1>2. \A k \in 1..Len(rows) : PartOf(rows[k], m) \in Seq(Entry)
  BY <1>1, EmptySeq DEF PartOf, RowsOf
<1>3. Parts(rows, m) \in [1..Len(rows) -> Seq(Entry)]
  BY <1>1, <1>2 DEF Parts
<1>4. Parts(rows, m) \in Seq(Seq(Entry))
  BY <1>1, <1>3, SeqDef
<1> QED
  BY <1>4, FlattenType

\* A new row adds its entries to those of its message, unless it is torn.
LEMMA AppendRow ==
  ASSUME NEW rows \in Seq(RowsOf), NEW r \in RowsOf, NEW m
  PROVE  FlattenSeq(Parts(Append(rows, r), m)) = FlattenSeq(Parts(rows, m)) \o PartOf(r, m)
<1>1. PartOf(r, m) \in Seq(Entry)
  BY EmptySeq DEF PartOf, RowsOf
<1>2. Parts(rows, m) \in Seq(Seq(Entry))
  BY PartsLemma
<1>3. Parts(Append(rows, r), m) = Append(Parts(rows, m), PartOf(r, m))
  <2>1. /\ Len(rows) \in Nat /\ DOMAIN rows = 1..Len(rows)
        /\ Append(rows, r) \in Seq(RowsOf) /\ Len(Append(rows, r)) = Len(rows) + 1
        /\ DOMAIN Append(rows, r) = 1..(Len(rows) + 1)
        /\ Append(rows, r)[Len(rows) + 1] = r
        /\ \A k \in 1..Len(rows) : Append(rows, r)[k] = rows[k]
    BY LenProperties, AppendProperties
  <2>2. Parts(rows, m) \in [1..Len(rows) -> Seq(Entry)] /\ Len(Parts(rows, m)) = Len(rows)
    BY <1>2, <2>1, LenProperties DEF Parts
  <2>3. PICK tt : tt = Append(Parts(rows, m), PartOf(r, m))
    OBVIOUS
  <2>4. /\ tt \in Seq(Seq(Entry)) /\ Len(tt) = Len(rows) + 1 /\ DOMAIN tt = 1..(Len(rows) + 1)
        /\ tt \in [1..(Len(rows) + 1) -> Seq(Entry)]
        /\ tt[Len(rows) + 1] = PartOf(r, m)
        /\ \A k \in 1..Len(rows) : tt[k] = Parts(rows, m)[k]
    <3>1. /\ tt \in Seq(Seq(Entry)) /\ Len(tt) = Len(rows) + 1
          /\ tt[Len(rows) + 1] = PartOf(r, m)
          /\ \A k \in 1..Len(rows) : tt[k] = Parts(rows, m)[k]
      <4> HIDE DEF Parts, PartOf
      <4> QED
        BY <1>1, <1>2, <2>2, <2>3, AppendProperties
    <3> QED
      BY <3>1, LenProperties
  <2>5. \A k \in 1..(Len(rows) + 1) : tt[k] = PartOf(Append(rows, r)[k], m)
    BY <2>1, <2>4 DEF Parts
  <2> QED
    BY <2>1, <2>3, <2>4, <2>5 DEF Parts
<1> QED
  BY <1>1, <1>2, <1>3, FlattenAppend

(***************************************************************************)
(* The exchange sort.                                                      *)
(***************************************************************************)
LEMMA MessageLemma ==
  ASSUME NEW m \in Messages
  PROVE  /\ m.file \in Files /\ m.ranks \in Seq(Nat) /\ Len(m.ranks) \in Nat
         /\ m.file = "traffic" => Len(m.ranks) > 0
         /\ m.file = "inference" => Len(m.ranks) = 1
<1>1. /\ m.file \in Files /\ m.ranks \in Seq(Nat)
      /\ m.file = "traffic" => m.ranks # <<>>
      /\ m.file = "inference" => Len(m.ranks) = 1
  BY ExportersAssumption
<1> QED
  BY <1>1, LenProperties, EmptySeq

\* What a message is given as is what the sort may begin with.
LEMMA ItemsLemma ==
  ASSUME NEW m \in Messages
  PROVE  /\ Items(m) \in Seq(Entry) /\ Len(Items(m)) = Len(m.ranks)
         /\ SortedUpTo(m, Items(m), 1, 2)
         /\ Len(Items(m)) < 2 => Sorted(m, Items(m))
<1>1. m.ranks \in Seq(Nat) /\ Len(m.ranks) \in Nat /\ DOMAIN m.ranks = 1..Len(m.ranks)
      /\ \A k \in 1..Len(m.ranks) : m.ranks[k] \in Nat
  BY MessageLemma, LenProperties, ElementOfSeq
<1> DEFINE n == Len(m.ranks)
<1>2. Items(m) = [k \in 1..n |-> [pos |-> k, rank |-> m.ranks[k]]]
  BY <1>1 DEF Items
<1> HIDE DEF n
<1>3. n \in Nat /\ Items(m) \in [1..n -> Entry]
  BY <1>1, <1>2 DEF Entry, n
<1>4. Items(m) \in Seq(Entry)
  BY <1>3, SeqDef
<1>5. Len(Items(m)) = n /\ DOMAIN Items(m) = 1..n
  BY <1>3, <1>4, LenProperties
<1>6. IsInjective(Items(m))
  <2>1. \A k \in 1..n : Items(m)[k].pos = k
    BY <1>2
  <2> QED
    BY <1>5, <2>1 DEF IsInjective
<1>7. SortedUpTo(m, Items(m), 1, 2)
  BY <1>5, <1>6 DEF SortedUpTo, AllOf
<1>8. n < 2 => Sorted(m, Items(m))
  BY <1>3, <1>5, <1>6 DEF Sorted, SortedUpTo, AllOf
<1> QED
  BY <1>4, <1>5, <1>7, <1>8 DEF n

Exchanged(m, s, i, j) ==
  IF After(m.file, s[i], s[j]) THEN [s EXCEPT ![i] = s[j], ![j] = s[i]] ELSE s

OnePairOn(m, s, t, i, j) == t \in Seq(Entry) /\ Len(t) = Len(s) /\ SortedUpTo(m, t, i, j + 1)

\* A pair that is compared, and exchanged if need be, is in order, as are
\* those before.
LEMMA ExchangeLemma ==
  ASSUME NEW m \in Messages, NEW s \in Seq(Entry), NEW i \in Nat, NEW j \in Nat,
         0 < i, i < j, j <= Len(s), SortedUpTo(m, s, i, j), NEW t, t = Exchanged(m, s, i, j)
  PROVE  OnePairOn(m, s, t, i, j)
<1> USE DEF OnePairOn
<1>1. /\ Len(s) \in Nat /\ DOMAIN s = 1..Len(s) /\ s \in [1..Len(s) -> Entry]
      /\ \A k \in 1..Len(s) : s[k].rank \in Nat
      /\ i \in 1..Len(s) /\ j \in 1..Len(s)
  <2>1. Len(s) \in Nat /\ DOMAIN s = 1..Len(s) /\ s \in [1..Len(s) -> Entry]
    BY LenProperties
  <2>2. \A k \in 1..Len(s) : s[k] \in Entry
    BY <2>1
  <2> QED
    BY <2>1, <2>2 DEF Entry
<1>2. /\ Range(s) = AllOf(m) /\ IsInjective(s)
      /\ \A k, l \in 1..Len(s) : k < l /\ (k < i \/ (k = i /\ l < j)) => ~ After(m.file, s[k], s[l])
  BY <1>1 DEF SortedUpTo
<1>3. CASE ~ After(m.file, s[i], s[j])
  <2>1. t = s
    BY <1>3 DEF Exchanged
  <2>2. ASSUME NEW k \in 1..Len(s), NEW l \in 1..Len(s), k < l, k < i \/ (k = i /\ l < j + 1)
        PROVE  ~ After(m.file, s[k], s[l])
    <3>1. (k < i \/ (k = i /\ l < j)) \/ (k = i /\ l = j)
      BY <2>2
    <3> QED
      BY <1>2, <1>3, <2>2, <3>1
  <2> QED
    BY <1>1, <1>2, <2>1, <2>2 DEF SortedUpTo
<1>4. CASE After(m.file, s[i], s[j])
  <2>1. t = [s EXCEPT ![i] = s[j], ![j] = s[i]]
    BY <1>4 DEF Exchanged
  <2>2. /\ t \in [1..Len(s) -> Entry] /\ t[i] = s[j] /\ t[j] = s[i]
        /\ \A k \in 1..Len(s) : k # i /\ k # j => t[k] = s[k]
    BY <1>1, <2>1
  <2>3. t \in Seq(Entry) /\ Len(t) = Len(s) /\ DOMAIN t = 1..Len(s)
    <3>1. t \in Seq(Entry)
      BY <1>1, <2>2, SeqDef
    <3> QED
      BY <1>1, <2>2, <3>1, LenProperties
  <2>4. Range(t) = Range(s)
    BY <1>1, <2>2, <2>3 DEF Range
  <2>5. IsInjective(t)
    <3> SUFFICES ASSUME NEW a \in 1..Len(s), NEW b \in 1..Len(s), t[a] = t[b]
                 PROVE  a = b
      BY <2>3 DEF IsInjective
    <3>1. \A k, l \in 1..Len(s) : s[k] = s[l] => k = l
      BY <1>1, <1>2 DEF IsInjective
    <3> QED
      BY <1>1, <2>2, <3>1
  <2>6. ASSUME NEW k \in 1..Len(s), NEW l \in 1..Len(s), k < l, k < i \/ (k = i /\ l < j + 1)
        PROVE  ~ After(m.file, t[k], t[l])
    <3>1. CASE k < i
      <4>1. t[k] = s[k] /\ ~ After(m.file, s[k], s[l]) /\ ~ After(m.file, s[k], s[i])
            /\ ~ After(m.file, s[k], s[j])
        BY <1>1, <1>2, <2>2, <2>6, <3>1
      <4> QED
        BY <1>1, <2>2, <4>1
    <3>2. CASE k = i /\ l < j
      <4>1. t[l] = s[l] /\ t[k] = s[j] /\ ~ After(m.file, s[i], s[l])
        BY <1>1, <1>2, <2>2, <2>6, <3>2
      <4> QED
        BY <1>1, <1>4, <4>1 DEF After
    <3>3. CASE k = i /\ l = j
      BY <1>1, <1>4, <2>2, <3>3 DEF After
    <3> QED
      BY <2>6, <3>1, <3>2, <3>3
  <2> QED
    BY <1>2, <2>3, <2>4, <2>5, <2>6 DEF SortedUpTo
<1> QED
  BY <1>3, <1>4

\* The pair after the last of a round is the first of the next round.
LEMMA RoundLemma ==
  ASSUME NEW m \in Messages, NEW s \in Seq(Entry), NEW i \in Nat,
         SortedUpTo(m, s, i, Len(s) + 1)
  PROVE  /\ SortedUpTo(m, s, i + 1, i + 2)
         /\ i + 2 > Len(s) => Sorted(m, s)
<1>1. Len(s) \in Nat /\ DOMAIN s = 1..Len(s)
  BY LenProperties
<1>2. \A k, l \in 1..Len(s) : k < l /\ k <= i => ~ After(m.file, s[k], s[l])
  BY <1>1 DEF SortedUpTo
<1> QED
  BY <1>1, <1>2 DEF Sorted, SortedUpTo

\* A sequence without repetitions has as many elements as places.
LEMMA InjectiveLemma ==
  ASSUME NEW e \in Seq(Entry), IsInjective(e)
  PROVE  Cardinality(Range(e)) = Len(e)
<1>1. Len(e) \in Nat /\ DOMAIN e = 1..Len(e) /\ e \in [1..Len(e) -> Entry]
  BY LenProperties
<1>2. e \in Bijection(1..Len(e), Range(e))
  <2>1. e \in [1..Len(e) -> Range(e)]
    BY <1>1 DEF Range
  <2>2. \A k, l \in 1..Len(e) : e[k] = e[l] => k = l
    BY <1>1 DEF IsInjective
  <2>3. \A x \in Range(e) : \E k \in 1..Len(e) : e[k] = x
    BY <1>1 DEF Range
  <2> QED
    BY <1>1, <2>1, <2>2, <2>3 DEF Bijection, Injection, Surjection, IsInjective
<1>3. IsFiniteSet(1..Len(e)) /\ Cardinality(1..Len(e)) = Len(e)
  BY <1>1, FS_Interval
<1>4. ExistsBijection(1..Len(e), Range(e))
  BY <1>2 DEF ExistsBijection
<1> QED
  BY <1>3, <1>4, FS_Bijection

\* The entries are the first of the message, in order, none twice.
FirstOnes(m, s) ==
  /\ InOrder(m, s)
  /\ Range(s) \subseteq AllOf(m) /\ Cardinality(Range(s)) = Len(s)
  /\ \A x \in Range(s), y \in AllOf(m) \ Range(s) : ~ After(m.file, x, y)

LEMMA FirstOnesLemma ==
  ASSUME NEW m \in Messages, NEW e \in Seq(Entry), NEW t \in Seq(Entry), Len(e) <= Len(t),
         \A k \in 1..Len(e) : e[k] = t[k], Sorted(m, t)
  PROVE  /\ FirstOnes(m, e)
         /\ Len(e) = Len(t) => Range(e) = AllOf(m)
<1>1. /\ Len(e) \in Nat /\ DOMAIN e = 1..Len(e) /\ Len(t) \in Nat /\ DOMAIN t = 1..Len(t)
  BY LenProperties
<1>2. /\ Range(t) = AllOf(m)
      /\ \A k, l \in 1..Len(t) : t[k] = t[l] => k = l
      /\ \A k, l \in 1..Len(t) : k < l => ~ After(m.file, t[k], t[l])
  BY <1>1 DEF Sorted, SortedUpTo, IsInjective
<1>3. IsInjective(e)
  BY <1>1, <1>2 DEF IsInjective
<1>4. InOrder(m, e)
  <2> SUFFICES ASSUME NEW k \in 1..(Len(e) - 1)
               PROVE  ~ After(m.file, e[k], e[k + 1])
    BY DEF InOrder
  <2>1. k \in 1..Len(e) /\ k + 1 \in 1..Len(e) /\ k \in 1..Len(t) /\ k + 1 \in 1..Len(t) /\ k < k + 1
    BY <1>1
  <2> QED
    BY <1>2, <2>1
<1>5. Range(e) \subseteq AllOf(m)
  BY <1>1, <1>2 DEF Range
<1>6. ASSUME NEW x \in Range(e), NEW y \in AllOf(m) \ Range(e)
      PROVE  ~ After(m.file, x, y)
  <2>1. PICK k \in 1..Len(e) : e[k] = x
    BY <1>1 DEF Range
  <2>2. PICK l \in 1..Len(t) : t[l] = y
    BY <1>1, <1>2 DEF Range
  <2>3. l \notin 1..Len(e)
    BY <1>1, <2>2 DEF Range
  <2>4. k \in 1..Len(t) /\ k < l
    BY <1>1, <2>3
  <2> QED
    BY <1>2, <2>1, <2>2, <2>4
<1>7. Len(e) = Len(t) => Range(e) = AllOf(m)
  BY <1>1, <1>2 DEF Range
<1> QED
  BY <1>3, <1>4, <1>5, <1>6, <1>7, InjectiveLemma DEF FirstOnes

(***************************************************************************)
(* The invariant: what is in the files fits what has been reported.        *)
(***************************************************************************)
\* All of the message, or as much of it as a row has room for.
Complete(m, s) == IF m.file = "topn" THEN Len(s) = 3 \/ Range(s) = AllOf(m) ELSE Range(s) = AllOf(m)

FilesFit ==
  /\ \A m \in Messages : FirstOnes(m, Entries(m, m.file))
  /\ \A m \in Messages : verdict[m] = "ok" /\ exporter[m.file] = "csv" => Complete(m, Entries(m, m.file))

Whole ==
  \A f \in Files : \A k \in DOMAIN file[f] :
    LET m == file[f][k].msg
    IN k < Len(file[f]) /\ file[f][k + 1].msg # m =>
         /\ Complete(m, Entries(m, f))
         /\ \A l \in (k + 1)..Len(file[f]) : file[f][l].msg # m

IInv == Inductive /\ FilesFit /\ Whole /\ ReportedIsWritten

\* A step that adds nothing to the rows of a message.
Untouched(m) == Entries(m, m.file)' = Entries(m, m.file) /\ (HasRow(m)' <=> HasRow(m))

LEMMA UntouchedLemma ==
  ASSUME NEW m, file' = file
  PROVE  Untouched(m)
BY DEF Untouched, Entries, HasRow

\* How a row changes its file.
AppendsRow(f, r) ==
  /\ file' = [file EXCEPT ![f] = Append(@, r)]
  /\ f \in Files /\ r \in RowsOf /\ r.msg.file = f

LEMMA EntriesLemma ==
  ASSUME TypeOK, NEW m, NEW f \in Files
  PROVE  Entries(m, f) = FlattenSeq(Parts(file[f], m)) /\ Entries(m, f) \in Seq(Entry)
<1>1. file[f] \in Seq(RowsOf)
  BY DEF TypeOK
<1>2. Entries(m, f) = FlattenSeq(Parts(file[f], m))
  BY DEF Entries, Parts, PartOf
<1> QED
  BY <1>1, <1>2, PartsLemma

\* Without rows there are no entries.
LEMMA NoRows ==
  ASSUME TypeOK, NEW m \in Messages, ~ HasRow(m)
  PROVE  Entries(m, m.file) = <<>> /\ FirstOnes(m, <<>>)
<1>1. m.file \in Files /\ file[m.file] \in Seq(RowsOf)
  BY MessageLemma DEF TypeOK
<1> DEFINE rows == file[m.file]
<1>2. Len(rows) \in Nat /\ DOMAIN rows = 1..Len(rows) /\ Parts(rows, m) \in Seq(Seq(Entry))
  BY <1>1, LenProperties, PartsLemma
<1>3. DOMAIN Parts(rows, m) = 1..Len(rows) /\ \A k \in 1..Len(rows) : Parts(rows, m)[k] = <<>>
  BY <1>2 DEF HasRow, Parts, PartOf
<1>4. Len(Parts(rows, m)) = Len(rows)
  BY <1>2, <1>3, LenProperties
<1>5. FlattenSeq(Parts(rows, m)) = <<>>
  <2> HIDE DEF rows
  <2> QED
    BY <1>2, <1>3, <1>4, FlattenEmpty
<1>6. FirstOnes(m, <<>>)
  <2>1. Range(<<>>) = {} /\ Len(<<>>) = 0 /\ Cardinality({}) = 0
    BY FS_EmptySet DEF Range
  <2>2. InOrder(m, <<>>)
    BY <2>1 DEF InOrder
  <2> QED
    BY <2>1, <2>2 DEF FirstOnes
<1> QED
  BY <1>1, <1>5, <1>6, EntriesLemma

LEMMA RowLemma ==
  ASSUME TypeOK, NEW f, NEW r, AppendsRow(f, r)
  PROVE  /\ file' \in [Files -> Seq(RowsOf)]
         /\ \A g \in Files : g # f => file'[g] = file[g]
         /\ Len(file[f]) \in Nat /\ Len(file'[f]) = Len(file[f]) + 1
         /\ DOMAIN file[f] = 1..Len(file[f]) /\ DOMAIN file'[f] = 1..(Len(file[f]) + 1)
         /\ \A k \in 1..Len(file[f]) : file'[f][k] = file[f][k]
         /\ file'[f][Len(file[f]) + 1] = r
<1>1. file \in [Files -> Seq(RowsOf)] /\ f \in Files /\ r \in RowsOf
  BY DEF TypeOK, AppendsRow
<1>2. file'[f] = Append(file[f], r) /\ \A g \in Files : g # f => file'[g] = file[g]
  BY <1>1 DEF AppendsRow
<1>3. /\ Append(file[f], r) \in Seq(RowsOf) /\ Len(Append(file[f], r)) = Len(file[f]) + 1
      /\ \A k \in 1..Len(file[f]) : Append(file[f], r)[k] = file[f][k]
      /\ Append(file[f], r)[Len(file[f]) + 1] = r
  BY <1>1, AppendProperties
<1>4. Len(file[f]) \in Nat /\ DOMAIN file[f] = 1..Len(file[f])
      /\ DOMAIN file'[f] = 1..Len(file'[f])
  BY <1>1, <1>2, <1>3, LenProperties
<1>5. file' \in [Files -> Seq(RowsOf)]
  BY <1>1, <1>3 DEF AppendsRow
<1> QED
  BY <1>2, <1>3, <1>4, <1>5

LEMMA AppendsLemma ==
  ASSUME TypeOK, NEW f, NEW r, AppendsRow(f, r), NEW m \in Messages
  PROVE  /\ m # r.msg => Untouched(m)
         /\ m = r.msg => HasRow(m)' /\ Entries(m, f)' = Entries(m, f) \o PartOf(r, m)
<1>1. f \in Files /\ r \in RowsOf /\ r.msg.file = f /\ file[f] \in Seq(RowsOf) /\ m.file \in Files
  BY MessageLemma DEF AppendsRow, TypeOK
<1>2. Entries(m, f)' = Entries(m, f) \o PartOf(r, m)
  <2>1. file'[f] = Append(file[f], r)
    BY <1>1 DEF AppendsRow, TypeOK
  <2>2. Entries(m, f)' = FlattenSeq(Parts(file'[f], m))
    BY DEF Entries, Parts, PartOf
  <2>3. Entries(m, f) = FlattenSeq(Parts(file[f], m))
    BY <1>1, EntriesLemma
  <2> QED
    BY <1>1, <2>1, <2>2, <2>3, AppendRow
<1>3. CASE m = r.msg
  <2>1. HasRow(m)'
    <3>1. /\ Len(file[f]) + 1 \in DOMAIN file'[f] /\ file'[f][Len(file[f]) + 1] = r
      BY RowLemma
    <3> QED
      BY <1>1, <1>3, <3>1 DEF HasRow
  <2> QED
    BY <1>2, <1>3, <2>1
<1>4. CASE m # r.msg /\ m.file = f
  <2>1. PartOf(r, m) = <<>>
    BY <1>4 DEF PartOf
  <2>2. Entries(m, f)' = Entries(m, f)
    BY <1>1, <1>2, <2>1, EntriesLemma, ConcatEmptySeq
  <2>3. HasRow(m)' <=> HasRow(m)
    <3>1. /\ Len(file[f]) \in Nat
          /\ DOMAIN file[f] = 1..Len(file[f]) /\ DOMAIN file'[f] = 1..(Len(file[f]) + 1)
          /\ \A k \in 1..Len(file[f]) : file'[f][k] = file[f][k]
          /\ file'[f][Len(file[f]) + 1] = r
      BY RowLemma
    <3>2. HasRow(m) <=> \E k \in 1..Len(file[f]) : file[f][k].msg = m
      BY <1>4, <3>1 DEF HasRow
    <3>3. HasRow(m)' <=> \E k \in 1..(Len(file[f]) + 1) : file'[f][k].msg = m
      BY <1>4, <3>1 DEF HasRow
    <3>4. \A k \in 1..(Len(file[f]) + 1) : k = Len(file[f]) + 1 \/ k \in 1..Len(file[f])
      BY <3>1
    <3> QED
      BY <1>4, <3>1, <3>2, <3>3, <3>4
  <2> QED
    BY <1>4, <2>2, <2>3 DEF Untouched
<1>5. CASE m.file # f
  <2>1. file'[m.file] = file[m.file]
    BY <1>1, <1>5, RowLemma
  <2> QED
    BY <1>1, <1>5, <2>1 DEF Untouched, Entries, HasRow
<1> QED
  BY <1>3, <1>4, <1>5

(***************************************************************************)
(* What a step keeps of a writer that it is not about, and of the files.   *)
(***************************************************************************)
LEMMA JobType ==
  ASSUME TypeOK, NEW w \in Writers, Busy(w)
  PROVE  /\ job[w] \in Jobs
         /\ job[w].msg \in Messages /\ job[w].items \in Seq(Entry) /\ job[w].at \in Nat \X Nat
         /\ job[w].msg.file \in Files
<1>1. job[w] \in Jobs
  BY DEF TypeOK, Busy
<1> QED
  BY <1>1, MessageLemma DEF Jobs

LEMMA OtherJob ==
  ASSUME NEW v \in Writers, NEW m, m = job[v].msg, pc'[v] = pc[v], job'[v] = job[v],
         todo' \subseteq todo, verdict'[m] = verdict[m], Untouched(m), JobFits(v)
  PROVE  JobFits(v)'
<1>1. job'[v].msg = m
  OBVIOUS
<1>2. HasRow(job[v].msg)' => HasRow(m)
  <2>1. HasRow(job[v].msg)' <=> HasRow(m)'
    BY <1>1
  <2> QED
    BY <2>1 DEF Untouched
<1>3. Entries(job[v].msg, job[v].msg.file)' = Entries(m, m.file)
  <2>1. Entries(job[v].msg, job[v].msg.file)' = Entries(m, m.file)'
    BY <1>1
  <2> QED
    BY <2>1 DEF Untouched
<1>4. WrittenAndHeld(v)' = WrittenAndHeld(v)
  BY <1>3 DEF WrittenAndHeld
<1> QED
  BY <1>2, <1>4 DEF JobFits, Sorted, SortedUpTo, AllOf, Items, After

LEMMA SameEntries ==
  ASSUME NEW m, FirstOnes(m, Entries(m, m.file)), Untouched(m)
  PROVE  FirstOnes(m, Entries(m, m.file))'
<1>1. FirstOnes(m, Entries(m, m.file)') <=> FirstOnes(m, Entries(m, m.file))
  BY DEF Untouched
<1> QED
  BY <1>1 DEF FirstOnes, InOrder, AllOf, Items

LEMMA SameFiles ==
  ASSUME FilesFit, Whole, ReportedIsWritten, UNCHANGED <<exporter, file, broken, verdict>>
  PROVE  FilesFit' /\ Whole' /\ ReportedIsWritten'
<1>1. FilesFit'
  <2>1. \A m \in Messages : FirstOnes(m, Entries(m, m.file))'
    BY UntouchedLemma, SameEntries DEF FilesFit
  <2>2. \A m \in Messages : verdict'[m] = "ok" /\ exporter'[m.file] = "csv" =>
          Complete(m, Entries(m, m.file))'
    BY DEF FilesFit, Entries, Complete, AllOf, Items
  <2> QED
    BY <2>1, <2>2 DEF FilesFit
<1>2. Whole'
  BY DEF Whole, Entries, AllOf, Items, Complete
<1>3. ReportedIsWritten'
  BY DEF ReportedIsWritten, Entries, AllOf, Items
<1> QED
  BY <1>1, <1>2, <1>3

LEMMA InitLemma == Init => IInv
<1> SUFFICES ASSUME Init
             PROVE  IInv
  OBVIOUS
<1>1. TypeOK
  <2>1. file \in [Files -> Seq(RowsOf)]
    BY EmptySeq DEF Init
  <2>2. \A f \in Files : \A k \in DOMAIN file[f] : file[f][k].msg.file = f
    BY DEF Init
  <2>3. {broken, open} \subseteq [Files -> BOOLEAN]
    BY DEF Init
  <2>4. /\ pc \in [Writers -> {"idle", "lock", "sort", "write", "off"}]
        /\ job \in [Writers -> Jobs \cup {NoJob}]
        /\ \A w \in Writers : pc[w] = "idle" /\ job[w] = NoJob
    BY DEF Init
  <2>5. verdict \in [Messages -> {"none", "ok", "failed"}] /\ todo \subseteq Messages
    BY DEF Init
  <2>6. exporter \in [Files -> {"csv", "none"}] /\ stopper \in {"no", "waiting", "closed"} /\ alive \in BOOLEAN
    BY DEF Init
  <2> QED
    BY <2>1, <2>2, <2>3, <2>4, <2>5, <2>6 DEF TypeOK
<1>2. \A f \in Files : file[f] = <<>> /\ DOMAIN file[f] = {}
  BY DEF Init
<1>3. \A m \in Messages : verdict[m] = "none" /\ ~ HasRow(m)
  BY <1>2, MessageLemma DEF HasRow, Init
<1>4. \A w \in Writers : pc[w] = "idle"
  BY DEF Init
<1>5. Inductive
  <2>1. pc[Monitor] # "lock" /\ \A w \in Workers : pc[w] # "off"
    BY <1>4 DEF Writers
  <2>2. \A w \in Writers : ~ Busy(w) /\ \A f \in Files : ~ Exporting(w, f)
    BY <1>4 DEF Busy, Exporting
  <2>3. OneWriter /\ RowsFit
    BY <1>2, <2>2 DEF OneWriter, RowsFit
  <2>4. todo = Messages
    BY DEF Init
  <2> QED
    BY <1>1, <1>3, <2>1, <2>2, <2>3, <2>4 DEF Inductive
<1>6. FilesFit
  <2>1. \A m \in Messages : Entries(m, m.file) = <<>> /\ FirstOnes(m, <<>>)
    BY <1>1, <1>3, NoRows
  <2> QED
    BY <1>3, <2>1 DEF FilesFit
<1>7. Whole
  BY <1>2 DEF Whole
<1>8. ReportedIsWritten
  BY <1>3 DEF ReportedIsWritten
<1> QED
  BY <1>5, <1>6, <1>7, <1>8 DEF IInv

\* The parts of Inductive other than TypeOK, of a step that leaves the files
\* as they are and takes one writer to its next step.
LEMMA QuietStep ==
  ASSUME Inductive, TypeOK', NEW w \in Writers, file' = file, UNCHANGED <<broken, open, verdict>>,
         \A v \in Writers : v # w => pc'[v] = pc[v] /\ job'[v] = job[v],
         todo' \subseteq todo, pc[w] # "write", pc'[w] \in {"lock", "sort", "write"},
         w = Monitor => pc'[w] # "lock", JobFits(w)',
         job'[w].msg \in Messages,
         \A v \in Writers : v # w /\ Busy(v) => job[v].msg # job'[w].msg,
         pc'[w] # "lock" => \A v \in Writers : v # w => ~ Exporting(v, job'[w].msg.file),
         ~ HasRow(job[w].msg)'
  PROVE  Inductive'
<1> USE DEF Inductive
<1>1. \A m : Untouched(m)
  BY UntouchedLemma
<1>2. (pc[Monitor] # "lock" /\ \A v \in Workers : pc[v] # "off")'
  BY DEF Writers
<1>3. ASSUME NEW v \in Writers, Busy(v)'
      PROVE  JobFits(v)'
  <2>1. CASE v = w
    BY <2>1
  <2>2. CASE v # w
    <3>1. JobFits(v) /\ pc'[v] = pc[v] /\ job'[v] = job[v]
      BY <1>3, <2>2 DEF Busy
    <3>2. PICK m : m = job[v].msg
      OBVIOUS
    <3> QED
      BY <1>1, <3>1, <3>2, OtherJob
  <2> QED
    BY <2>1, <2>2
<1>4. ASSUME NEW m \in todo'
      PROVE  (verdict[m] = "none" /\ ~ HasRow(m))'
  BY <1>1 DEF Untouched
<1>5. OneWriter'
  <2>1. ASSUME NEW v \in Writers, NEW x \in Writers, NEW f \in Files, Exporting(v, f)', Exporting(x, f)'
        PROVE  v = x
    BY <2>1 DEF Exporting, OneWriter
  <2>2. ASSUME NEW v \in Writers, NEW x \in Writers, Busy(v)', Busy(x)', job'[v].msg = job'[x].msg
        PROVE  v = x
    BY <2>2 DEF Busy, OneWriter
  <2>3. ASSUME NEW v \in Writers, NEW f \in Files, Exporting(v, f)', ~ open'[f]
        PROVE  ~ HasRow(job[v].msg)'
    <3>1. CASE v = w
      BY <3>1
    <3>2. CASE v # w
      <4> HIDE DEF Inductive
      <4>1. pc'[v] = pc[v] /\ job'[v] = job[v] /\ open' = open
        BY <3>2
      <4>2. Exporting(v, f)
        BY <2>3, <4>1 DEF Exporting
      <4>3. ~ HasRow(job[v].msg)
        BY <2>3, <4>1, <4>2 DEF Inductive, OneWriter
      <4> QED
        BY <4>1, <4>3 DEF HasRow
    <3> QED
      BY <3>1, <3>2
  <2> QED
    BY <2>1, <2>2, <2>3 DEF OneWriter
<1>6. RowsFit'
  <2>1. ASSUME NEW m, NEW v \in Writers, pc[v] = "write", job[v].msg = m
        PROVE  pc'[v] = "write" /\ job'[v].msg = m
    BY <2>1
  <2> QED
    BY <2>1 DEF RowsFit
<1> QED
  BY <1>2, <1>3, <1>4, <1>5, <1>6

LEMMA StartLemma ==
  ASSUME IInv, NEW w \in Writers, NEW m \in Messages, NEW step, Start(w, m, step),
         \/ w \in Workers /\ m.file # "topn" /\ step = "lock"
         \/ w = Monitor /\ m.file = "topn" /\ step = FirstStep(Items(m))
  PROVE  IInv'
<1> DEFINE j == [msg |-> m, items |-> Items(m), at |-> <<1, 2>>]
<1>1. /\ pc[w] = "idle" /\ m \in todo /\ todo' = todo \ {m}
      /\ pc' = [pc EXCEPT ![w] = step] /\ job' = [job EXCEPT ![w] = j]
      /\ UNCHANGED <<exporter, file, broken, open, verdict, stopper, alive>>
  BY DEF Start, fileVars
<1>2. step \in {"lock", "sort", "write"} /\ (w # Monitor <=> step = "lock")
  BY ExportersAssumption DEF FirstStep
<1>3. Inductive /\ TypeOK
  BY DEF IInv, Inductive
<1>4. /\ Items(m) \in Seq(Entry) /\ SortedUpTo(m, Items(m), 1, 2)
      /\ Len(Items(m)) < 2 => Sorted(m, Items(m))
      /\ Len(Items(m)) \in Nat
  BY ItemsLemma, LenProperties
<1>5. j \in Jobs
  BY <1>4 DEF Jobs
<1> HIDE DEF j
<1>6. /\ pc' \in [Writers -> {"idle", "lock", "sort", "write", "off"}]
      /\ pc'[w] = step /\ job'[w] = j
      /\ job' \in [Writers -> Jobs \cup {NoJob}]
      /\ \A v \in Writers : v # w => pc'[v] = pc[v] /\ job'[v] = job[v]
  BY <1>1, <1>2, <1>3, <1>5 DEF TypeOK
<1>7. TypeOK'
  <2>1. \A v \in Writers : IF pc'[v] \in {"idle", "off"} THEN job'[v] = NoJob ELSE job'[v] \in Jobs
    BY <1>2, <1>3, <1>5, <1>6 DEF TypeOK
  <2> QED
    BY <1>1, <1>3, <1>6, <2>1 DEF TypeOK
<1>8. j.msg = m /\ j.items = Items(m) /\ j.at = <<1, 2>> /\ j.at[1] = 1 /\ j.at[2] = 2
  BY DEF j
<1>9. verdict[m] = "none" /\ ~ HasRow(m)
  BY <1>1, <1>3 DEF Inductive
<1>10. \A k : Untouched(k) /\ (~ HasRow(k)' <=> ~ HasRow(k))
  BY <1>1, UntouchedLemma DEF Untouched
<1>10a. ~ HasRow(m)' /\ ~ HasRow(job[w].msg)'
  <2>1. ~ HasRow(m)'
    BY <1>9, <1>10
  <2>2. job'[w].msg = m
    BY <1>6, <1>8
  <2> QED
    BY <2>1, <2>2 DEF HasRow
<1>11. JobFits(w)'
  <2>1. job'[w].msg = m /\ job'[w].items = Items(m) /\ job'[w].at[1] = 1 /\ job'[w].at[2] = 2
        /\ job'[w].at = <<1, 2>>
    BY <1>6, <1>8
  <2>2. m \notin todo' /\ verdict'[m] = "none" /\ (m.file = "topn" <=> w = Monitor)
    BY <1>1, <1>9, ExportersAssumption
  <2>3. step = "sort" => Len(Items(m)) >= 2
    BY <1>4 DEF FirstStep
  <2>4. step = "write" => m.file = "topn" /\ Sorted(m, Items(m))
    BY <1>2, <1>4, ExportersAssumption DEF FirstStep
  <2>5. step = "sort" => SortedUpTo(job[w].msg, job[w].items, job[w].at[1], job[w].at[2])'
    BY <1>4, <2>1 DEF SortedUpTo, AllOf, Items, After
  <2>6. step = "write" => Sorted(job[w].msg, job[w].items)'
    <3>1. Sorted(job'[w].msg, job'[w].items) => Sorted(job[w].msg, job[w].items)'
      BY DEF Sorted, SortedUpTo, AllOf, Items, After
    <3> QED
      BY <2>1, <2>4, <3>1
  <2>7. step = "lock" => w # Monitor /\ job'[w].items = Items(job[w].msg)'
    BY <1>2, <2>1 DEF Items
  <2>8. step = "write" => job'[w].msg.file = "topn"
    BY <2>1, <2>4
  <2> QED
    BY <1>2, <1>4, <1>6, <1>10a, <2>1, <2>2, <2>3, <2>5, <2>6, <2>7, <2>8 DEF JobFits
<1>12. \A v \in Writers : v # w /\ Busy(v) => job[v].msg # m
  BY <1>1, <1>3 DEF Inductive, JobFits
<1>13. step # "lock" => \A v \in Writers : v # w => ~ Exporting(v, m.file)
  <2> SUFFICES ASSUME step # "lock", NEW v \in Writers, v # w
               PROVE  ~ Exporting(v, m.file)
    OBVIOUS
  <2>1. w = Monitor /\ m.file = "topn"
    BY <1>2
  <2>2. Busy(v) => job[v].msg.file # "topn"
    BY <1>3, <2>1 DEF Inductive, JobFits
  <2> QED
    BY <2>1, <2>2 DEF Exporting, Busy
<1>14. Inductive'
  BY <1>1, <1>2, <1>3, <1>6, <1>7, <1>8, <1>10a, <1>11, <1>12, <1>13, QuietStep
<1> QED
  BY <1>1, <1>14, SameFiles DEF IInv

LEMMA NoExporterLemma ==
  ASSUME IInv, NEW w \in Workers, NEW m \in Messages, HandleNoExporter(w, m)
  PROVE  IInv'
<1> USE DEF IInv, Inductive
<1>1. /\ exporter[m.file] = "none" /\ m \in todo /\ todo' = todo \ {m}
      /\ verdict' = [verdict EXCEPT ![m] = "ok"]
      /\ UNCHANGED <<exporter, file, broken, open, pc, job, stopper, alive>>
  BY DEF HandleNoExporter, fileVars
<1>2. verdict'[m] = "ok" /\ \A k \in Messages : k # m => verdict'[k] = verdict[k]
  BY <1>1 DEF TypeOK
<1>3. verdict[m] = "none" /\ ~ HasRow(m)
  BY <1>1
<1>4. \A k : Untouched(k)
  BY <1>1, UntouchedLemma
<1>5. TypeOK'
  BY <1>1 DEF TypeOK
<1>6. ASSUME NEW v \in Writers, Busy(v)'
      PROVE  JobFits(v)'
  <2>1. Busy(v) /\ JobFits(v) /\ job[v].msg \in Messages /\ job[v].msg # m
    BY <1>1, <1>6, JobType DEF Busy, JobFits
  <2>2. PICK k \in Messages : k = job[v].msg /\ verdict'[k] = verdict[k]
    BY <1>2, <2>1
  <2> QED
    BY <1>1, <1>4, <2>1, <2>2, OtherJob
<1>7. ASSUME NEW k \in todo'
      PROVE  (verdict[k] = "none" /\ ~ HasRow(k))'
  BY <1>1, <1>2, <1>4 DEF Untouched, TypeOK
<1>8. OneWriter'
  BY <1>1 DEF OneWriter, Exporting, Busy, HasRow
<1>9. \A f \in Files : \A k \in DOMAIN file[f] :
        file[f][k].msg \in Messages /\ file[f][k].msg # m /\ verdict'[file[f][k].msg] = verdict[file[f][k].msg]
  <2> SUFFICES ASSUME NEW f \in Files, NEW k \in DOMAIN file[f]
               PROVE  file[f][k].msg \in Messages /\ file[f][k].msg # m
    BY <1>2
  <2>1. file[f] \in Seq(RowsOf) /\ file[f][k].msg.file = f
    BY DEF TypeOK
  <2>2. file[f][k] \in RowsOf
    BY <2>1, LenProperties, ElementOfSeq
  <2>3. file[f][k].msg # m
    BY <1>3, <2>1 DEF HasRow
  <2> QED
    BY <2>2, <2>3 DEF RowsOf
<1>10. RowsFit'
  BY <1>1, <1>9 DEF RowsFit
<1>11. FilesFit'
  <2>1. \A k \in Messages : FirstOnes(k, Entries(k, k.file))'
    BY <1>4, SameEntries DEF FilesFit
  <2>2. ASSUME NEW k \in Messages, verdict'[k] = "ok", exporter'[k.file] = "csv"
        PROVE  Complete(k, Entries(k, k.file))'
    <3>1. Complete(k, Entries(k, k.file)) /\ Entries(k, k.file)' = Entries(k, k.file)
      BY <1>1, <1>2, <1>4, <2>2 DEF FilesFit, Untouched
    <3> QED
      BY <3>1 DEF Complete, AllOf, Items
  <2> QED
    BY <2>1, <2>2 DEF FilesFit
<1>12. Whole'
  BY <1>1 DEF Whole, Entries, Complete, AllOf, Items
<1>13. ReportedIsWritten'
  BY <1>1, <1>2, ZenonT(40) DEF ReportedIsWritten, Entries, AllOf, Items
<1> QED
  BY <1>1, <1>5, <1>6, <1>7, <1>8, <1>10, <1>11, <1>12, <1>13

\* Range and order do not change when nothing is put before them.
LEMMA NothingBefore ==
  ASSUME TypeOK, NEW m \in Messages, ~ HasRow(m), NEW s \in Seq(Entry)
  PROVE  Entries(m, m.file) \o s = s
BY NoRows, ConcatEmptySeq

LEMMA LockLemma ==
  ASSUME IInv, NEW w \in Workers, Lock(w)
  PROVE  IInv'
<1>0. Inductive /\ TypeOK /\ w \in Writers /\ w # Monitor
  BY ExportersAssumption DEF IInv, Inductive, Writers
<1> DEFINE m == job[w].msg
           s == job[w].items
<1>1. /\ pc[w] = "lock" /\ Busy(w)
      /\ \A v \in Writers : ~ Exporting(v, m.file)
      /\ pc' = [pc EXCEPT ![w] = FirstStep(s)]
      /\ UNCHANGED <<exporter, file, broken, open, job, todo, verdict, stopper, alive>>
  BY DEF Lock, fileVars, Busy
<1>2. m \in Messages /\ s \in Seq(Entry) /\ Len(s) \in Nat
  BY <1>0, <1>1, JobType, LenProperties
<1>3. /\ JobFits(w) /\ s = Items(m) /\ job[w].at = <<1, 2>> /\ m.file # "topn" /\ ~ HasRow(m)
      /\ m \notin todo /\ verdict[m] = "none"
  BY <1>0, <1>1 DEF Inductive, JobFits
<1>4. Entries(m, m.file) = <<>> /\ Entries(m, m.file) \o s = s
  BY <1>0, <1>2, <1>3, NoRows, NothingBefore
<1>5. FirstStep(s) \in {"sort", "write"} /\ pc'[w] = FirstStep(s)
      /\ \A v \in Writers : v # w => pc'[v] = pc[v]
  BY <1>0, <1>1 DEF FirstStep, TypeOK
<1>6. /\ SortedUpTo(m, s, 1, 2) /\ (Len(s) < 2 => Sorted(m, s)) /\ Len(s) > 0
  BY <1>2, <1>3, ItemsLemma, MessageLemma DEF Files
<1>7. Untouched(m)
  BY <1>1, UntouchedLemma
<1>8. ~ HasRow(job[w].msg)'
  BY <1>1, <1>3 DEF HasRow
<1>9. JobFits(w)'
  <2>1. m \notin todo' /\ verdict'[m] = "none" /\ job'[w] = job[w]
    BY <1>1, <1>3
  <2>2. pc'[w] = "sort" => SortedUpTo(job[w].msg, job[w].items, job[w].at[1], job[w].at[2])'
                           /\ job[w].at[1] = 1 /\ job[w].at[2] = 2 /\ 2 <= Len(s)
    <3>1. job[w].at[1] = 1 /\ job[w].at[2] = 2
      BY <1>3
    <3>2. SortedUpTo(job[w].msg, job[w].items, job[w].at[1], job[w].at[2])'
      BY <1>6, <2>1, <3>1 DEF SortedUpTo, AllOf, Items, After
    <3> QED
      BY <1>2, <1>5, <3>1, <3>2 DEF FirstStep
  <2>3. pc'[w] = "write" => Sorted(job[w].msg, WrittenAndHeld(w))' /\ s # <<>>
    <3>1. Sorted(m, s) => Sorted(job[w].msg, WrittenAndHeld(w))'
      <4>1. WrittenAndHeld(w)' = s
        BY <1>1, <1>4 DEF WrittenAndHeld, Entries
      <4>2. job'[w].msg = m
        BY <1>1
      <4> HIDE DEF m, s
      <4>3. Sorted(job[w].msg, WrittenAndHeld(w))' = Sorted(m, s)
        BY <4>1, <4>2
      <4> QED
        BY <4>3
    <3>2. pc'[w] = "write" => Len(s) < 2
      BY <1>5 DEF FirstStep
    <3> QED
      BY <1>6, <3>1, <3>2, EmptySeq
  <2> QED
    BY <1>0, <1>3, <1>5, <1>8, <2>1, <2>2, <2>3 DEF JobFits
<1>10. TypeOK'
  BY <1>0, <1>1, <1>5 DEF TypeOK
<1>11. \A v \in Writers : v # w /\ Busy(v) => job[v].msg # job'[w].msg
  BY <1>0, <1>1 DEF Inductive, OneWriter
<1>12. Inductive'
  BY <1>0, <1>1, <1>2, <1>5, <1>8, <1>9, <1>10, <1>11, QuietStep
<1> QED
  BY <1>1, <1>12, SameFiles DEF IInv

LEMMA SortLemma ==
  ASSUME IInv, NEW w \in Writers, Sort(w)
  PROVE  IInv'
<1>0. Inductive /\ TypeOK
  BY DEF IInv, Inductive
<1>1. PICK m : m = job[w].msg
  OBVIOUS
<1>2. PICK s : s = job[w].items
  OBVIOUS
<1>3. pc[w] = "sort" /\ Busy(w) /\ JobFits(w) /\ Exporting(w, m.file)
  BY <1>0, <1>1 DEF Sort, Busy, Inductive, Exporting
<1>4. m \in Messages /\ s \in Seq(Entry) /\ Len(s) \in Nat /\ job[w] \in Jobs /\ job[w].at \in Nat \X Nat
  BY <1>0, <1>1, <1>2, <1>3, JobType, LenProperties
<1>5. PICK i \in Nat, j \in Nat : job[w].at[1] = i /\ job[w].at[2] = j
  BY <1>4
<1>6. /\ 0 < i /\ i < j /\ j <= Len(s) /\ SortedUpTo(m, s, i, j)
      /\ m \notin todo /\ verdict[m] = "none" /\ (m.file = "topn" <=> w = Monitor) /\ ~ HasRow(m)
  BY <1>1, <1>2, <1>3, <1>5 DEF JobFits
<1>7. PICK t : t = Exchanged(m, s, i, j)
  OBVIOUS
<1>8. PICK p : p = IF j < Len(s) THEN <<i, j + 1>> ELSE <<i + 1, i + 2>>
  OBVIOUS
<1>9. /\ job' = [job EXCEPT ![w].at = p, ![w].items = t]
      /\ pc' = [pc EXCEPT ![w] = IF p[2] > Len(s) THEN "write" ELSE "sort"]
      /\ UNCHANGED <<exporter, file, broken, open, todo, verdict, stopper, alive>>
  BY <1>1, <1>2, <1>5, <1>7, <1>8 DEF Sort, Exchanged, fileVars
<1>10. t \in Seq(Entry) /\ Len(t) = Len(s) /\ SortedUpTo(m, t, i, j + 1)
  <2>1. OnePairOn(m, s, t, i, j)
    BY <1>4, <1>6, <1>7, ExchangeLemma
  <2> QED
    BY <2>1 DEF OnePairOn
<1>11. /\ p \in Nat \X Nat /\ p[1] \in Nat /\ p[2] \in Nat /\ 0 < p[1] /\ p[1] < p[2]
       /\ p[2] <= Len(s) => SortedUpTo(m, t, p[1], p[2])
       /\ p[2] > Len(s) => Sorted(m, t) /\ Len(s) > 0
  <2>1. CASE j < Len(s)
    BY <1>4, <1>6, <1>8, <1>10, <2>1
  <2>2. CASE ~ (j < Len(s))
    <3>1. j = Len(s) /\ p = <<i + 1, i + 2>>
      BY <1>4, <1>6, <1>8, <2>2
    <3>2. SortedUpTo(m, t, i + 1, i + 2) /\ (i + 2 > Len(t) => Sorted(m, t))
      BY <1>4, <1>10, <3>1, RoundLemma
    <3> QED
      BY <1>4, <1>6, <1>10, <3>1, <3>2
  <2> QED
    BY <2>1, <2>2
<1>12. /\ job'[w].msg = m /\ job'[w].items = t /\ job'[w].at = p /\ job'[w] \in Jobs
       /\ job' \in [Writers -> Jobs \cup {NoJob}]
       /\ \A v \in Writers : v # w => job'[v] = job[v]
  <2>1. job \in [Writers -> Jobs \cup {NoJob}]
    BY <1>0 DEF TypeOK
  <2>2. job'[w] = [job[w] EXCEPT !.at = p, !.items = t] /\ \A v \in Writers : v # w => job'[v] = job[v]
    BY <1>9, <2>1
  <2>3. job'[w].msg = m /\ job'[w].items = t /\ job'[w].at = p /\ job'[w] \in Jobs
    BY <1>1, <1>4, <1>10, <1>11, <2>2 DEF Jobs
  <2>4. job' = [job EXCEPT ![w] = job'[w]]
    BY <1>9, <2>1
  <2> QED
    BY <2>1, <2>2, <2>3, <2>4
<1>13. /\ pc'[w] = (IF p[2] > Len(s) THEN "write" ELSE "sort")
       /\ pc' \in [Writers -> {"idle", "lock", "sort", "write", "off"}]
       /\ \A v \in Writers : v # w => pc'[v] = pc[v]
  BY <1>0, <1>9 DEF TypeOK
<1>14. TypeOK'
  <2>1. \A v \in Writers : IF pc'[v] \in {"idle", "off"} THEN job'[v] = NoJob ELSE job'[v] \in Jobs
    BY <1>0, <1>12, <1>13 DEF TypeOK
  <2> QED
    BY <1>0, <1>9, <1>12, <1>13, <2>1 DEF TypeOK
<1>15. ~ HasRow(job[w].msg)' /\ ~ HasRow(m)
  BY <1>6, <1>9, <1>12 DEF HasRow
<1>16. JobFits(w)'
  <2>1. m \notin todo' /\ verdict'[m] = "none"
    BY <1>6, <1>9
  <2>2. pc'[w] = "sort" => SortedUpTo(job[w].msg, job[w].items, job[w].at[1], job[w].at[2])'
                           /\ p[2] <= Len(job'[w].items)
    <3>1. SortedUpTo(m, t, p[1], p[2]) => SortedUpTo(job[w].msg, job[w].items, job[w].at[1], job[w].at[2])'
      BY <1>12 DEF SortedUpTo, AllOf, Items, After
    <3> QED
      BY <1>4, <1>10, <1>11, <1>12, <1>13, <3>1
  <2>3. pc'[w] = "write" => Sorted(m, t) /\ t # <<>>
    BY <1>4, <1>10, <1>11, <1>13, EmptySeq
  <2>4. Sorted(m, t) => Sorted(job[w].msg, job[w].items)'
    BY <1>12 DEF Sorted, SortedUpTo, AllOf, Items, After
  <2>5. Sorted(m, t) => Sorted(job[w].msg, WrittenAndHeld(w))'
    <3>1. WrittenAndHeld(w)' = t
      <4>1. WrittenAndHeld(w)' = Entries(m, m.file) \o t
        <5>1. WrittenAndHeld(w)' = Entries(job[w].msg, job[w].msg.file)' \o job'[w].items
          BY DEF WrittenAndHeld, Entries
        <5>2. Entries(job[w].msg, job[w].msg.file)' = Entries(m, m.file)
          BY <1>9, <1>12 DEF Entries
        <5> QED
          BY <1>12, <5>1, <5>2
      <4> QED
        BY <1>0, <1>4, <1>10, <1>15, <4>1, NothingBefore
    <3> QED
      BY <1>12, <3>1 DEF Sorted, SortedUpTo, AllOf, Items, After
  <2> QED
    BY <1>6, <1>11, <1>12, <1>13, <1>15, <2>1, <2>2, <2>3, <2>4, <2>5 DEF JobFits
<1>17. \A v \in Writers : v # w =>
         ~ Exporting(v, m.file) /\ (Busy(v) => job[v].msg # m)
  BY <1>0, <1>1, <1>3, <1>4, MessageLemma DEF Inductive, OneWriter
<1>18. Inductive'
  BY <1>0, <1>3, <1>4, <1>9, <1>12, <1>13, <1>14, <1>15, <1>16, <1>17, QuietStep
<1> QED
  BY <1>9, <1>18, SameFiles DEF IInv


(***************************************************************************)
(* The steps of a writer that has a file.                                  *)
(***************************************************************************)
LEMMA WritingLemma ==
  ASSUME Inductive, NEW w \in Writers, NEW f \in Files, Writing(w, f), NEW m, m = job[w].msg
  PROVE  /\ m \in Messages /\ m.file = f /\ m \notin todo /\ verdict[m] = "none"
         /\ JobFits(w) /\ job[w] \in Jobs /\ job[w].items \in Seq(Entry) /\ exporter[f] = "csv"
         /\ \A v \in Writers : v # w => ~ Exporting(v, f) /\ (Busy(v) => job[v].msg # m)
<1>1. Busy(w) /\ Exporting(w, f) /\ exporter[f] = "csv" /\ m.file = f
  BY DEF Writing, Busy, Exporting
<1>2. TypeOK /\ JobFits(w)
  BY <1>1 DEF Inductive
<1>3. m \in Messages /\ job[w] \in Jobs /\ job[w].items \in Seq(Entry)
  BY <1>1, <1>2, JobType
<1>4. m \notin todo /\ verdict[m] = "none"
  BY <1>2 DEF JobFits
<1>5. \A v \in Writers : v # w => ~ Exporting(v, f) /\ (Busy(v) => job[v].msg # m)
  BY <1>1 DEF Inductive, OneWriter
<1> QED
  BY <1>1, <1>2, <1>3, <1>4, <1>5

\* The rows of other messages in a file that is written are those of messages
\* that are over, and the rows of the one being written are the last.
LEMMA AloneLemma ==
  ASSUME Inductive, NEW w \in Writers, NEW f \in Files, Writing(w, f), NEW m, m = job[w].msg,
         NEW k \in DOMAIN file[f]
  PROVE  /\ file[f][k] \in RowsOf /\ file[f][k].msg \in Messages /\ file[f][k].msg.file = f
         /\ file[f][k].msg # m => verdict[file[f][k].msg] # "none"
         /\ file[f][k].msg = m => \A l \in k..Len(file[f]) : file[f][l].msg = m
         /\ file[f][k].torn => broken[f]
<1>1. /\ \A v \in Writers : v # w => ~ Exporting(v, f)
      /\ verdict[m] = "none"
  BY WritingLemma
<1>2. file[f] \in Seq(RowsOf) /\ file[f][k].msg.file = f
  BY DEF Inductive, TypeOK
<1>3. file[f][k] \in RowsOf /\ file[f][k].msg \in Messages
  <2>1. file[f][k] \in RowsOf
    BY <1>2, LenProperties, ElementOfSeq
  <2> QED
    BY <2>1 DEF RowsOf
<1>4. /\ verdict[file[f][k].msg] # "none" \/ \E v \in Writers : pc[v] = "write" /\ job[v].msg = file[f][k].msg
      /\ verdict[file[f][k].msg] = "none" => \A l \in k..Len(file[f]) : file[f][l].msg = file[f][k].msg
      /\ file[f][k].torn => broken[f]
  BY DEF Inductive, RowsFit
<1>5. verdict[file[f][k].msg] # "none" \/ file[f][k].msg = m
  BY <1>1, <1>2, <1>4 DEF Exporting
<1> QED
  BY <1>1, <1>2, <1>3, <1>4, <1>5

\* Nothing else changes: the other writers, the other messages.
OthersStay(w, m) ==
  /\ \A v \in Writers : v # w => pc'[v] = pc[v] /\ job'[v] = job[v]
  /\ \A k \in Messages : k # m => verdict'[k] = verdict[k]
  /\ \A g \in Files : broken[g] => broken'[g]
  /\ UNCHANGED <<exporter, open, todo>>

\* A row of its message is added, or none.
RowAdded(f, m) ==
  \/ file' = file
  \/ /\ open[f] /\ ~ broken[f]
     /\ \E r : AppendsRow(f, r) /\ r.msg = m /\ (r.torn => broken'[f])

\* It is done with its message, or goes on with it.
EndsOrGoesOn(w, f, m) ==
  \/ pc'[w] = "idle" /\ job'[w] = NoJob /\ verdict'[m] # "none"
  \/ /\ pc'[w] = "write" /\ job'[w].msg = m /\ verdict'[m] = "none"
     /\ JobFits(w)' /\ open[f]

LEMMA RowAddedLemma ==
  ASSUME TypeOK, NEW f \in Files, NEW m, m.file = f, RowAdded(f, m), NEW k \in Messages, k # m
  PROVE  Untouched(k)
<1>1. CASE file' = file
  BY <1>1, UntouchedLemma
<1>2. CASE file' # file
  <2>1. PICK r : AppendsRow(f, r) /\ r.msg = m
    BY <1>2 DEF RowAdded
  <2> QED
    BY <2>1, AppendsLemma
<1> QED
  BY <1>1, <1>2

LEMMA FileStep ==
  ASSUME Inductive, TypeOK', NEW w \in Writers, NEW f \in Files, Writing(w, f),
         NEW m, m = job[w].msg, OthersStay(w, m), RowAdded(f, m), EndsOrGoesOn(w, f, m)
  PROVE  Inductive'
<1>1. /\ m \in Messages /\ m.file = f /\ m \notin todo /\ verdict[m] = "none" /\ JobFits(w)
      /\ \A v \in Writers : v # w => ~ Exporting(v, f) /\ (Busy(v) => job[v].msg # m)
  BY WritingLemma
<1>2. TypeOK /\ pc[w] = "write" /\ job[w].msg = m
  BY DEF Inductive, Writing
<1>3. \A k \in Messages : k # m => Untouched(k)
  BY <1>1, <1>2, RowAddedLemma
<1>4. pc'[w] \in {"idle", "write"}
  BY DEF EndsOrGoesOn
<1>5. (pc[Monitor] # "lock" /\ \A v \in Workers : pc[v] # "off")'
  BY <1>4 DEF Inductive, OthersStay, Writers
<1>6. ASSUME NEW v \in Writers, Busy(v)'
      PROVE  JobFits(v)'
  <2>1. CASE v = w
    BY <1>6, <2>1 DEF EndsOrGoesOn, Busy
  <2>2. CASE v # w
    <3>1. Busy(v) /\ JobFits(v) /\ pc'[v] = pc[v] /\ job'[v] = job[v] /\ todo' \subseteq todo
      BY <1>6, <2>2 DEF Busy, Inductive, OthersStay
    <3>2. job[v].msg \in Messages /\ job[v].msg # m
      BY <1>1, <1>2, <2>2, <3>1, JobType
    <3>3. PICK k \in Messages : k = job[v].msg /\ Untouched(k) /\ verdict'[k] = verdict[k]
      BY <1>3, <3>2 DEF OthersStay
    <3> QED
      BY <3>1, <3>3, OtherJob
  <2> QED
    BY <2>1, <2>2
<1>7. ASSUME NEW k \in todo'
      PROVE  (verdict[k] = "none" /\ ~ HasRow(k))'
  <2>1. k \in todo /\ k \in Messages /\ k # m
    BY <1>1, <1>2 DEF OthersStay, TypeOK
  <2> QED
    BY <1>3, <2>1 DEF OthersStay, Inductive, Untouched
<1>8. OneWriter'
  <2>1. ASSUME NEW v \in Writers, Busy(v)'
        PROVE  Busy(v) /\ job'[v].msg = job[v].msg
    BY <1>2, <2>1 DEF Busy, OthersStay, EndsOrGoesOn
  <2>2. ASSUME NEW v \in Writers, NEW g \in Files, Exporting(v, g)'
        PROVE  Exporting(v, g) /\ Busy(v)'
    BY <1>2, <2>2 DEF Busy, Exporting, OthersStay, EndsOrGoesOn
  <2>3. \A v, x \in Writers : Busy(v)' /\ Busy(x)' /\ job'[v].msg = job'[x].msg => v = x
    BY <2>1 DEF Inductive, OneWriter
  <2>4. \A v, x \in Writers, g \in Files : Exporting(v, g)' /\ Exporting(x, g)' => v = x
    BY <2>2 DEF Inductive, OneWriter
  <2>5. ASSUME NEW v \in Writers, NEW g \in Files, Exporting(v, g)', ~ open'[g]
        PROVE  ~ HasRow(job[v].msg)'
    <3>1. Exporting(v, g) /\ Busy(v)' /\ ~ open[g] /\ job'[v].msg = job[v].msg
      BY <2>1, <2>2, <2>5 DEF OthersStay
    <3>2. v # w
      BY <1>1, <1>2, <3>1, <2>5 DEF EndsOrGoesOn, Exporting
    <3>3. job[v].msg \in Messages /\ job[v].msg # m /\ ~ HasRow(job[v].msg)
      BY <1>1, <1>2, <2>1, <3>1, <3>2, JobType DEF Inductive, OneWriter
    <3>4. PICK k \in Messages : k = job[v].msg /\ Untouched(k)
      BY <1>3, <3>3
    <3>5. ~ HasRow(k)'
      BY <3>3, <3>4 DEF Untouched
    <3>6. HasRow(job[v].msg)' <=> HasRow(k)'
      BY <3>1, <3>4
    <3> QED
      BY <3>5, <3>6
  <2> QED
    BY <2>3, <2>4, <2>5 DEF OneWriter
<1>9. RowsFit'
  <2> DEFINE Fits(g, k) == LET x == file[g][k].msg
                 IN /\ verdict[x] # "none" \/ \E v \in Writers : pc[v] = "write" /\ job[v].msg = x
                    /\ verdict[x] = "none" => \A l \in k..Len(file[g]) : file[g][l].msg = x
                    /\ file[g][k].torn => broken[g] /\ k = Len(file[g])
  <2>1. ASSUME NEW g \in Files, g # f, NEW k \in DOMAIN file'[g]
        PROVE  Fits(g, k)'
    <3>1. file'[g] = file[g]
      BY <2>1, <1>2, RowLemma DEF RowAdded
    <3>2. file[g] \in Seq(RowsOf) /\ file[g][k].msg.file = g
      BY <1>2, <3>1 DEF TypeOK
    <3>3. file[g][k].msg \in Messages /\ file[g][k].msg # m
      <4>1. file[g][k] \in RowsOf
        BY <3>1, <3>2, LenProperties, ElementOfSeq
      <4> QED
        BY <1>1, <2>1, <3>2, <4>1 DEF RowsOf
    <3>4. verdict'[file[g][k].msg] = verdict[file[g][k].msg] /\ (broken[g] => broken'[g])
      BY <3>3 DEF OthersStay
    <3>5. Fits(g, k)
      BY <3>1 DEF Inductive, RowsFit
    <3>6. ASSUME NEW v \in Writers, pc[v] = "write", job[v].msg = file[g][k].msg
          PROVE  pc'[v] = "write" /\ job'[v].msg = file[g][k].msg
      BY <1>2, <3>3, <3>6 DEF OthersStay
    <3> QED
      BY <3>1, <3>4, <3>5, <3>6
  <2>2. /\ verdict'[m] # "none" \/ \E v \in Writers : pc'[v] = "write" /\ job'[v].msg = m
    BY DEF EndsOrGoesOn
  <2>3. \A k \in DOMAIN file[f] :
           /\ file[f][k].msg \in Messages
           /\ file[f][k].msg # m => verdict'[file[f][k].msg] # "none"
           /\ file[f][k].msg = m => \A l \in k..Len(file[f]) : file[f][l].msg = m
           /\ file[f][k].torn => broken[f] /\ k = Len(file[f])
    BY AloneLemma DEF OthersStay, Inductive, RowsFit
  <2>4. CASE file' = file
    <3>1. \A k \in DOMAIN file[f] : Fits(f, k)'
      BY <2>2, <2>3, <2>4 DEF OthersStay
    <3> QED
      BY <2>1, <2>4, <3>1 DEF RowsFit
  <2>5. CASE file' # file
    <3>1. PICK r : ~ broken[f] /\ AppendsRow(f, r) /\ r.msg = m /\ (r.torn => broken'[f])
      BY <2>5 DEF RowAdded
    <3>2. PICK n \in Nat : n = Len(file[f])
      BY <1>2, <3>1, RowLemma
    <3>3. /\ Len(file'[f]) = n + 1
          /\ DOMAIN file[f] = 1..n /\ DOMAIN file'[f] = 1..(n + 1)
          /\ \A k \in 1..n : file'[f][k] = file[f][k]
          /\ file'[f][n + 1] = r
      BY <1>2, <3>1, <3>2, RowLemma
    <3>4. ASSUME NEW k \in 1..(n + 1)
          PROVE  Fits(f, k)'
      <4>1. CASE k = n + 1
        <5>1. \A l \in (n + 1)..(n + 1) : l = n + 1
          BY <3>2
        <5> QED
          BY <2>2, <3>1, <3>3, <4>1, <5>1
      <4>2. CASE k # n + 1
        <5>1. k \in 1..n /\ file'[f][k] = file[f][k]
          BY <3>2, <3>3, <4>2
        <5>2. ~ file[f][k].torn
          BY <2>3, <3>1, <3>3, <5>1
        <5>3. CASE file[f][k].msg = m
          <6>1. \A l \in k..n : file[f][l].msg = m /\ l \in 1..n
            BY <2>3, <3>2, <3>3, <5>1, <5>3
          <6>2. \A l \in k..(n + 1) : l = n + 1 \/ l \in k..n
            BY <3>2
          <6>3. \A l \in k..(n + 1) : file'[f][l].msg = m
            BY <3>1, <3>3, <6>1, <6>2
          <6> QED
            BY <2>2, <3>3, <5>1, <5>2, <5>3, <6>3
        <5>4. CASE file[f][k].msg # m
          BY <2>3, <3>3, <5>1, <5>2, <5>4
        <5> QED
          BY <5>3, <5>4
      <4> QED
        BY <4>1, <4>2
    <3>5. \A g \in Files : \A k \in DOMAIN file'[g] : Fits(g, k)'
      BY <2>1, <3>3, <3>4
    <3> QED
      BY <3>5 DEF RowsFit
  <2> QED
    BY <2>4, <2>5
<1> QED
  BY <1>5, <1>6, <1>7, <1>8, <1>9 DEF Inductive


\* What is written of the message, and reported.
Accounted(f, m) ==
  /\ FirstOnes(m, Entries(m, f))'
  /\ verdict'[m] = "ok" =>
       /\ Complete(m, Entries(m, f))'
       /\ IF f = "topn" THEN \E k \in DOMAIN file'["topn"] :
                               file'["topn"][k].msg = m /\ ~ file'["topn"][k].torn
          ELSE Range(Entries(m, f)') = AllOf(m)
  /\ verdict'[m] = "failed" => broken'[f]

LEMMA FileStepFiles ==
  ASSUME IInv, NEW w \in Writers, NEW f \in Files, Writing(w, f),
         NEW m, m = job[w].msg, OthersStay(w, m), RowAdded(f, m), Accounted(f, m)
  PROVE  FilesFit' /\ Whole' /\ ReportedIsWritten'
<1>0. Inductive /\ TypeOK /\ FilesFit /\ Whole /\ ReportedIsWritten
  BY DEF IInv, Inductive
<1>1. /\ m \in Messages /\ m.file = f /\ exporter[f] = "csv"
  BY <1>0, WritingLemma
<1>2. \A k \in Messages : k # m => Untouched(k)
  BY <1>0, <1>1, RowAddedLemma
<1>3. \A k \in Messages : k # m => verdict'[k] = verdict[k]
  BY DEF OthersStay
<1>4. exporter' = exporter /\ \A g \in Files : broken[g] => broken'[g]
  BY DEF OthersStay
<1>5. FilesFit'
  <2>1. ASSUME NEW k \in Messages
        PROVE  FirstOnes(k, Entries(k, k.file))'
    <3>1. CASE k = m
      <4>1. FirstOnes(m, Entries(m, f))' => FirstOnes(k, Entries(k, k.file))'
        BY <1>1, <3>1
      <4> QED
        BY <4>1 DEF Accounted
    <3>2. CASE k # m
      BY <1>0, <1>2, <3>2, SameEntries DEF FilesFit
    <3> QED
      BY <3>1, <3>2
  <2>2. ASSUME NEW k \in Messages, verdict'[k] = "ok", exporter'[k.file] = "csv"
        PROVE  Complete(k, Entries(k, k.file))'
    <3>1. CASE k = m
      <4>1. Complete(m, Entries(m, f))' => Complete(k, Entries(k, k.file))'
        BY <1>1, <3>1
      <4> QED
        BY <2>2, <3>1, <4>1 DEF Accounted
    <3>2. CASE k # m
      <4>1. Complete(k, Entries(k, k.file)) /\ Entries(k, k.file)' = Entries(k, k.file)
        BY <1>0, <1>2, <1>3, <1>4, <2>2, <3>2 DEF FilesFit, Untouched
      <4> QED
        BY <4>1 DEF Complete, AllOf, Items
    <3> QED
      BY <3>1, <3>2
  <2> QED
    BY <2>1, <2>2 DEF FilesFit
<1>6. Whole'
  <2> DEFINE RowOver(g, k) ==
        LET x == file[g][k].msg
        IN k < Len(file[g]) /\ file[g][k + 1].msg # x =>
             /\ Complete(x, Entries(x, g))
             /\ \A l \in (k + 1)..Len(file[g]) : file[g][l].msg # x
  <2>0. ASSUME NEW g \in Files, NEW k \in DOMAIN file[g]
        PROVE  RowOver(g, k)
    BY <1>0 DEF Whole
  <2>1. ASSUME NEW g \in Files, file'[g] = file[g], NEW k \in DOMAIN file'[g]
        PROVE  RowOver(g, k)'
    <3>1. RowOver(g, k)
      BY <2>0, <2>1
    <3>2. Entries(file[g][k].msg, g)' = Entries(file[g][k].msg, g)
      BY <2>1 DEF Entries
    <3> QED
      BY <2>1, <3>1, <3>2 DEF Complete, AllOf, Items
  <2>2. CASE file' = file
    <3>1. \A g \in Files : \A k \in DOMAIN file'[g] : RowOver(g, k)'
      BY <2>1, <2>2
    <3> QED
      BY <3>1 DEF Whole
  <2>3. CASE file' # file
    <3>1. PICK r : ~ broken[f] /\ AppendsRow(f, r) /\ r.msg = m /\ (r.torn => broken'[f])
      BY <2>3 DEF RowAdded
    <3>2. PICK n \in Nat : n = Len(file[f])
      BY <1>0, <3>1, RowLemma
    <3>3. /\ Len(file'[f]) = n + 1
          /\ DOMAIN file[f] = 1..n /\ DOMAIN file'[f] = 1..(n + 1)
          /\ \A k \in 1..n : file'[f][k] = file[f][k]
          /\ file'[f][n + 1] = r
      BY <1>0, <3>1, <3>2, RowLemma
    <3>4. \A g \in Files : g # f => file'[g] = file[g]
      BY <1>0, <3>1, RowLemma
    <3>5. ASSUME NEW k \in 1..(n + 1), k < n + 1, file'[f][k + 1].msg # file'[f][k].msg
          PROVE  /\ Complete(file[f][k].msg, Entries(file[f][k].msg, f))'
                 /\ \A l \in (k + 1)..(n + 1) : file'[f][l].msg # file'[f][k].msg
      <4>1. k \in 1..n /\ file'[f][k] = file[f][k]
        BY <3>2, <3>3, <3>5
      <4>2. PICK x : x = file[f][k].msg
        OBVIOUS
      <4>3. x \in Messages /\ x.file = f /\ (x # m => verdict[x] # "none")
            /\ (x = m => \A l \in k..n : file[f][l].msg = m)
        BY <1>0, <3>2, <3>3, <4>1, <4>2, AloneLemma
      <4>4. x # m
        <5> SUFFICES ASSUME x = m
                     PROVE  FALSE
          OBVIOUS
        <5>1. CASE k = n
          BY <3>1, <3>3, <3>5, <4>1, <4>2, <5>1
        <5>2. CASE k # n
          <6>1. k + 1 \in 1..n /\ k + 1 \in k..n
            BY <3>2, <4>1, <5>2
          <6>2. file'[f][k + 1] = file[f][k + 1]
            BY <3>3, <6>1
          <6> QED
            BY <3>5, <4>1, <4>2, <4>3, <6>1, <6>2
        <5> QED
          BY <5>1, <5>2
      <4>5. Complete(x, Entries(x, f)) /\ \A l \in (k + 1)..n : file[f][l].msg # x
        <5>1. CASE k = n
          <6>1. verdict[x] \in {"none", "ok", "failed"}
            BY <1>0, <4>3 DEF TypeOK
          <6>2. verdict[x] = "ok"
            BY <1>0, <3>1, <4>3, <4>4, <6>1 DEF ReportedIsWritten
          <6>3. Complete(x, Entries(x, f))
            BY <1>0, <1>1, <4>3, <6>2 DEF FilesFit
          <6>4. \A l \in (k + 1)..n : FALSE
            BY <3>2, <5>1
          <6> QED
            BY <6>3, <6>4
        <5>2. CASE k # n
          <6>1. k + 1 \in 1..n /\ k < n
            BY <3>2, <4>1, <5>2
          <6>2. file'[f][k + 1] = file[f][k + 1] /\ file[f][k + 1].msg # x
            BY <3>3, <3>5, <4>1, <4>2, <6>1
          <6>3. RowOver(f, k)
            BY <2>0, <3>3, <4>1
          <6> QED
            BY <3>2, <4>2, <6>1, <6>2, <6>3
        <5> QED
          BY <5>1, <5>2
      <4>6. Entries(x, f)' = Entries(x, f)
        BY <1>2, <4>3, <4>4 DEF Untouched
      <4>7. Complete(file[f][k].msg, Entries(file[f][k].msg, f))'
        <5>1. Entries(file[f][k].msg, f)' = Entries(x, f)
          BY <4>1, <4>2, <4>6 DEF Entries
        <5>2. Complete(x, Entries(file[f][k].msg, f)')
          BY <4>5, <5>1
        <5>3. file'[f][k].msg = x
          BY <4>1, <4>2
        <5> QED
          BY <5>2, <5>3 DEF Complete, AllOf, Items
      <4>8. ASSUME NEW l \in (k + 1)..(n + 1)
            PROVE  file'[f][l].msg # file'[f][k].msg
        <5>1. l = n + 1 \/ (l \in (k + 1)..n /\ l \in 1..n)
          BY <3>2, <4>1
        <5> QED
          BY <3>1, <3>3, <4>1, <4>2, <4>4, <4>5, <5>1
      <4> QED
        BY <4>7, <4>8
    <3>6. \A k \in DOMAIN file'[f] : RowOver(f, k)'
      BY <3>3, <3>5
    <3>7. \A g \in Files : \A k \in DOMAIN file'[g] : RowOver(g, k)'
      BY <2>1, <3>4, <3>6
    <3> QED
      BY <3>7 DEF Whole
  <2> QED
    BY <2>2, <2>3
<1>7. ReportedIsWritten'
  <2>1. ASSUME NEW k \in Messages, verdict'[k] = "ok", exporter'[k.file] = "csv", k.file = "topn"
        PROVE  \E l \in DOMAIN file'["topn"] : file'["topn"][l].msg = k /\ ~ file'["topn"][l].torn
    <3>1. CASE k = m
      BY <1>1, <2>1, <3>1 DEF Accounted
    <3>2. CASE k # m
      <4>1. PICK l \in DOMAIN file["topn"] : file["topn"][l].msg = k /\ ~ file["topn"][l].torn
        BY <1>0, <1>3, <1>4, <2>1, <3>2 DEF ReportedIsWritten
      <4>2. l \in DOMAIN file'["topn"] /\ file'["topn"][l] = file["topn"][l]
        <5>1. CASE file' = file
          BY <4>1, <5>1
        <5>2. CASE file' # file
          <6>1. PICK r : AppendsRow(f, r)
            BY <5>2 DEF RowAdded
          <6>2. CASE f = "topn"
            <7>1. /\ Len(file[f]) \in Nat /\ DOMAIN file[f] = 1..Len(file[f])
                  /\ DOMAIN file'[f] = 1..(Len(file[f]) + 1)
                  /\ \A i \in 1..Len(file[f]) : file'[f][i] = file[f][i]
              BY <1>0, <6>1, RowLemma
            <7>2. l \in 1..Len(file[f]) /\ l \in 1..(Len(file[f]) + 1)
              BY <4>1, <6>2, <7>1
            <7> QED
              BY <6>2, <7>1, <7>2
          <6>3. CASE f # "topn"
            <7>1. file'["topn"] = file["topn"]
              BY <1>0, <6>1, <6>3, RowLemma DEF Files
            <7> QED
              BY <4>1, <7>1
          <6> QED
            BY <6>2, <6>3
        <5> QED
          BY <5>1, <5>2
      <4> QED
        BY <4>1, <4>2
    <3> QED
      BY <3>1, <3>2
  <2>2. ASSUME NEW k \in Messages, verdict'[k] = "ok", exporter'[k.file] = "csv", k.file # "topn"
        PROVE  Range(Entries(k, k.file)') = AllOf(k)
    <3>1. CASE k = m
      BY <1>1, <2>2, <3>1 DEF Accounted
    <3>2. CASE k # m
      <4>1. Entries(k, k.file)' = Entries(k, k.file)
        BY <1>2, <3>2 DEF Untouched
      <4> QED
        BY <1>0, <1>3, <1>4, <2>2, <3>2, <4>1 DEF ReportedIsWritten
    <3> QED
      BY <3>1, <3>2
  <2>3. ASSUME NEW k \in Messages, verdict'[k] = "failed"
        PROVE  broken'[k.file]
    <3>1. CASE k = m
      BY <1>1, <2>3, <3>1 DEF Accounted
    <3>2. CASE k # m
      BY <1>0, <1>3, <1>4, <2>3, <3>2, MessageLemma DEF ReportedIsWritten
    <3> QED
      BY <3>1, <3>2
  <2> QED
    BY <2>1, <2>2, <2>3 DEF ReportedIsWritten, Range, AllOf, Items, Entries
<1> QED
  BY <1>5, <1>6, <1>7


LEMMA MinLemma ==
  ASSUME NEW n \in Nat
  PROVE  Min({3, n}) = IF n < 3 THEN n ELSE 3
<1> DEFINE l == IF n < 3 THEN n ELSE 3
<1>1. l \in {3, n} /\ \A y \in {3, n} : l =< y
  OBVIOUS
<1>2. \A x \in {3, n} : (\A y \in {3, n} : x =< y) => x = l
  OBVIOUS
<1> HIDE DEF l
<1>3. (CHOOSE x \in {3, n} : \A y \in {3, n} : x =< y) = l
  BY <1>1, <1>2
<1> QED
  BY <1>3 DEF Min, l

\* What is on the disk of a message, e, with its next line x: y is left.
NextLine(m, f, e, x, y) ==
  /\ x \in Seq(Entry) /\ y \in Seq(Entry) /\ e \in Seq(Entry)
  /\ FirstOnes(m, e) /\ FirstOnes(m, e \o x)
  /\ y = <<>> => Complete(m, e \o x) /\ (f # "topn" => Range(e \o x) = AllOf(m))
  /\ y # <<>> => f # "topn" /\ Sorted(m, (e \o x) \o y)

LEMMA LineLemma ==
  ASSUME IInv, NEW w \in Writers, NEW f \in Files, Writing(w, f), NEW m, m = job[w].msg
  PROVE  NextLine(m, f, Entries(m, f), Line(w), Rest(w))
<1>0. Inductive /\ TypeOK /\ FilesFit
  BY DEF IInv, Inductive
<1>1. m \in Messages /\ m.file = f /\ JobFits(w) /\ job[w].items \in Seq(Entry) /\ pc[w] = "write"
  BY <1>0, WritingLemma DEF Writing
<1>2. PICK s : s = job[w].items
  OBVIOUS
<1>3. PICK e : e = Entries(m, f)
  OBVIOUS
<1>4. s \in Seq(Entry) /\ e \in Seq(Entry) /\ FirstOnes(m, e) /\ Len(s) \in Nat /\ Len(e) \in Nat
  <2>1. s \in Seq(Entry) /\ e \in Seq(Entry) /\ FirstOnes(m, e)
    BY <1>0, <1>1, <1>2, <1>3, EntriesLemma DEF FilesFit
  <2> QED
    BY <2>1, LenProperties
<1>4a. \A i \in 1..Len(s) : s[i] \in Entry
  BY <1>4, ElementOfSeq
<1>5. CASE f # "topn"
  <2>1. s # <<>> /\ Sorted(m, e \o s)
    BY <1>1, <1>2, <1>3, <1>5 DEF JobFits, WrittenAndHeld
  <2>2. PICK x : x = SubSeq(s, 1, 1)
    OBVIOUS
  <2>3. PICK y : y = Tail(s)
    OBVIOUS
  <2>4. Line(w) = x /\ Rest(w) = y
    BY <1>1, <1>2, <1>5, <2>2, <2>3 DEF Line, Rest
  <2>5. Len(s) >= 1
    BY <1>4, <2>1, EmptySeq
  <2>6. x \in Seq(Entry) /\ Len(x) = 1 /\ x[1] = s[1]
    <3>1. \A i \in 1..1 : s[i] \in Entry
      BY <1>4, <1>4a, <2>5
    <3>2. /\ SubSeq(s, 1, 1) \in Seq(Entry)
          /\ Len(SubSeq(s, 1, 1)) = IF 1 <= 1 THEN 1 - 1 + 1 ELSE 0
          /\ \A i \in 1..1 - 1 + 1 : SubSeq(s, 1, 1)[i] = s[1 + i - 1]
      BY <3>1, SubSeqProperties
    <3> QED
      BY <2>2, <3>2
  <2>7. y \in Seq(Entry) /\ Len(y) = Len(s) - 1 /\ \A i \in 1..Len(y) : y[i] = s[i + 1]
    BY <1>4, <2>1, <2>3, HeadTailProperties
  <2>8. PICK t : t = e \o s
    OBVIOUS
  <2>9. /\ t \in Seq(Entry) /\ Len(t) = Len(e) + Len(s)
        /\ \A i \in 1..Len(e) + Len(s) : t[i] = IF i <= Len(e) THEN e[i] ELSE s[i - Len(e)]
    BY <1>4, <2>8, ConcatProperties
  <2>10. PICK z : z = e \o x
    OBVIOUS
  <2>11. /\ z \in Seq(Entry) /\ Len(z) = Len(e) + 1
         /\ \A i \in 1..Len(e) + 1 : z[i] = IF i <= Len(e) THEN e[i] ELSE x[i - Len(e)]
    <3>1. /\ z \in Seq(Entry) /\ Len(z) = Len(e) + Len(x)
          /\ \A i \in 1..Len(e) + Len(x) : z[i] = IF i <= Len(e) THEN e[i] ELSE x[i - Len(e)]
      BY <1>4, <2>6, <2>10, ConcatProperties
    <3> QED
      BY <2>6, <3>1
  <2>12. Len(z) <= Len(t) /\ \A i \in 1..Len(z) : z[i] = t[i]
    <3>1. ASSUME NEW i \in 1..Len(z)
          PROVE  z[i] = t[i]
      <4>1. i \in 1..Len(e) + 1 /\ i \in 1..Len(e) + Len(s)
        BY <1>4, <2>5, <2>11
      <4>2. ~ (i <= Len(e)) => i - Len(e) = 1
        BY <1>4, <4>1
      <4> QED
        BY <2>6, <2>9, <2>11, <4>1, <4>2
    <3> QED
      BY <1>4, <2>5, <2>9, <2>11, <3>1
  <2>13. FirstOnes(m, z) /\ (Len(z) = Len(t) => Range(z) = AllOf(m))
    BY <1>1, <2>1, <2>8, <2>9, <2>11, <2>12, FirstOnesLemma
  <2>14. CASE y = <<>>
    <3>1. Len(z) = Len(t)
      <4>1. Len(y) = 0
        BY <2>14, EmptySeq
      <4>2. Len(y) = Len(s) - 1
        BY <2>7
      <4>3. Len(s) = 1
        BY <1>4, <4>1, <4>2
      <4>4. Len(z) = Len(e) + 1 /\ Len(t) = Len(e) + Len(s)
        BY <2>9, <2>11
      <4> QED
        BY <1>4, <4>3, <4>4
    <3> QED
      BY <1>1, <1>3, <1>4, <1>5, <2>4, <2>6, <2>7, <2>10, <2>13, <2>14, <3>1 DEF NextLine, Complete
  <2>15. CASE y # <<>>
    <3>1. PICK u : u = z \o y
      OBVIOUS
    <3>2. /\ u \in Seq(Entry) /\ Len(u) = Len(z) + Len(y)
          /\ \A i \in 1..Len(z) + Len(y) : u[i] = IF i <= Len(z) THEN z[i] ELSE y[i - Len(z)]
      BY <2>7, <2>11, <3>1, ConcatProperties
    <3>3. Len(u) = Len(t)
      BY <1>4, <2>7, <2>9, <2>11, <3>2
    <3>4. ASSUME NEW i \in 1..Len(u)
          PROVE  u[i] = t[i]
      <4>1. i \in 1..Len(z) + Len(y) /\ i \in 1..Len(e) + Len(s)
        BY <2>9, <3>2, <3>3
      <4>2. CASE i <= Len(z)
        <5>1. i \in 1..Len(z)
          BY <1>4, <2>11, <4>1, <4>2
        <5> QED
          BY <2>12, <3>2, <4>1, <4>2, <5>1
      <4>3. CASE ~ (i <= Len(z))
        <5>1. /\ i - Len(z) \in 1..Len(y) /\ (i - Len(z)) + 1 = i - Len(e) /\ ~ (i <= Len(e))
          BY <1>4, <2>7, <2>11, <4>1, <4>3
        <5>2. PICK d \in 1..Len(y) : d = i - Len(z)
          BY <5>1
        <5>3. y[d] = s[d + 1] /\ d + 1 = i - Len(e)
          BY <2>7, <5>1, <5>2
        <5> QED
          BY <2>9, <3>2, <4>1, <4>3, <5>1, <5>2, <5>3
      <4> QED
        BY <4>2, <4>3
    <3>5. u = t
      BY <2>9, <3>2, <3>3, <3>4, SeqEqual
    <3> QED
      BY <1>3, <1>4, <1>5, <2>1, <2>4, <2>6, <2>7, <2>8, <2>10, <2>13, <2>15, <3>1, <3>5 DEF NextLine
  <2> QED
    BY <2>14, <2>15
<1>6. CASE f = "topn"
  <2>1. Sorted(m, s) /\ ~ HasRow(m)
    BY <1>1, <1>2, <1>6 DEF JobFits
  <2>2. e = <<>>
    BY <1>0, <1>1, <1>3, <2>1, NoRows
  <2>3. PICK n : n = Min({3, Len(s)})
    OBVIOUS
  <2>4. n = (IF Len(s) < 3 THEN Len(s) ELSE 3) /\ n \in Nat /\ n <= Len(s)
    BY <1>4, <2>3, MinLemma
  <2>5. PICK x : x = SubSeq(s, 1, n)
    OBVIOUS
  <2>6. Line(w) = x /\ Rest(w) = <<>>
    BY <1>1, <1>2, <1>6, <2>3, <2>5 DEF Line, Rest
  <2>7. x \in Seq(Entry) /\ Len(x) = n /\ \A i \in 1..n : x[i] = s[i]
    <3>1. 1 \in Int /\ n \in Int /\ \A i \in 1..n : s[i] \in Entry
      BY <1>4, <1>4a, <2>4
    <3>2. /\ SubSeq(s, 1, n) \in Seq(Entry)
          /\ Len(SubSeq(s, 1, n)) = IF 1 <= n THEN n - 1 + 1 ELSE 0
          /\ \A i \in 1..n - 1 + 1 : SubSeq(s, 1, n)[i] = s[1 + i - 1]
      BY <3>1, SubSeqProperties
    <3> QED
      BY <2>4, <2>5, <3>2
  <2>8. FirstOnes(m, x) /\ (Len(x) = Len(s) => Range(x) = AllOf(m))
    <3>1. Len(x) <= Len(s) /\ \A i \in 1..Len(x) : x[i] = s[i]
      BY <2>4, <2>7
    <3> QED
      BY <1>1, <1>4, <2>1, <2>7, <3>1, FirstOnesLemma
  <2>9. Complete(m, x)
    BY <1>1, <1>4, <1>6, <2>4, <2>7, <2>8 DEF Complete
  <2>10. e \o x = x
    BY <2>2, <2>7, ConcatEmptySeq
  <2>11. <<>> \in Seq(Entry)
    BY EmptySeq
  <2> QED
    BY <1>3, <1>4, <1>6, <2>6, <2>7, <2>8, <2>9, <2>10, <2>11 DEF NextLine
<1> QED
  BY <1>5, <1>6


LEMMA RowsType ==
  ASSUME TypeOK, NEW f, NEW r, AppendsRow(f, r)
  PROVE  /\ file' \in [Files -> Seq(RowsOf)]
         /\ \A g \in Files : \A k \in DOMAIN file'[g] : file'[g][k].msg.file = g
<1>1. /\ file' \in [Files -> Seq(RowsOf)]
      /\ \A g \in Files : g # f => file'[g] = file[g]
      /\ Len(file[f]) \in Nat
      /\ DOMAIN file[f] = 1..Len(file[f]) /\ DOMAIN file'[f] = 1..(Len(file[f]) + 1)
      /\ \A k \in 1..Len(file[f]) : file'[f][k] = file[f][k]
      /\ file'[f][Len(file[f]) + 1] = r
  BY RowLemma
<1>2. r.msg.file = f /\ f \in Files
  BY DEF AppendsRow
<1>3. ASSUME NEW k \in DOMAIN file'[f]
      PROVE  file'[f][k].msg.file = f
  <2>1. k = Len(file[f]) + 1 \/ k \in 1..Len(file[f])
    BY <1>1, <1>3
  <2> QED
    BY <1>1, <1>2, <2>1 DEF TypeOK
<1>4. ASSUME NEW g \in Files, g # f, NEW k \in DOMAIN file'[g]
      PROVE  file'[g][k].msg.file = g
  BY <1>1, <1>4 DEF TypeOK
<1> QED
  BY <1>1, <1>3, <1>4

\* The row of the next line.
LEMMA NextRow ==
  ASSUME IInv, NEW w \in Writers, NEW f \in Files, Writing(w, f), NEW m, m = job[w].msg,
         NEW torn \in BOOLEAN, file' = [file EXCEPT ![f] = Append(@, Row(w, torn))]
  PROVE  /\ AppendsRow(f, Row(w, torn)) /\ Row(w, torn).msg = m /\ Row(w, torn).torn = torn
         /\ Entries(m, f)' = Entries(m, f) \o (IF torn THEN <<>> ELSE Line(w))
<1>1. Inductive /\ TypeOK
  BY DEF IInv, Inductive
<1>2. m \in Messages /\ m.file = f
  BY <1>1, WritingLemma
<1>3. Line(w) \in Seq(Entry)
  BY LineLemma DEF NextLine
<1>4. /\ Row(w, torn) \in RowsOf /\ Row(w, torn).msg = m /\ Row(w, torn).torn = torn
      /\ Row(w, torn).items = Line(w)
  BY <1>2, <1>3 DEF Row, RowsOf
<1>5. AppendsRow(f, Row(w, torn))
  BY <1>2, <1>4 DEF AppendsRow
<1>6. Entries(m, f)' = Entries(m, f) \o PartOf(Row(w, torn), m)
  BY <1>1, <1>2, <1>4, <1>5, AppendsLemma
<1>7. PartOf(Row(w, torn), m) = IF torn THEN <<>> ELSE Line(w)
  BY <1>4 DEF PartOf
<1> QED
  BY <1>4, <1>5, <1>6, <1>7

\* The rest of a step that reports a message.
Reports(w, f, v) ==
  /\ Return(w, v) /\ v \in {"ok", "failed"}
  /\ broken' \in [Files -> BOOLEAN] /\ (\A g \in Files : broken[g] => broken'[g])
  /\ file' = file \/ \E r : AppendsRow(f, r)
  /\ UNCHANGED <<exporter, open, todo, stopper, alive>>

LEMMA ReportLemma ==
  ASSUME Inductive, NEW w \in Writers, NEW f \in Files, Writing(w, f), NEW m, m = job[w].msg,
         NEW v, Reports(w, f, v)
  PROVE  /\ TypeOK' /\ OthersStay(w, m) /\ EndsOrGoesOn(w, f, m)
         /\ verdict'[m] = v
<1>1. TypeOK /\ m \in Messages
  BY WritingLemma DEF Inductive
<1>2. /\ v \in {"ok", "failed"}
      /\ verdict' = [verdict EXCEPT ![m] = v]
      /\ pc' = [pc EXCEPT ![w] = "idle"]
      /\ job' = [job EXCEPT ![w] = NoJob]
      /\ UNCHANGED <<exporter, open, todo, stopper, alive>>
      /\ broken' \in [Files -> BOOLEAN]
  BY DEF Reports, Return
<1>3. /\ verdict'[m] = v /\ pc'[w] = "idle" /\ job'[w] = NoJob
      /\ verdict' \in [Messages -> {"none", "ok", "failed"}]
      /\ pc' \in [Writers -> {"idle", "lock", "sort", "write", "off"}]
      /\ job' \in [Writers -> Jobs \cup {NoJob}]
      /\ \A x \in Writers : x # w => pc'[x] = pc[x] /\ job'[x] = job[x]
      /\ \A k \in Messages : k # m => verdict'[k] = verdict[k]
  BY <1>1, <1>2 DEF TypeOK
<1>4. OthersStay(w, m)
  BY <1>2, <1>3 DEF OthersStay, Reports
<1>5. EndsOrGoesOn(w, f, m)
  BY <1>2, <1>3 DEF EndsOrGoesOn
<1>6. /\ file' \in [Files -> Seq(RowsOf)]
      /\ \A g \in Files : \A k \in DOMAIN file'[g] : file'[g][k].msg.file = g
  <2>1. CASE file' = file
    BY <1>1, <2>1 DEF TypeOK
  <2>2. CASE file' # file
    BY <1>1, <2>2, RowsType DEF Reports
  <2> QED
    BY <2>1, <2>2
<1>7. \A x \in Writers : IF pc'[x] \in {"idle", "off"} THEN job'[x] = NoJob ELSE job'[x] \in Jobs
  BY <1>1, <1>3 DEF TypeOK
<1>8. {broken', open'} \subseteq [Files -> BOOLEAN]
  BY <1>1, <1>2 DEF TypeOK
<1>9. exporter' \in [Files -> {"csv", "none"}] /\ todo' \subseteq Messages
      /\ stopper' \in {"no", "waiting", "closed"} /\ alive' \in BOOLEAN
  BY <1>1, <1>2 DEF TypeOK
<1>10. TypeOK'
  BY <1>3, <1>6, <1>7, <1>8, <1>9 DEF TypeOK
<1> QED
  BY <1>3, <1>4, <1>5, <1>10

LEMMA WriteRowLemma ==
  ASSUME IInv, NEW w \in Writers, NEW f \in Files, WriteRow(w, f)
  PROVE  IInv'
<1>0. Inductive /\ TypeOK
  BY DEF IInv, Inductive
<1>1. PICK m : m = job[w].msg
  OBVIOUS
<1>2. Writing(w, f) /\ open[f] /\ ~ broken[f]
  BY DEF WriteRow
<1>3. /\ m \in Messages /\ m.file = f /\ m \notin todo /\ verdict[m] = "none"
      /\ JobFits(w) /\ job[w] \in Jobs
  BY <1>0, <1>1, <1>2, WritingLemma
<1>4. PICK r : r = Row(w, FALSE)
  OBVIOUS
<1>5. /\ AppendsRow(f, r) /\ r.msg = m /\ ~ r.torn
      /\ Entries(m, f)' = Entries(m, f) \o Line(w)
  <2>1. file' = [file EXCEPT ![f] = Append(@, Row(w, FALSE))]
    BY DEF WriteRow
  <2>2. /\ AppendsRow(f, Row(w, FALSE)) /\ Row(w, FALSE).msg = m /\ Row(w, FALSE).torn = FALSE
        /\ Entries(m, f)' = Entries(m, f) \o (IF FALSE THEN <<>> ELSE Line(w))
    BY <1>1, <1>2, <2>1, NextRow
  <2> QED
    BY <1>4, <2>2
<1>6. PICK e : e = Entries(m, f)
  OBVIOUS
<1>7. PICK x : x = Line(w)
  OBVIOUS
<1>8. PICK y : y = Rest(w)
  OBVIOUS
<1>9. NextLine(m, f, e, x, y) /\ Entries(m, f)' = e \o x
  BY <1>1, <1>2, <1>5, <1>6, <1>7, <1>8, LineLemma
<1>10. RowAdded(f, m)
  BY <1>2, <1>5 DEF RowAdded
<1>11. HasRow(m)' /\ \E k \in DOMAIN file'[f] : file'[f][k].msg = m /\ ~ file'[f][k].torn
  <2>1. Len(file[f]) \in Nat /\ DOMAIN file'[f] = 1..(Len(file[f]) + 1) /\ file'[f][Len(file[f]) + 1] = r
    BY <1>0, <1>5, RowLemma
  <2>2. Len(file[f]) + 1 \in DOMAIN file'[f]
    BY <2>1
  <2> QED
    BY <1>3, <1>5, <2>1, <2>2 DEF HasRow
<1>12. FirstOnes(m, Entries(m, f))'
  BY <1>9 DEF NextLine, FirstOnes, InOrder, AllOf, Items
<1>13. CASE y = <<>>
  <2>1. Return(w, "ok") /\ UNCHANGED <<exporter, broken, open, todo, stopper, alive>>
    BY <1>8, <1>13 DEF WriteRow
  <2>2. Reports(w, f, "ok")
    BY <1>0, <1>5, <2>1 DEF Reports, TypeOK
  <2>3. TypeOK' /\ OthersStay(w, m) /\ EndsOrGoesOn(w, f, m) /\ verdict'[m] = "ok"
    BY <1>0, <1>1, <1>2, <2>2, ReportLemma
  <2>4. Accounted(f, m)
    <3>1. Complete(m, e \o x) /\ (f # "topn" => Range(e \o x) = AllOf(m))
      BY <1>9, <1>13 DEF NextLine
    <3>2. Complete(m, Entries(m, f))'
      BY <1>9, <3>1 DEF Complete, AllOf, Items
    <3> QED
      BY <1>9, <1>11, <1>12, <2>3, <3>1, <3>2 DEF Accounted
  <2>5. Inductive'
    BY <1>0, <1>1, <1>2, <1>10, <2>3, FileStep
  <2>6. FilesFit' /\ Whole' /\ ReportedIsWritten'
    BY <1>1, <1>2, <1>10, <2>3, <2>4, FileStepFiles
  <2> QED
    BY <2>5, <2>6 DEF IInv
<1>14. CASE y # <<>>
  <2>1. /\ job' = [job EXCEPT ![w].items = y]
        /\ UNCHANGED <<exporter, broken, open, pc, todo, verdict, stopper, alive>>
    BY <1>8, <1>14 DEF WriteRow
  <2>2. job \in [Writers -> Jobs \cup {NoJob}] /\ pc[w] = "write"
    BY <1>0, <1>2 DEF TypeOK, Writing
  <2>3. job'[w] = [job[w] EXCEPT !.items = y] /\ \A v \in Writers : v # w => job'[v] = job[v]
    BY <2>1, <2>2
  <2>4. job'[w] \in Jobs /\ job'[w].msg = m /\ job'[w].items = y
    BY <1>1, <1>3, <1>9, <2>3 DEF Jobs, NextLine
  <2>5. job' \in [Writers -> Jobs \cup {NoJob}]
    <3>1. job' = [job EXCEPT ![w] = job'[w]]
      BY <2>1, <2>2, <2>3
    <3> QED
      BY <2>2, <2>4, <3>1
  <2>6. TypeOK'
    <3>1. /\ file' \in [Files -> Seq(RowsOf)]
          /\ \A g \in Files : \A k \in DOMAIN file'[g] : file'[g][k].msg.file = g
      BY <1>0, <1>5, RowsType
    <3>2. \A v \in Writers : IF pc'[v] \in {"idle", "off"} THEN job'[v] = NoJob ELSE job'[v] \in Jobs
      BY <1>0, <2>1, <2>2, <2>3, <2>4 DEF TypeOK
    <3>3. /\ exporter' \in [Files -> {"csv", "none"}] /\ todo' \subseteq Messages
          /\ stopper' \in {"no", "waiting", "closed"} /\ alive' \in BOOLEAN
          /\ pc' \in [Writers -> {"idle", "lock", "sort", "write", "off"}]
          /\ verdict' \in [Messages -> {"none", "ok", "failed"}]
          /\ {broken', open'} \subseteq [Files -> BOOLEAN]
      BY <1>0, <2>1 DEF TypeOK
    <3> QED
      BY <2>5, <3>1, <3>2, <3>3 DEF TypeOK
  <2>7. OthersStay(w, m)
    BY <2>1, <2>3 DEF OthersStay
  <2>8. f # "topn" /\ Sorted(m, (e \o x) \o y)
    BY <1>9, <1>14 DEF NextLine
  <2>9. JobFits(w)'
    <3>1. WrittenAndHeld(w)' = (e \o x) \o y
      <4>1. WrittenAndHeld(w)' = Entries(job[w].msg, job[w].msg.file)' \o job'[w].items
        BY DEF WrittenAndHeld, Entries
      <4>2. Entries(job[w].msg, job[w].msg.file)' = Entries(m, f)'
        BY <1>3, <2>4 DEF Entries
      <4> QED
        BY <1>9, <2>4, <4>1, <4>2
    <3>2. Sorted(job[w].msg, WrittenAndHeld(w))'
      <4>1. Sorted(m, WrittenAndHeld(w)') => Sorted(job[w].msg, WrittenAndHeld(w))'
        BY <2>4 DEF Sorted, SortedUpTo, AllOf, Items, After
      <4> QED
        BY <2>8, <3>1, <4>1
    <3>3. m \notin todo' /\ verdict'[m] = "none" /\ (m.file = "topn" <=> w = Monitor) /\ pc'[w] = "write"
      BY <1>1, <1>3, <2>1, <2>2 DEF JobFits
    <3> QED
      BY <1>3, <1>14, <2>4, <2>8, <3>2, <3>3 DEF JobFits
  <2>10. EndsOrGoesOn(w, f, m)
    BY <1>2, <1>3, <2>1, <2>2, <2>4, <2>9 DEF EndsOrGoesOn
  <2>11. Accounted(f, m)
    BY <1>3, <1>12, <2>1 DEF Accounted
  <2>12. Inductive'
    BY <1>0, <1>1, <1>2, <1>10, <2>6, <2>7, <2>10, FileStep
  <2>13. FilesFit' /\ Whole' /\ ReportedIsWritten'
    BY <1>1, <1>2, <1>10, <2>7, <2>11, FileStepFiles
  <2> QED
    BY <2>12, <2>13 DEF IInv
<1> QED
  BY <1>13, <1>14


LEMMA DiskFailsLemma ==
  ASSUME IInv, NEW w \in Writers, NEW f \in Files, DiskFails(w, f)
  PROVE  IInv'
<1>0. Inductive /\ TypeOK
  BY DEF IInv, Inductive
<1>1. PICK m : m = job[w].msg
  OBVIOUS
<1>2. Writing(w, f) /\ open[f] /\ ~ broken[f] /\ Return(w, "failed")
      /\ broken' = [broken EXCEPT ![f] = TRUE]
      /\ UNCHANGED <<exporter, open, todo, stopper, alive>>
  BY DEF DiskFails
<1>3. m \in Messages /\ m.file = f
  BY <1>0, <1>1, <1>2, WritingLemma
<1>4. broken' \in [Files -> BOOLEAN] /\ broken'[f] /\ \A g \in Files : broken[g] => broken'[g]
  BY <1>0, <1>2 DEF TypeOK
<1>5. PICK e : e = Entries(m, f)
  OBVIOUS
<1>6. e \in Seq(Entry) /\ FirstOnes(m, e)
  BY <1>1, <1>2, <1>5, LineLemma DEF NextLine
<1>7. /\ file' = file \/ \E r : AppendsRow(f, r)
      /\ RowAdded(f, m) /\ Entries(m, f)' = e
  <2>1. CASE file' = file
    BY <1>5, <2>1 DEF RowAdded, Entries
  <2>2. CASE file' = [file EXCEPT ![f] = Append(@, Row(w, TRUE))]
    <3>1. /\ AppendsRow(f, Row(w, TRUE)) /\ Row(w, TRUE).msg = m /\ Row(w, TRUE).torn = TRUE
          /\ Entries(m, f)' = Entries(m, f) \o (IF TRUE THEN <<>> ELSE Line(w))
      BY <1>1, <1>2, <2>2, NextRow
    <3>2. e \o <<>> = e
      BY <1>6, ConcatEmptySeq
    <3> QED
      BY <1>2, <1>4, <1>5, <3>1, <3>2 DEF RowAdded
  <2> QED
    BY <2>1, <2>2 DEF DiskFails
<1>8. Reports(w, f, "failed")
  BY <1>2, <1>4, <1>7 DEF Reports
<1>9. TypeOK' /\ OthersStay(w, m) /\ EndsOrGoesOn(w, f, m) /\ verdict'[m] = "failed"
  BY <1>0, <1>1, <1>2, <1>8, ReportLemma
<1>10. Accounted(f, m)
  <2>1. FirstOnes(m, Entries(m, f))'
    BY <1>6, <1>7 DEF FirstOnes, InOrder, AllOf, Items
  <2> QED
    BY <1>4, <1>9, <2>1 DEF Accounted
<1>11. Inductive'
  BY <1>0, <1>1, <1>2, <1>7, <1>9, <1>3, FileStep
<1>12. FilesFit' /\ Whole' /\ ReportedIsWritten'
  BY <1>1, <1>2, <1>7, <1>9, <1>10, FileStepFiles
<1> QED
  BY <1>11, <1>12 DEF IInv

LEMMA WriterFailsLemma ==
  ASSUME IInv, NEW w \in Writers, NEW f \in Files, WriterFails(w, f)
  PROVE  IInv'
<1>0. Inductive /\ TypeOK
  BY DEF IInv, Inductive
<1>1. PICK m : m = job[w].msg
  OBVIOUS
<1>2. Writing(w, f) /\ Return(w, "failed")
      /\ broken' = [broken EXCEPT ![f] = TRUE]
      /\ UNCHANGED <<exporter, file, open, todo, stopper, alive>>
  BY DEF WriterFails
<1>3. broken' \in [Files -> BOOLEAN] /\ broken'[f] /\ \A g \in Files : broken[g] => broken'[g]
  BY <1>0, <1>2 DEF TypeOK
<1>4. PICK e : e = Entries(m, f)
  OBVIOUS
<1>5. FirstOnes(m, e) /\ Entries(m, f)' = e
  BY <1>1, <1>2, <1>4, LineLemma DEF NextLine, Entries
<1>6. Reports(w, f, "failed") /\ RowAdded(f, m)
  BY <1>2, <1>3 DEF Reports, RowAdded
<1>7. TypeOK' /\ OthersStay(w, m) /\ EndsOrGoesOn(w, f, m) /\ verdict'[m] = "failed"
  BY <1>0, <1>1, <1>2, <1>6, ReportLemma
<1>8. Accounted(f, m)
  <2>1. FirstOnes(m, Entries(m, f))'
    BY <1>5 DEF FirstOnes, InOrder, AllOf, Items
  <2> QED
    BY <1>3, <1>7, <2>1 DEF Accounted
<1>9. Inductive'
  BY <1>0, <1>1, <1>2, <1>6, <1>7, FileStep
<1>10. FilesFit' /\ Whole' /\ ReportedIsWritten'
  BY <1>1, <1>2, <1>6, <1>7, <1>8, FileStepFiles
<1> QED
  BY <1>9, <1>10 DEF IInv

(***************************************************************************)
(* The steps that are not a writer's: the monitor stops, the dispatcher is *)
(* shut down, the program panics.                                          *)
(***************************************************************************)
LEMMA StopStep ==
  ASSUME IInv, TypeOK', UNCHANGED <<exporter, file, broken, job, todo, verdict>>,
         \A v \in Writers : pc'[v] = pc[v] \/ (v = Monitor /\ pc[v] = "idle" /\ pc'[v] = "off"),
         \A v \in Writers, f \in Files : Exporting(v, f) /\ ~ open'[f] => ~ open[f]
  PROVE  IInv'
<1>0. Inductive /\ TypeOK
  BY DEF IInv, Inductive
<1>1. \A v \in Writers : (Busy(v)' <=> Busy(v)) /\ job'[v] = job[v] /\ (Busy(v) => pc'[v] = pc[v])
  BY DEF Busy
<1>2. \A v \in Writers, f \in Files : Exporting(v, f)' <=> Exporting(v, f)
  BY DEF Exporting
<1>3. \A m : Untouched(m)
  BY UntouchedLemma
<1>4. (pc[Monitor] # "lock" /\ \A v \in Workers : pc[v] # "off")'
  BY <1>0, ExportersAssumption DEF Inductive, Writers
<1>5. ASSUME NEW v \in Writers, Busy(v)'
      PROVE  JobFits(v)'
  <2>1. Busy(v) /\ JobFits(v) /\ pc'[v] = pc[v] /\ job'[v] = job[v] /\ todo' \subseteq todo
    BY <1>0, <1>1, <1>5 DEF Inductive
  <2>2. PICK m : m = job[v].msg
    OBVIOUS
  <2> QED
    BY <1>3, <2>1, <2>2, OtherJob
<1>6. \A m \in todo' : (verdict[m] = "none" /\ ~ HasRow(m))'
  BY <1>0 DEF Inductive, HasRow
<1>7. OneWriter'
  BY <1>0, <1>1, <1>2 DEF Inductive, OneWriter, HasRow
<1>8. RowsFit'
  <2>1. \A v \in Writers : pc[v] = "write" => pc'[v] = "write"
    OBVIOUS
  <2> QED
    BY <1>0, <2>1 DEF Inductive, RowsFit
<1>9. Inductive'
  BY <1>4, <1>5, <1>6, <1>7, <1>8 DEF Inductive
<1>10. FilesFit' /\ Whole' /\ ReportedIsWritten'
  BY SameFiles DEF IInv
<1> QED
  BY <1>9, <1>10 DEF IInv

LEMMA StopMonitorLemma ==
  ASSUME IInv, StopMonitor
  PROVE  IInv'
<1>0. Inductive /\ TypeOK
  BY DEF IInv, Inductive
<1>1. /\ pc[Monitor] = "idle" /\ pc' = [pc EXCEPT ![Monitor] = "off"]
      /\ open' = [open EXCEPT !["topn"] = FALSE]
      /\ UNCHANGED <<exporter, file, broken, job, todo, verdict, stopper, alive>>
  BY DEF StopMonitor
<1>2. /\ pc' \in [Writers -> {"idle", "lock", "sort", "write", "off"}]
      /\ \A v \in Writers : pc'[v] = IF v = Monitor THEN "off" ELSE pc[v]
      /\ open' \in [Files -> BOOLEAN] /\ \A f \in Files : f # "topn" => open'[f] = open[f]
  BY <1>0, <1>1 DEF TypeOK
<1>3. TypeOK'
  <2>1. \A v \in Writers : IF pc'[v] \in {"idle", "off"} THEN job'[v] = NoJob ELSE job'[v] \in Jobs
    BY <1>0, <1>1, <1>2 DEF TypeOK
  <2>2. {broken', open'} \subseteq [Files -> BOOLEAN]
    BY <1>0, <1>1, <1>2 DEF TypeOK
  <2> QED
    BY <1>0, <1>1, <1>2, <2>1, <2>2 DEF TypeOK
<1>4. ASSUME NEW v \in Writers, NEW f \in Files, Exporting(v, f), ~ open'[f]
      PROVE  ~ open[f]
  <2>1. Busy(v) /\ v # Monitor /\ job[v].msg.file = f
    BY <1>1, <1>4 DEF Busy, Exporting
  <2>2. f # "topn"
    BY <1>0, <2>1 DEF Inductive, JobFits
  <2> QED
    BY <1>2, <1>4, <2>2
<1>5. \A v \in Writers : pc'[v] = pc[v] \/ (v = Monitor /\ pc[v] = "idle" /\ pc'[v] = "off")
  BY <1>1, <1>2
<1> QED
  BY <1>1, <1>3, <1>4, <1>5, StopStep

LEMMA CloseLemma ==
  ASSUME IInv, Close
  PROVE  IInv'
<1>0. Inductive /\ TypeOK
  BY DEF IInv, Inductive
<1>1. /\ \A w \in Workers : pc[w] = "idle"
      /\ stopper' = "closed" /\ open' = [f \in Files |-> open[f] /\ f = "topn"]
      /\ UNCHANGED <<exporter, file, broken, pc, job, todo, verdict, alive>>
  BY DEF Close
<1>2. open' \in [Files -> BOOLEAN]
  BY <1>0, <1>1 DEF TypeOK
<1>3. TypeOK'
  <2>1. {broken', open'} \subseteq [Files -> BOOLEAN]
    BY <1>0, <1>1, <1>2 DEF TypeOK
  <2> QED
    BY <1>0, <1>1, <2>1 DEF TypeOK
<1>4. ASSUME NEW v \in Writers, NEW f \in Files, Exporting(v, f), ~ open'[f]
      PROVE  ~ open[f]
  <2>1. Busy(v) /\ v = Monitor /\ job[v].msg.file = f
    BY <1>1, <1>4 DEF Busy, Exporting, Writers
  <2>2. f = "topn"
    BY <1>0, <2>1 DEF Inductive, JobFits
  <2>3. open'["topn"] <=> open["topn"]
    BY <1>1 DEF Files
  <2> QED
    BY <1>4, <2>2, <2>3
<1> QED
  BY <1>1, <1>3, <1>4, StopStep

LEMMA QuietLemma ==
  ASSUME IInv, Panic \/ CallShutdown \/ UNCHANGED vars
  PROVE  IInv'
<1>0. TypeOK
  BY DEF IInv, Inductive
<1>1. UNCHANGED <<exporter, file, broken, open, pc, job, todo, verdict>>
      /\ stopper' \in {"no", "waiting", "closed"} /\ alive' \in BOOLEAN
  BY <1>0 DEF Panic, CallShutdown, vars, fileVars, TypeOK
<1>2. TypeOK'
  BY <1>0, <1>1 DEF TypeOK
<1> QED
  BY <1>1, <1>2, StopStep

(***************************************************************************)
(* The theorems.                                                           *)
(***************************************************************************)
LEMMA StepLemma == IInv /\ [Next]_vars => IInv'
<1> SUFFICES ASSUME IInv, [Next]_vars
             PROVE  IInv'
  OBVIOUS
<1>0. Workers \subseteq Writers /\ Monitor \in Writers
  BY DEF Writers
<1>1. ASSUME NEW w \in Workers, NEW m \in Messages, Handle(w, m)
      PROVE  IInv'
  <2>1. Start(w, m, "lock") /\ m.file # "topn"
    BY <1>1 DEF Handle
  <2> QED
    BY <1>0, <2>1, StartLemma
<1>2. ASSUME NEW m \in Messages, Poll(m)
      PROVE  IInv'
  <2>1. PICK step : step = FirstStep(Items(m))
    OBVIOUS
  <2>2. Start(Monitor, m, step) /\ m.file = "topn"
    BY <1>2, <2>1 DEF Poll
  <2> QED
    BY <1>0, <2>1, <2>2, StartLemma
<1>3. ASSUME NEW w \in Workers, Worker(w)
      PROVE  IInv'
  BY <1>1, <1>3, NoExporterLemma, LockLemma DEF Worker
<1>4. ASSUME NEW w \in Writers, Export(w)
      PROVE  IInv'
  BY <1>4, SortLemma, WriteRowLemma, DiskFailsLemma, WriterFailsLemma DEF Export
<1>5. CASE Step
  BY <1>2, <1>3, <1>4, <1>5, QuietLemma, StopMonitorLemma, CloseLemma DEF Step
<1>6. CASE Over \/ UNCHANGED vars
  BY <1>6, QuietLemma DEF Over
<1> QED
  BY <1>5, <1>6 DEF Next

\* What is kept gives both properties of the files.
LEMMA WholeLemma == IInv => SortedAndWhole
<1> SUFFICES ASSUME IInv
             PROVE  SortedAndWhole
  OBVIOUS
<1>1. ASSUME NEW f \in Files, NEW k \in DOMAIN file[f]
      PROVE  FirstOnes(file[f][k].msg, Entries(file[f][k].msg, f)) /\ file[f][k].msg.file = f
  <2>1. file[f] \in Seq(RowsOf) /\ file[f][k].msg.file = f
    BY DEF IInv, Inductive, TypeOK
  <2>2. file[f][k] \in RowsOf
    BY <2>1, LenProperties, ElementOfSeq
  <2>3. file[f][k].msg \in Messages
    BY <2>2 DEF RowsOf
  <2> QED
    BY <2>1, <2>3 DEF IInv, FilesFit
<1>2. ASSUME NEW f \in Files, NEW k \in DOMAIN file[f], NEW m, m = file[f][k].msg,
             NEW s, s = Entries(m, f)
      PROVE  /\ InOrder(m, s)
             /\ Range(s) \subseteq AllOf(m) /\ Cardinality(Range(s)) = Len(s)
             /\ \A x \in Range(s), y \in AllOf(m) \ Range(s) : ~ After(f, x, y)
  <2>1. FirstOnes(m, s) /\ m.file = f
    BY <1>1, <1>2
  <2> QED
    BY <2>1 DEF FirstOnes
<1>3. ASSUME NEW f \in Files, NEW k \in DOMAIN file[f], NEW m, m = file[f][k].msg,
             NEW s, s = Entries(m, f), k < Len(file[f]), file[f][k + 1].msg # m
      PROVE  /\ IF f = "topn" THEN Len(s) = 3 \/ Range(s) = AllOf(m) ELSE Range(s) = AllOf(m)
             /\ \A l \in (k + 1)..Len(file[f]) : file[f][l].msg # m
  <2>1. Complete(m, s) /\ m.file = f /\ \A l \in (k + 1)..Len(file[f]) : file[f][l].msg # m
    BY <1>1, <1>3 DEF IInv, Whole
  <2> QED
    BY <2>1 DEF Complete
<1> QED
  BY <1>2, <1>3 DEF SortedAndWhole

\* At any time a file has one writer, which has gone as far with its message
\* as the rows of it show, and whose rows are the last: the exporters' mutexes
\* and the two shutdowns keep the others out (Handle, Export and Shutdown).
THEOREM InductiveHolds == Spec => []Inductive
<1>1. IInv => Inductive
  BY DEF IInv
<1> QED
  BY <1>1, InitLemma, StepLemma, PTL DEF Spec

\* For any number of workers and any messages, the rows of a message are
\* together, in order, without repetitions, and only the last message of a
\* file can be cut short: the exchange sort sorts, a batch is written under
\* one lock, and nothing is written after an error.
THEOREM SortedAndWholeHolds == Spec => []SortedAndWhole
BY WholeLemma, InitLemma, StepLemma, PTL DEF Spec

\* What Handle and Export report is what is on the disk, whatever errors the
\* disk has and whenever the files are closed.
THEOREM ReportedIsWrittenHolds == Spec => []ReportedIsWritten
<1>1. IInv => ReportedIsWritten
  BY DEF IInv
<1> QED
  BY <1>1, InitLemma, StepLemma, PTL DEF Spec

=============================================================================
