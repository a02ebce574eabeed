---------------------------- MODULE Pipeline_proofs ----------------------------
(***************************************************************************)
(* Proofs about Pipeline, for any addresses, tables, capacities of the     *)
(* channels, numbers of workers, polls and refreshes.                      *)
(***************************************************************************)
EXTENDS Pipeline, FiniteSetTheorems, SequenceTheorems, TLAPS

LEMMA ConstantsLemma ==
  /\ IsFiniteSet(Ips) /\ IsFiniteSet(Exporters) /\ IsFiniteSet(Inferers)
  /\ Cardinality(Ips) \in Nat /\ Unknown \in Nat
  /\ FeatureCap \in Nat \ {0} /\ ExportCap \in Nat \ {0} /\ InferCap \in Nat \ {0}
  /\ DetectorEnabled \in BOOLEAN /\ MaxPolls \in Nat /\ MaxRefreshes \in Nat
  /\ \A t \in Tables \cup {<<>>} :
       /\ DOMAIN t \subseteq Ips /\ IsFiniteSet(DOMAIN t)
       /\ \A ip \in DOMAIN t : t[ip] \in 0..Unknown
<1>1. \A n \in {FeatureCap, ExportCap, InferCap} : n \in Nat \ {0}
  BY PipelineAssumption
<1>2. \A t \in Tables \cup {<<>>} : DOMAIN t \subseteq Ips
  BY PipelineAssumption
<1>3. \A t \in Tables \cup {<<>>} : IsFiniteSet(DOMAIN t)
  BY <1>2, PipelineAssumption, FS_Subset
<1>4. \A t \in Tables \cup {<<>>} : \A ip \in DOMAIN t : t[ip] \in 0..Unknown
  <2>1. ASSUME NEW t \in Tables, NEW ip \in DOMAIN t
        PROVE  t[ip] \in 0..Unknown
    <3>1. t[ip] \in 0..(Unknown - 1) /\ Unknown \in Nat
      BY PipelineAssumption
    <3> QED
      BY <3>1
  <2>2. DOMAIN <<>> = {}
    OBVIOUS
  <2> QED
    BY <2>1, <2>2
<1> QED
  BY <1>1, <1>2, <1>3, <1>4, PipelineAssumption, FS_CardinalityType

(***************************************************************************)
(* Counting.                                                               *)
(***************************************************************************)
\* Two sets that differ at most in one element.
LEMMA CountLemma ==
  ASSUME NEW S, IsFiniteSet(S), NEW A \in SUBSET S, NEW B \in SUBSET S, NEW x \in S,
         A \ {x} = B \ {x}
  PROVE  /\ Cardinality(A) \in Nat /\ Cardinality(B) \in Nat
         /\ Cardinality(A) + One(x \in B) = Cardinality(B) + One(x \in A)
<1>1. IsFiniteSet(A) /\ IsFiniteSet(B)
  BY FS_Subset
<1>2. Cardinality(A \ {x}) = IF x \in A THEN Cardinality(A) - 1 ELSE Cardinality(A)
  BY <1>1, FS_RemoveElement
<1>3. Cardinality(B \ {x}) = IF x \in B THEN Cardinality(B) - 1 ELSE Cardinality(B)
  BY <1>1, FS_RemoveElement
<1>4. Cardinality(A) \in Nat /\ Cardinality(B) \in Nat
  BY <1>1, FS_CardinalityType
<1> QED
  BY <1>2, <1>3, <1>4 DEF One

\* A set is empty if nothing is counted in it.
LEMMA NoneLemma ==
  ASSUME NEW S, IsFiniteSet(S), NEW A \in SUBSET S
  PROVE  Cardinality(A) \in Nat /\ (Cardinality(A) = 0 <=> A = {})
  BY FS_Subset, FS_CardinalityType, FS_EmptySet

LEMMA AppendLemma ==
  ASSUME NEW S, NEW s \in Seq(S), NEW x \in S
  PROVE  /\ Append(s, x) \in Seq(S) /\ Len(Append(s, x)) = Len(s) + 1
         /\ Len(s) \in Nat /\ DOMAIN s = 1..Len(s) /\ DOMAIN Append(s, x) = 1..(Len(s) + 1)
         /\ \A i \in 1..Len(s) : Append(s, x)[i] = s[i] /\ s[i] \in S
         /\ Append(s, x)[Len(s) + 1] = x
         /\ \A y : Times(s, y) \in Nat /\ Times(Append(s, x), y) = Times(s, y) + One(x = y)
<1>1. /\ Append(s, x) \in Seq(S) /\ Len(Append(s, x)) = Len(s) + 1
      /\ \A i \in 1..Len(s) : Append(s, x)[i] = s[i] /\ s[i] \in S
      /\ Append(s, x)[Len(s) + 1] = x
  OBVIOUS
<1>2. Len(s) \in Nat /\ DOMAIN s = 1..Len(s) /\ DOMAIN Append(s, x) = 1..(Len(s) + 1)
  BY <1>1, LenProperties
<1>3. ASSUME NEW y
      PROVE  Times(s, y) \in Nat /\ Times(Append(s, x), y) = Times(s, y) + One(x = y)
  <2> DEFINE n == Len(s) + 1
             A == {i \in DOMAIN s : s[i] = y}
             B == {i \in DOMAIN Append(s, x) : Append(s, x)[i] = y}
  <2>1. IsFiniteSet(1..n) /\ n \in 1..n
    BY <1>2, FS_Interval
  <2>2. A \subseteq 1..n /\ B \subseteq 1..n /\ n \notin A /\ (n \in B <=> x = y)
    BY <1>1, <1>2
  <2>3. A \ {n} = B \ {n}
    BY <1>1, <1>2
  <2> HIDE DEF n
  <2>4. Cardinality(A) \in Nat /\ Cardinality(A) + One(n \in B) = Cardinality(B) + One(n \in A)
        /\ Cardinality(B) \in Nat
    <3> DEFINE D == 1..n
    <3> HIDE DEF A, B
    <3>1. IsFiniteSet(D) /\ n \in D /\ A \in SUBSET D /\ B \in SUBSET D
      BY <2>1, <2>2
    <3> HIDE DEF D
    <3> QED
      BY <3>1, <2>3, CountLemma
  <2>5. Times(s, y) = Cardinality(A) /\ Times(Append(s, x), y) = Cardinality(B)
    BY DEF Times
  <2> HIDE DEF A, B
  <2> QED
    BY <2>2, <2>4, <2>5 DEF One
<1> QED
  BY <1>1, <1>2, <1>3

LEMMA TailLemma ==
  ASSUME NEW S, NEW s \in Seq(S), s # <<>>
  PROVE  /\ Tail(s) \in Seq(S) /\ Len(Tail(s)) = Len(s) - 1 /\ Head(s) \in S /\ Head(s) = s[1]
         /\ Len(s) \in Nat \ {0} /\ DOMAIN s = 1..Len(s) /\ DOMAIN Tail(s) = 1..(Len(s) - 1)
         /\ \A i \in 1..(Len(s) - 1) : Tail(s)[i] = s[i + 1]
         /\ \A y : /\ Times(s, y) \in Nat /\ Times(Tail(s), y) \in Nat
                   /\ Times(s, y) = Times(Tail(s), y) + One(Head(s) = y)
<1>1. /\ Tail(s) \in Seq(S) /\ Len(Tail(s)) = Len(s) - 1 /\ Head(s) \in S /\ Head(s) = s[1]
      /\ \A i \in 1..(Len(s) - 1) : Tail(s)[i] = s[i + 1]
  BY HeadTailProperties
<1>2. Len(s) \in Nat \ {0} /\ DOMAIN s = 1..Len(s) /\ DOMAIN Tail(s) = 1..(Len(s) - 1)
  BY <1>1, LenProperties, EmptySeq
<1>3. ASSUME NEW y
      PROVE  /\ Times(s, y) \in Nat /\ Times(Tail(s), y) \in Nat
             /\ Times(s, y) = Times(Tail(s), y) + One(Head(s) = y)
  <2> DEFINE n == Len(s)
             A == {i \in DOMAIN s : s[i] = y}
             B == {i \in DOMAIN Tail(s) : Tail(s)[i] = y}
             up == [i \in B |-> i + 1]
  <2>1. IsFiniteSet(1..n) /\ 1 \in 1..n /\ A \subseteq 1..n /\ B \subseteq 1..n
    <3>1. 1 \in Int /\ n \in Int /\ 1 \in 1..n
      BY <1>2
    <3>2. IsFiniteSet(1..n)
      <4> HIDE DEF n
      <4> QED
        BY <3>1, FS_Interval
    <3>3. A \subseteq 1..n
      BY <1>2
    <3>4. B \subseteq 1..n
      BY <1>2
    <3> QED
      BY <3>1, <3>2, <3>3, <3>4
  <2>2. IsFiniteSet(B) /\ Cardinality(B) \in Nat
    BY <2>1, FS_Subset, FS_CardinalityType
  <2>3. up \in Bijection(B, A \ {1})
    <3>1. \A i \in B : i + 1 \in A \ {1} /\ i \in Nat
      BY <1>1, <1>2
    <3>2. \A i \in A \ {1} : i - 1 \in B /\ (i - 1) + 1 = i
      <4> SUFFICES ASSUME NEW i \in A \ {1}
                   PROVE  i - 1 \in B /\ (i - 1) + 1 = i
        OBVIOUS
      <4>1. i - 1 \in 1..(Len(s) - 1) /\ (i - 1) + 1 = i
        BY <1>2
      <4> QED
        BY <1>1, <1>2, <4>1
    <3>6. \A i \in B : i \in Nat
      BY <1>2
    <3> HIDE DEF A, B
    <3>3. \A i, j \in B : up[i] = up[j] => i = j
      BY <3>6
    <3>4. up \in [B -> A \ {1}]
      BY <3>1
    <3>5. \A i \in A \ {1} : \E j \in B : up[j] = i
      BY <3>2
    <3> HIDE DEF up
    <3>7. up \in Injection(B, A \ {1})
      BY <3>3, <3>4 DEF Injection, IsInjective
    <3>8. up \in Surjection(B, A \ {1})
      BY <3>4, <3>5 DEF Surjection
    <3> QED
      BY <3>7, <3>8 DEF Bijection
  <2>4. Cardinality(A \ {1}) = Cardinality(B)
    BY <2>2, <2>3, FS_Bijection DEF ExistsBijection
  <2>5. IsFiniteSet(A) /\ Cardinality(A) \in Nat
    BY <2>1, FS_Subset, FS_CardinalityType
  <2>6. Cardinality(A \ {1}) = IF 1 \in A THEN Cardinality(A) - 1 ELSE Cardinality(A)
    BY <2>5, FS_RemoveElement
  <2>7. 1 \in A <=> Head(s) = y
    BY <1>1, <1>2
  <2>8. Times(s, y) = Cardinality(A) /\ Times(Tail(s), y) = Cardinality(B)
    BY DEF Times
  <2> HIDE DEF A, B, n
  <2> QED
    BY <2>2, <2>4, <2>5, <2>6, <2>7, <2>8 DEF One
<1> QED
  BY <1>1, <1>2, <1>3

\* Nothing is counted where nothing is.
LEMMA TimesLemma ==
  ASSUME NEW S, NEW s \in Seq(S), NEW y
  PROVE  /\ Times(s, y) \in Nat
         /\ Times(s, y) > 0 <=> \E i \in DOMAIN s : s[i] = y
<1> DEFINE A == {i \in DOMAIN s : s[i] = y}
<1>1. DOMAIN s = 1..Len(s) /\ Len(s) \in Nat
  BY LenProperties
<1>2. IsFiniteSet(DOMAIN s) /\ A \in SUBSET DOMAIN s
  BY <1>1, FS_Interval
<1>3. Cardinality(A) \in Nat /\ (Cardinality(A) = 0 <=> A = {})
  BY <1>2, NoneLemma
<1> QED
  BY <1>3 DEF Times

(***************************************************************************)
(* The state.                                                              *)
(***************************************************************************)
LEMMA PollsLemma ==
  /\ \A p \in Polls : p \in Nat /\ p > 0 /\ p # NoPoll /\ p <= MaxPolls
  /\ \A n \in Nat : n > 0 /\ n <= MaxPolls => n \in Polls
  /\ \A m \in Msgs : m[1] \in Polls /\ m[2] \in 0..Cardinality(Ips) /\ m # NoMsg /\ m = <<m[1], m[2]>>
  /\ \A p \in Polls, i \in 0..Cardinality(Ips) :
       <<p, i>> \in Msgs /\ <<p, i>>[1] = p /\ <<p, i>>[2] = i
  /\ NoMsg \notin Msgs
<1> USE ConstantsLemma DEF Polls, Msgs, NoMsg, NoPoll
<1>1. \A p \in Polls : p \in Nat /\ p > 0 /\ p # NoPoll /\ p <= MaxPolls
  OBVIOUS
<1>2. \A n \in Nat : n > 0 /\ n <= MaxPolls => n \in Polls
  OBVIOUS
<1>3. \A m \in Msgs : m[1] \in Polls /\ m[2] \in 0..Cardinality(Ips) /\ m # NoMsg /\ m = <<m[1], m[2]>>
  OBVIOUS
<1>4. \A p \in Polls, i \in 0..Cardinality(Ips) :
        <<p, i>> \in Msgs /\ <<p, i>>[1] = p /\ <<p, i>>[2] = i
  OBVIOUS
<1> QED
  BY <1>1, <1>2, <1>3, <1>4

\* What an inference worker holds.
LEMMA ScoringLemma ==
  ASSUME TypeOK
  PROVE  /\ \A w \in Inferers :
              /\ inferring[w][1] \in Polls \cup {NoPoll} /\ inferring[w][2] \in Nat
              /\ inferring[w] = <<inferring[w][1], inferring[w][2]>>
              /\ inferring[w] = NoMsg <=> inferring[w][1] = NoPoll
         /\ \A p : /\ Scoring(p) \in SUBSET Inferers /\ Cardinality(Scoring(p)) \in Nat
                   /\ Cardinality(Scoring(p)) = 0 <=> Scoring(p) = {}
<1>1. ASSUME NEW w \in Inferers
      PROVE  /\ inferring[w][1] \in Polls \cup {NoPoll} /\ inferring[w][2] \in Nat
             /\ inferring[w] = <<inferring[w][1], inferring[w][2]>>
             /\ inferring[w] = NoMsg <=> inferring[w][1] = NoPoll
  <2>1. inferring[w] \in (Polls \X Nat) \cup {NoMsg}
    BY DEF TypeOK
  <2>2. CASE inferring[w] \in Polls \X Nat
    BY <2>2, PollsLemma DEF NoMsg, NoPoll
  <2>3. CASE inferring[w] = NoMsg
    BY <2>3 DEF NoMsg, NoPoll
  <2> QED
    BY <2>1, <2>2, <2>3
<1>2. ASSUME NEW p
      PROVE  /\ Scoring(p) \in SUBSET Inferers /\ Cardinality(Scoring(p)) \in Nat
             /\ Cardinality(Scoring(p)) = 0 <=> Scoring(p) = {}
  <2>1. Scoring(p) \in SUBSET Inferers
    BY DEF Scoring
  <2> QED
    BY <2>1, ConstantsLemma, NoneLemma
<1> QED
  BY <1>1, <1>2

\* Every place holds a number of messages, none if and only if it is empty.
LEMMA PlacesLemma ==
  ASSUME TypeOK
  PROVE  /\ \A p \in Polls :
              /\ Times(featureChan, p) \in Nat /\ Times(inferQ, p) \in Nat /\ scored[p] \in Nat
              /\ Times(featureChan, p) > 0 <=> \E i \in DOMAIN featureChan : featureChan[i] = p
              /\ Times(inferQ, p) > 0 <=> \E i \in DOMAIN inferQ : inferQ[i] = p
              /\ pollId[p] \in Nat
         /\ \A m \in Msgs :
              /\ Times(exportQ, m) \in Nat /\ Times(exporting, m) \in Nat /\ handled[m] \in Nat
              /\ Times(exportQ, m) > 0 <=> m \in ToSet(exportQ)
              /\ Times(exporting, m) > 0 <=> \E w \in Exporters : exporting[w] = m
<1>1. ASSUME NEW p \in Polls
      PROVE  /\ Times(featureChan, p) \in Nat /\ Times(inferQ, p) \in Nat /\ scored[p] \in Nat
             /\ Times(featureChan, p) > 0 <=> \E i \in DOMAIN featureChan : featureChan[i] = p
             /\ Times(inferQ, p) > 0 <=> \E i \in DOMAIN inferQ : inferQ[i] = p
             /\ pollId[p] \in Nat
  <2>1. featureChan \in Seq(Polls) /\ inferQ \in Seq(Polls) /\ scored[p] \in Nat
        /\ pollId[p] \in 0..MaxPolls
    BY DEF TypeOK
  <2> QED
    BY <2>1, TimesLemma, ConstantsLemma
<1>2. ASSUME NEW m \in Msgs
      PROVE  /\ Times(exportQ, m) \in Nat /\ Times(exporting, m) \in Nat /\ handled[m] \in Nat
             /\ Times(exportQ, m) > 0 <=> m \in ToSet(exportQ)
             /\ Times(exporting, m) > 0 <=> \E w \in Exporters : exporting[w] = m
  <2> DEFINE A == {w \in DOMAIN exporting : exporting[w] = m}
  <2>1. exportQ \in Seq(Msgs) /\ DOMAIN exporting = Exporters /\ handled[m] \in Nat
    BY DEF TypeOK
  <2>2. Times(exportQ, m) \in Nat /\ (Times(exportQ, m) > 0 <=> m \in ToSet(exportQ))
    <3>1. m \in ToSet(exportQ) <=> \E i \in DOMAIN exportQ : exportQ[i] = m
      BY DEF ToSet
    <3> QED
      BY <2>1, <3>1, TimesLemma
  <2>3. Cardinality(A) \in Nat /\ (Cardinality(A) = 0 <=> A = {})
    BY <2>1, ConstantsLemma, NoneLemma
  <2>4. Times(exporting, m) = Cardinality(A)
    BY DEF Times
  <2> QED
    BY <2>1, <2>2, <2>3, <2>4
<1> QED
  BY <1>1, <1>2

\* No message is in two places, and one that was not offered is in none.
LEMMA OnceLemma ==
  ASSUME TypeOK, EveryRecordAccounted
  PROVE  /\ \A p \in Polls : p > polls \/ InHand(p) =>
              /\ ~ Analyzed(p) /\ p \notin dropped.feature /\ ~ Lost(p)
              /\ \A i \in DOMAIN featureChan : featureChan[i] # p
         /\ \A p \in Polls : Analyzed(p) => \A i \in DOMAIN featureChan : featureChan[i] # p
         /\ \A p \in Polls : ~ InferOffered(p) =>
              /\ Times(inferQ, p) = 0 /\ (\A i \in DOMAIN inferQ : inferQ[i] # p)
              /\ Scoring(p) = {} /\ scored[p] = 0 /\ p \notin dropped.infer
         /\ \A p \in Polls : Scoring(p) # {} =>
              InferOffered(p) /\ Cardinality(Scoring(p)) = 1 /\ scored[p] = 0
         /\ \A m \in Msgs : ~ ExportOffered(m) =>
              /\ m \notin ToSet(exportQ) /\ (\A w \in Exporters : exporting[w] # m)
              /\ handled[m] = 0 /\ m \notin dropped.export /\ ExportPlaces(m) = 0
<1>1. ASSUME NEW p \in Polls
      PROVE  /\ p > polls \/ InHand(p) =>
                             /\ ~ Analyzed(p) /\ p \notin dropped.feature /\ ~ Lost(p)
                             /\ \A i \in DOMAIN featureChan : featureChan[i] # p
             /\ Analyzed(p) => \A i \in DOMAIN featureChan : featureChan[i] # p
  <2>1. FeaturePlaces(p) = One(p <= polls)
    BY DEF EveryRecordAccounted
  <2>2. /\ Times(featureChan, p) \in Nat
        /\ Times(featureChan, p) > 0 <=> \E i \in DOMAIN featureChan : featureChan[i] = p
    BY PlacesLemma
  <2>3. p \in Nat /\ polls \in Nat
    BY PollsLemma, ConstantsLemma DEF TypeOK
  <2> QED
    BY <2>1, <2>2, <2>3 DEF FeaturePlaces, One
<1>2. ASSUME NEW p \in Polls
      PROVE  /\ ~ InferOffered(p) =>
                  /\ Times(inferQ, p) = 0 /\ (\A i \in DOMAIN inferQ : inferQ[i] # p)
                  /\ Scoring(p) = {} /\ scored[p] = 0 /\ p \notin dropped.infer
             /\ Scoring(p) # {} =>
                  InferOffered(p) /\ Cardinality(Scoring(p)) = 1 /\ scored[p] = 0
  <2>1. InferPlaces(p) = One(InferOffered(p))
    BY DEF EveryRecordAccounted
  <2>2. /\ Times(inferQ, p) \in Nat /\ scored[p] \in Nat
        /\ Times(inferQ, p) > 0 <=> \E i \in DOMAIN inferQ : inferQ[i] = p
    BY PlacesLemma
  <2>3. Cardinality(Scoring(p)) \in Nat /\ (Cardinality(Scoring(p)) = 0 <=> Scoring(p) = {})
    BY ScoringLemma
  <2> QED
    BY <2>1, <2>2, <2>3 DEF InferPlaces, One
<1>3. ASSUME NEW m \in Msgs, ~ ExportOffered(m)
      PROVE  /\ m \notin ToSet(exportQ) /\ (\A w \in Exporters : exporting[w] # m)
             /\ handled[m] = 0 /\ m \notin dropped.export /\ ExportPlaces(m) = 0
  <2>1. ExportPlaces(m) = 0
    BY <1>3 DEF EveryRecordAccounted, One
  <2>2. /\ Times(exportQ, m) \in Nat /\ Times(exporting, m) \in Nat /\ handled[m] \in Nat
        /\ Times(exportQ, m) > 0 <=> m \in ToSet(exportQ)
        /\ Times(exporting, m) > 0 <=> \E w \in Exporters : exporting[w] = m
    BY PlacesLemma
  <2> QED
    BY <2>1, <2>2 DEF ExportPlaces, One
<1> QED
  BY <1>1, <1>2, <1>3

LEMMA InitLemma == Init => Inductive
<1> SUFFICES ASSUME Init
             PROVE  Inductive
  OBVIOUS
<1>1. /\ \A p \in Polls : pollId[p] = 0 /\ scored[p] = 0
      /\ \A m \in Msgs : handled[m] = 0
      /\ \A w \in Exporters : exporting[w] = NoMsg
      /\ \A w \in Inferers : inferring[w] = NoMsg
      /\ featureChan = <<>> /\ exportQ = <<>> /\ inferQ = <<>> /\ DOMAIN <<>> = {}
      /\ dropped.empty = {} /\ dropped.feature = {} /\ dropped.export = {} /\ dropped.infer = {}
      /\ polls = 0 /\ pollCounter = 0 /\ mon = "idle" /\ ana.poll = NoPoll /\ ana.pc = "idle"
  BY DEF Init
<1>2. TypeOK
  <2> USE ConstantsLemma
  <2>1. /\ ips \in Seq(Ips) /\ batch \in Seq(Records) /\ featureChan \in Seq(Polls)
        /\ exportQ \in Seq(Msgs) /\ inferQ \in Seq(Polls)
        /\ Len(featureChan) <= FeatureCap /\ Len(exportQ) <= ExportCap /\ Len(inferQ) <= InferCap
    BY EmptySeq DEF Init
  <2>2. ctxDone \in BOOLEAN
    BY DEF Init
  <2>3. known \in [table : Tables \cup {<<>>}, same : BOOLEAN]
    BY DEF Init, Nothing
  <2>4. /\ table \in Tables \cup {<<>>} /\ refreshes \in 0..MaxRefreshes
        /\ mon \in {"idle", "topn", "list", "polling", "gone"}
        /\ polls \in 0..MaxPolls /\ size \in [Polls -> 0..Cardinality(Ips)]
    BY DEF Init
  <2>5. /\ ana \in [pc : {"idle", "export", "infer", "gone"}, poll : Polls \cup {NoPoll}]
        /\ pollCounter \in 0..MaxPolls /\ pollId \in [Polls -> 0..MaxPolls]
    BY DEF Init
  <2>6. /\ exporting \in [Exporters -> Msgs \cup {NoMsg}] /\ handled \in [Msgs -> Nat]
        /\ inferring \in [Inferers -> (Polls \X Nat) \cup {NoMsg}]
        /\ scored \in [Polls -> Nat]
    BY DEF Init
  <2>7. dropped \in [empty : SUBSET Polls, feature : SUBSET Polls, export : SUBSET Msgs, infer : SUBSET Polls]
    BY DEF Init
  <2> QED
    BY <2>1, <2>2, <2>3, <2>4, <2>5, <2>6, <2>7 DEF TypeOK
<1>3. \A w \in Inferers : inferring[w][1] = NoPoll
  BY <1>1 DEF NoMsg, NoPoll
<1>4. UnderWay /\ OneListing
  BY <1>1, <1>3, PollsLemma DEF UnderWay, OneListing, Busy
<1>5. PollIdsFollowPolls
  <2>1. {pollId[p] : p \in Polls} \ {0} = {} /\ 1..pollCounter = {}
    BY <1>1
  <2> QED
    BY <1>1, <2>1 DEF PollIdsFollowPolls, Ascending, Analyzed
<1>6. EveryRecordAccounted
  <2>1. ASSUME NEW p \in Polls
        PROVE  FeaturePlaces(p) = One(p <= polls) /\ InferPlaces(p) = One(InferOffered(p))
    <3>1. /\ Times(featureChan, p) \in Nat /\ Times(inferQ, p) \in Nat
          /\ Times(featureChan, p) > 0 <=> \E i \in DOMAIN featureChan : featureChan[i] = p
          /\ Times(inferQ, p) > 0 <=> \E i \in DOMAIN inferQ : inferQ[i] = p
      BY <1>2, PlacesLemma
    <3>2. Times(featureChan, p) = 0 /\ Times(inferQ, p) = 0
      BY <1>1, <3>1
    <3>5. Scoring(p) = {}
      BY <1>3, PollsLemma DEF Scoring
    <3>3. Cardinality(Scoring(p)) = 0
      BY <1>2, <3>5, ScoringLemma
    <3>4. ~ (p <= polls) /\ ~ Analyzed(p) /\ ~ InferOffered(p) /\ ~ InHand(p) /\ ~ Lost(p)
      BY <1>1, PollsLemma DEF Analyzed, InferOffered, InHand, Busy, Lost
    <3> QED
      BY <1>1, <3>2, <3>3, <3>4 DEF FeaturePlaces, InferPlaces, One
  <2>2. ASSUME NEW m \in Msgs
        PROVE  ExportPlaces(m) = One(ExportOffered(m))
    <3>1. /\ Times(exportQ, m) \in Nat /\ Times(exporting, m) \in Nat
          /\ Times(exportQ, m) > 0 <=> m \in ToSet(exportQ)
          /\ Times(exporting, m) > 0 <=> \E w \in Exporters : exporting[w] = m
      BY <1>2, PlacesLemma
    <3>2. Times(exportQ, m) = 0 /\ Times(exporting, m) = 0
      BY <1>1, <3>1, PollsLemma DEF ToSet
    <3>3. m[1] \in Polls /\ scored[m[1]] = 0 /\ ~ Analyzed(m[1]) /\ Scoring(m[1]) = {}
      BY <1>1, <1>3, PollsLemma DEF Analyzed, Scoring
    <3>4. ~ ExportOffered(m)
      BY <3>3 DEF ExportOffered
    <3> QED
      BY <1>1, <3>2, <3>4 DEF ExportPlaces, One
  <2> QED
    BY <2>1, <2>2 DEF EveryRecordAccounted
<1>7. QueuedInOrder /\ OvertakenByFew
  BY <1>1 DEF QueuedInOrder, OvertakenByFew
<1> QED
  BY <1>2, <1>4, <1>5, <1>6, <1>7 DEF Inductive

(***************************************************************************)
(* The poll loop and the SMF client, before the batch is built.            *)
(***************************************************************************)
\* A window is where it was if the poll loop has the same one in hand.
LEMMA SamePlacesLemma ==
  ASSUME Inductive, UNCHANGED <<polls, featureChan, pollId, dropped>>, Busy' <=> Busy
  PROVE  \A p \in Polls : FeaturePlaces(p)' = One(p <= polls)'
  BY DEF Inductive, EveryRecordAccounted, FeaturePlaces, Analyzed, Lost, InHand

\* What the queues hold does not depend on the poll that is under way.
LEMMA QuietLemma ==
  ASSUME Inductive,
         UNCHANGED <<size, featureChan, anaVars, exportQ, expVars, inferQ, infVars>>,
         dropped'.export = dropped.export, dropped'.infer = dropped.infer,
         \A p \in Polls : FeaturePlaces(p)' = One(p <= polls)'
  PROVE  UnderWay' /\ PollIdsFollowPolls' /\ EveryRecordAccounted' /\ QueuedInOrder' /\ OvertakenByFew'
<1>1. /\ UNCHANGED <<size, featureChan, ana, pollCounter, pollId, exportQ>>
      /\ UNCHANGED <<exporting, handled, inferQ, inferring, scored>>
  BY DEF anaVars, expVars, infVars
<1>2. UnderWay' /\ PollIdsFollowPolls'
  BY <1>1 DEF Inductive, UnderWay, PollIdsFollowPolls, Analyzed
<1>3. EveryRecordAccounted'
  <2>1. \A p \in Polls : InferPlaces(p)' = One(InferOffered(p))'
    BY <1>1 DEF Inductive, EveryRecordAccounted, InferPlaces, InferOffered, Analyzed, Scoring
  <2>2. \A m \in Msgs : ExportPlaces(m)' = One(ExportOffered(m))'
    BY <1>1 DEF Inductive, EveryRecordAccounted, ExportPlaces, ExportOffered, Analyzed, Scoring
  <2> QED
    BY <2>1, <2>2 DEF EveryRecordAccounted
<1>4. QueuedInOrder' /\ OvertakenByFew'
  BY <1>1 DEF Inductive, QueuedInOrder, OvertakenByFew
<1> QED
  BY <1>2, <1>3, <1>4

LEMMA RefreshLemma == Inductive /\ Refresh => Inductive'
<1> SUFFICES ASSUME Inductive, Refresh
             PROVE  Inductive'
  OBVIOUS
<1>1. /\ UNCHANGED <<ctxDone, mon, ips, batch, polls, size, featureChan, ana, pollCounter, pollId>>
      /\ UNCHANGED <<exportQ, exporting, handled, inferQ, inferring, scored, dropped>>
      /\ refreshes < MaxRefreshes /\ refreshes' = refreshes + 1
      /\ table' \in Tables \cup {<<>>}
  BY DEF Refresh, anaVars, expVars, infVars
<1>2. TypeOK /\ OneListing
  BY DEF Inductive
<1> DEFINE still == mon = "polling" => known.same /\ table' = table
<1>3. still \in BOOLEAN /\ known' = [known EXCEPT !.same = still]
      /\ known \in [table : Tables \cup {<<>>}, same : BOOLEAN]
  BY <1>2 DEF Refresh, TypeOK
<1>4. known' \in [table : Tables \cup {<<>>}, same : BOOLEAN]
      /\ known'.table = known.table /\ known'.same = still
  <2> HIDE DEF still
  <2> QED
    BY <1>3
<1>5. TypeOK'
  <2>1. refreshes' \in 0..MaxRefreshes
    BY <1>1, <1>2, ConstantsLemma DEF TypeOK
  <2> QED
    BY <1>1, <1>2, <1>4, <2>1 DEF TypeOK
<1>6. OneListing'
  BY <1>1, <1>2, <1>4 DEF OneListing, Busy
<1>7. UnderWay' /\ PollIdsFollowPolls' /\ EveryRecordAccounted' /\ QueuedInOrder' /\ OvertakenByFew'
  <2>1. \A p \in Polls : FeaturePlaces(p)' = One(p <= polls)'
    BY <1>1, SamePlacesLemma DEF Busy
  <2> QED
    BY <1>1, <2>1, QuietLemma DEF anaVars, expVars, infVars
<1> QED
  BY <1>5, <1>6, <1>7 DEF Inductive

\* A listing has each address of the table once.
LEMMA ListingLemma ==
  ASSUME NEW t \in Tables \cup {<<>>}, NEW s \in AllUeIps(t)
  PROVE  /\ s \in Seq(Ips) /\ Len(s) = Cardinality(DOMAIN t) /\ Len(s) \in Nat
         /\ Len(s) <= Cardinality(Ips) /\ DOMAIN s = 1..Len(s)
         /\ \A i \in 1..Len(s) : s[i] \in DOMAIN t
         /\ \A ip \in DOMAIN t : \E i \in 1..Len(s) : s[i] = ip
         /\ \A i, j \in 1..Len(s) : i < j => t[s[i]] <= t[s[j]]
<1> DEFINE D == DOMAIN t
           n == Cardinality(D)
<1>1. D \subseteq Ips /\ IsFiniteSet(D) /\ n \in Nat /\ n <= Cardinality(Ips)
  BY ConstantsLemma, FS_Subset, FS_CardinalityType
<1>2. s \in [1..n -> D] /\ (\A i, j \in 1..n : i # j => s[i] # s[j]) /\ Sorted(t, s)
  BY DEF AllUeIps, SetToSeqs
<1> HIDE DEF n, D
<1>3. s \in Seq(D) /\ s \in Seq(Ips) /\ Len(s) = n /\ DOMAIN s = 1..n
  BY <1>1, <1>2
<1>4. \A ip \in D : \E i \in 1..n : s[i] = ip
  <2> DEFINE I == 1..n
  <2>1. IsFiniteSet(I) /\ Cardinality(I) = n
    BY <1>1, FS_Interval
  <2>2. s \in [I -> D] /\ \A i, j \in I : i # j => s[i] # s[j]
    BY <1>2
  <2> HIDE DEF I
  <2>3. s \in Injection(I, D)
    BY <2>2 DEF Injection, IsInjective
  <2>4. s \in Surjection(I, D)
    BY <1>1, <2>1, <2>3, FS_Injection DEF n
  <2> QED
    BY <2>2, <2>4 DEF Surjection, I
<1> QED
  BY <1>1, <1>2, <1>3, <1>4 DEF Sorted, D, n

LEMMA PollLemma == Inductive /\ Poll => Inductive'
<1> SUFFICES ASSUME Inductive, Poll
             PROVE  Inductive'
  OBVIOUS
<1>1. /\ UNCHANGED <<ctxDone, table, refreshes, ips, batch, known, size, featureChan, ana, pollCounter, pollId>>
      /\ UNCHANGED <<exportQ, exporting, handled, inferQ, inferring, scored, dropped>>
      /\ mon = "idle" /\ polls < MaxPolls /\ mon' = "topn" /\ polls' = polls + 1
  BY DEF Poll, OnlyMonitor, smfVars, anaVars, expVars, infVars
<1>2. TypeOK /\ EveryRecordAccounted
  BY DEF Inductive
<1>3. PICK p \in Polls : p = polls + 1
  <2>1. polls \in Nat /\ polls + 1 \in Nat /\ polls + 1 > 0 /\ polls + 1 <= MaxPolls
    BY <1>1, <1>2, ConstantsLemma DEF TypeOK
  <2> QED
    BY <2>1, PollsLemma
<1>4. polls \in Nat /\ p \in Nat /\ p > polls /\ p <= MaxPolls /\ polls' = p
  <2>1. polls \in Nat
    BY <1>2, ConstantsLemma DEF TypeOK
  <2>2. p \in Nat /\ p <= MaxPolls
    BY PollsLemma
  <2> QED
    BY <1>1, <1>3, <2>1, <2>2
<1>5. TypeOK'
  <2>1. polls' \in 0..MaxPolls /\ mon' \in {"idle", "topn", "list", "polling", "gone"}
    BY <1>1, <1>4, ConstantsLemma
  <2> QED
    BY <1>1, <1>2, <2>1 DEF TypeOK
<1>6. OneListing'
  BY <1>1, <1>4 DEF OneListing
<1>7. ASSUME NEW q \in Polls
      PROVE  FeaturePlaces(q)' = One(q <= polls)'
  <2>1. FeaturePlaces(q) = One(q <= polls) /\ q \in Nat
    BY <1>2, PollsLemma DEF EveryRecordAccounted
  <2>2. /\ ~ InHand(q) /\ (InHand(q)' <=> q = p)
        /\ (Lost(q)' <=> Lost(q)) /\ (Analyzed(q)' <=> Analyzed(q))
    BY <1>1, <1>4 DEF InHand, Busy, Lost, Analyzed
  <2>3. Times(featureChan, q) \in Nat
    BY <1>2, PlacesLemma
  <2>4. (q <= polls') <=> (q <= polls \/ q = p)
    BY <1>3, <1>4, <2>1
  <2>5. FeaturePlaces(q)' = FeaturePlaces(q) + One(q = p)
    BY <1>1, <2>2, <2>3 DEF FeaturePlaces, One
  <2> QED
    BY <1>4, <2>1, <2>4, <2>5 DEF One
<1>8. UnderWay' /\ PollIdsFollowPolls' /\ EveryRecordAccounted' /\ QueuedInOrder' /\ OvertakenByFew'
  BY <1>1, <1>7, QuietLemma DEF anaVars, expVars, infVars
<1> QED
  BY <1>5, <1>6, <1>8 DEF Inductive

LEMMA TopNReturnsLemma == Inductive /\ TopNReturns => Inductive'
<1> SUFFICES ASSUME Inductive, TopNReturns
             PROVE  Inductive'
  OBVIOUS
<1>1. /\ UNCHANGED <<ctxDone, table, refreshes, ips, batch, known, polls, size, featureChan, ana, pollCounter, pollId>>
      /\ UNCHANGED <<exportQ, exporting, handled, inferQ, inferring, scored, dropped>>
      /\ mon = "topn" /\ mon' = "list"
  BY DEF TopNReturns, OnlyMonitor, smfVars, anaVars, expVars, infVars
<1>2. TypeOK'
  BY <1>1 DEF Inductive, TypeOK
<1>3. OneListing'
  BY <1>1 DEF Inductive, OneListing, Busy
<1>4. \A q \in Polls : FeaturePlaces(q)' = One(q <= polls)'
  BY <1>1, SamePlacesLemma DEF Busy
<1>5. UnderWay' /\ PollIdsFollowPolls' /\ EveryRecordAccounted' /\ QueuedInOrder' /\ OvertakenByFew'
  BY <1>1, <1>4, QuietLemma DEF anaVars, expVars, infVars
<1> QED
  BY <1>2, <1>3, <1>5 DEF Inductive

LEMMA ListUesLemma == Inductive /\ ListUes => Inductive'
<1> SUFFICES ASSUME Inductive, ListUes
             PROVE  Inductive'
  OBVIOUS
<1>1. /\ UNCHANGED <<ctxDone, table, refreshes, polls, size, featureChan, ana, pollCounter, pollId>>
      /\ UNCHANGED <<exportQ, exporting, handled, inferQ, inferring, scored, dropped>>
      /\ mon = "list" /\ mon' = "polling" /\ batch' = <<>>
      /\ ips' \in AllUeIps(table) /\ known' = [table |-> table, same |-> TRUE]
  BY DEF ListUes, OnlyMonitor, smfVars, anaVars, expVars, infVars
<1>2. TypeOK /\ table \in Tables \cup {<<>>}
  BY DEF Inductive, TypeOK
<1>3. ips' \in Seq(Ips) /\ Len(ips') \in Nat
  BY <1>1, <1>2, ListingLemma
<1>4. known' \in [table : Tables \cup {<<>>}, same : BOOLEAN] /\ known'.table = table /\ known'.same
  BY <1>1, <1>2
<1>5. batch' \in Seq(Records) /\ DOMAIN batch' = {} /\ Len(batch') = 0
  BY <1>1, EmptySeq
<1>6. TypeOK'
  BY <1>1, <1>2, <1>3, <1>4, <1>5 DEF TypeOK
<1>7. OneListing'
  <2>1. Len(ips') = 0 + Len(ips') /\ \A i \in DOMAIN ips' : ips'[i] = ips'[0 + i]
    <3>1. DOMAIN ips' = 1..Len(ips')
      BY <1>3, LenProperties
    <3> QED
      BY <1>3, <3>1
  <2>2. polls' \in Polls /\ ips' \in AllUeIps(known'.table) /\ known'.table = table'
    BY <1>1, <1>4 DEF Inductive, OneListing, Busy
  <2> QED
    BY <1>5, <2>1, <2>2 DEF OneListing
<1>8. UnderWay' /\ PollIdsFollowPolls' /\ EveryRecordAccounted' /\ QueuedInOrder' /\ OvertakenByFew'
  <2>1. \A p \in Polls : FeaturePlaces(p)' = One(p <= polls)'
    BY <1>1, SamePlacesLemma DEF Busy
  <2> QED
    BY <1>1, <2>1, QuietLemma DEF anaVars, expVars, infVars
<1> QED
  BY <1>6, <1>7, <1>8 DEF Inductive

\* The window that was in hand is lost.
LEMMA NoUesLemma == Inductive /\ NoUes => Inductive'
<1> SUFFICES ASSUME Inductive, NoUes
             PROVE  Inductive'
  OBVIOUS
<1>1. /\ UNCHANGED <<ctxDone, table, refreshes, ips, batch, known, polls, size, featureChan, ana, pollCounter, pollId>>
      /\ UNCHANGED <<exportQ, exporting, handled, inferQ, inferring, scored>>
      /\ mon = "list" /\ mon' = "idle" /\ dropped' = [dropped EXCEPT !.empty = @ \cup {polls}]
  BY DEF NoUes, OnlyMonitor, smfVars, anaVars, expVars, infVars
<1>2. TypeOK /\ EveryRecordAccounted /\ dropped \in [empty : SUBSET Polls, feature : SUBSET Polls, export : SUBSET Msgs, infer : SUBSET Polls]
  BY DEF Inductive, TypeOK
<1>3. polls \in Polls
  BY <1>1 DEF Inductive, OneListing, Busy
<1>4. /\ dropped'.empty = dropped.empty \cup {polls} /\ dropped'.feature = dropped.feature
      /\ dropped'.export = dropped.export /\ dropped'.infer = dropped.infer
      /\ dropped' \in [empty : SUBSET Polls, feature : SUBSET Polls, export : SUBSET Msgs, infer : SUBSET Polls]
  <2>1. dropped.empty \cup {polls} \in SUBSET Polls
    BY <1>2, <1>3
  <2> QED
    BY <1>1, <1>2, <2>1
<1>5. TypeOK'
  BY <1>1, <1>2, <1>4 DEF TypeOK
<1>6. OneListing'
  BY <1>1 DEF OneListing, Busy
<1>7. ASSUME NEW q \in Polls
      PROVE  FeaturePlaces(q)' = One(q <= polls)'
  <2>1. FeaturePlaces(q) = One(q <= polls)'
    BY <1>1, <1>2 DEF EveryRecordAccounted
  <2>2. /\ (InHand(q) <=> q = polls) /\ ~ InHand(q)' /\ (Analyzed(q)' <=> Analyzed(q))
        /\ (Lost(q)' <=> Lost(q) \/ q = polls) /\ (q = polls => ~ Lost(q))
    BY <1>1, <1>2, <1>4, OnceLemma DEF InHand, Busy, Lost, Analyzed
  <2>3. Times(featureChan, q) \in Nat
    BY <1>2, PlacesLemma
  <2>4. FeaturePlaces(q)' = FeaturePlaces(q)
    BY <1>1, <1>4, <2>2, <2>3 DEF FeaturePlaces, One
  <2> QED
    BY <2>1, <2>4
<1>8. UnderWay' /\ PollIdsFollowPolls' /\ EveryRecordAccounted' /\ QueuedInOrder' /\ OvertakenByFew'
  BY <1>1, <1>4, <1>7, QuietLemma DEF anaVars, expVars, infVars
<1> QED
  BY <1>5, <1>6, <1>8 DEF Inductive

LEMMA NextRecordLemma == Inductive /\ NextRecord => Inductive'
<1> SUFFICES ASSUME Inductive, NextRecord
             PROVE  Inductive'
  OBVIOUS
<1> DEFINE ip == Head(ips)
           record == [ip |-> ip, supi |-> GetSupi(ip)]
           k == Len(batch)
           n == Len(ips)
<1>1. /\ UNCHANGED <<ctxDone, table, refreshes, mon, known, polls, size, featureChan, ana, pollCounter, pollId>>
      /\ UNCHANGED <<exportQ, exporting, handled, inferQ, inferring, scored, dropped>>
      /\ mon = "polling" /\ ips # <<>> /\ batch' = Append(batch, record) /\ ips' = Tail(ips)
  BY DEF NextRecord, OnlyMonitor, smfVars, anaVars, expVars, infVars
<1>2. TypeOK /\ OneListing /\ table \in Tables \cup {<<>>} /\ known.table \in Tables \cup {<<>>}
      /\ ips \in Seq(Ips) /\ batch \in Seq(Records)
  BY DEF Inductive, TypeOK
<1>3. /\ ips' \in Seq(Ips) /\ ip \in Ips /\ n \in Nat \ {0} /\ ip = ips[1]
      /\ DOMAIN ips = 1..n /\ DOMAIN ips' = 1..(n - 1) /\ Len(ips') = n - 1
      /\ \A i \in 1..(n - 1) : ips'[i] = ips[i + 1]
  BY <1>1, <1>2, TailLemma
<1>4. GetSupi(ip) \in 0..Unknown /\ (ip \in DOMAIN table => GetSupi(ip) = table[ip])
  BY <1>2, ConstantsLemma DEF GetSupi
<1>5. record \in Records /\ record.ip = ip /\ record.supi = GetSupi(ip)
  BY <1>3, <1>4 DEF Records
<1> HIDE DEF record, ip
<1>6. /\ batch' \in Seq(Records) /\ Len(batch') = k + 1 /\ k \in Nat
      /\ DOMAIN batch = 1..k /\ DOMAIN batch' = 1..(k + 1)
      /\ batch'[k + 1] = record /\ \A i \in 1..k : batch'[i] = batch[i]
  BY <1>1, <1>2, <1>5, AppendLemma
<1>7. TypeOK'
  BY <1>1, <1>2, <1>3, <1>6 DEF TypeOK
<1>8. OneListing'
  <2>1. PICK s \in AllUeIps(known.table) :
          /\ Len(s) = k + n
          /\ \A i \in DOMAIN batch : batch[i].ip = s[i]
          /\ \A i \in DOMAIN ips : ips[i] = s[k + i]
    BY <1>1, <1>2 DEF OneListing
  <2> HIDE DEF k, n
  <2>2. \A i \in 1..Len(s) : s[i] \in DOMAIN known.table
    BY <1>2, ListingLemma
  <2>3. ip = s[k + 1] /\ k + 1 \in 1..Len(s)
    BY <1>3, <1>6, <2>1
  <2>4. \A i \in 1..(k + 1) : i \in 1..k \/ i = k + 1
    BY <1>6
  <2>5. \A i \in DOMAIN batch' : batch'[i].ip = s[i]
    BY <1>5, <1>6, <2>1, <2>3, <2>4
  <2>6. ASSUME NEW i \in 1..(n - 1)
        PROVE  ips'[i] = s[(k + 1) + i]
    <3>1. n \in Nat /\ k \in Nat /\ i \in Nat
      BY <1>3, <1>6
    <3>2. i + 1 \in 1..n
      BY <3>1
    <3>3. k + (i + 1) = (k + 1) + i
      BY <3>1
    <3> QED
      BY <1>3, <2>1, <3>2, <3>3
  <2>7. Len(s) = (k + 1) + (n - 1)
    BY <1>3, <1>6, <2>1
  <2>8. known.same => \A i \in DOMAIN batch' : batch'[i].supi = table[batch'[i].ip]
    <3>1. known.same => known.table = table /\ \A i \in DOMAIN batch : batch[i].supi = table[batch[i].ip]
      BY <1>1, <1>2 DEF OneListing
    <3>2. known.same => record.supi = table[record.ip]
      BY <1>4, <1>5, <2>2, <2>3, <3>1
    <3> QED
      BY <1>6, <2>4, <3>1, <3>2
  <2>9. polls' \in Polls /\ s \in AllUeIps(known'.table) /\ table' = table /\ known' = known
    BY <1>1, <1>2 DEF OneListing, Busy
  <2>10. /\ Len(s) = Len(batch') + Len(ips')
         /\ \A i \in DOMAIN batch' : batch'[i].ip = s[i]
         /\ \A i \in DOMAIN ips' : ips'[i] = s[Len(batch') + i]
    BY <1>3, <1>6, <2>5, <2>6, <2>7
  <2>11. known'.same => /\ known'.table = table'
                        /\ \A i \in DOMAIN batch' : batch'[i].supi = table'[batch'[i].ip]
    BY <1>1, <1>2, <2>8, <2>9 DEF OneListing
  <2> QED
    BY <2>9, <2>10, <2>11 DEF OneListing
<1>9. UnderWay' /\ PollIdsFollowPolls' /\ EveryRecordAccounted' /\ QueuedInOrder' /\ OvertakenByFew'
  <2>1. \A p \in Polls : FeaturePlaces(p)' = One(p <= polls)'
    BY <1>1, SamePlacesLemma DEF Busy
  <2> QED
    BY <1>1, <2>1, QuietLemma DEF anaVars, expVars, infVars
<1> QED
  BY <1>7, <1>8, <1>9 DEF Inductive

LEMMA OutsideLemma == Inductive /\ (MonitorLeaves \/ Cancel \/ UNCHANGED vars) => Inductive'
<1> SUFFICES ASSUME Inductive, MonitorLeaves \/ Cancel \/ UNCHANGED vars
             PROVE  Inductive'
  OBVIOUS
<1>1. /\ UNCHANGED <<table, refreshes, ips, batch, known, polls, size, featureChan, ana, pollCounter, pollId>>
      /\ UNCHANGED <<exportQ, exporting, handled, inferQ, inferring, scored, dropped>>
  BY DEF MonitorLeaves, Cancel, vars, OnlyMonitor, smfVars, monVars, anaVars, expVars, infVars
<1>2. mon' = mon \/ (mon = "idle" /\ mon' = "gone")
  BY DEF MonitorLeaves, Cancel, vars, monVars
<1>3. TypeOK /\ OneListing
  BY DEF Inductive
<1>4. ctxDone' \in BOOLEAN
  BY <1>3 DEF MonitorLeaves, Cancel, vars, OnlyMonitor, TypeOK
<1>5. TypeOK'
  BY <1>1, <1>2, <1>3, <1>4 DEF TypeOK
<1>6. OneListing'
  BY <1>1, <1>2, <1>3 DEF OneListing, Busy
<1>7. UnderWay' /\ PollIdsFollowPolls' /\ EveryRecordAccounted' /\ QueuedInOrder' /\ OvertakenByFew'
  <2>1. \A p \in Polls : FeaturePlaces(p)' = One(p <= polls)'
    BY <1>1, <1>2, SamePlacesLemma DEF Busy
  <2> QED
    BY <1>1, <2>1, QuietLemma DEF anaVars, expVars, infVars
<1> QED
  BY <1>5, <1>6, <1>7 DEF Inductive

\* The batch is in the channel or refused; before, the poll loop had it.
LEMMA BuiltLemma == Inductive /\ (Send \/ Drop) => Inductive'
<1> SUFFICES ASSUME Inductive, Send \/ Drop
             PROVE  Inductive'
  OBVIOUS
<1> DEFINE p == polls
<1>1. /\ UNCHANGED <<ctxDone, table, refreshes, ips, polls, ana, pollCounter, pollId>>
      /\ UNCHANGED <<exportQ, exporting, handled, inferQ, inferring, scored>>
      /\ mon = "polling" /\ ips = <<>> /\ mon' = "idle" /\ batch' = <<>>
      /\ size' = [size EXCEPT ![p] = Len(batch)] /\ known' = Nothing
  BY DEF Send, Drop, BatchBuilt, OnlyMonitor, smfVars, anaVars, expVars, infVars
<1>2. \/ /\ Len(featureChan) < FeatureCap /\ featureChan' = Append(featureChan, p)
         /\ dropped' = dropped
      \/ /\ featureChan' = featureChan
         /\ dropped' = [dropped EXCEPT !.feature = @ \cup {p}]
  BY DEF Send, Drop
<1>3. /\ TypeOK /\ UnderWay /\ OneListing /\ PollIdsFollowPolls /\ EveryRecordAccounted
      /\ QueuedInOrder /\ OvertakenByFew
  BY DEF Inductive
<1>4. polls \in Nat /\ p \in Polls /\ p \in Nat /\ p = polls /\ p <= MaxPolls /\ InHand(p)
  <2>1. polls \in Polls /\ Busy
    BY <1>1, <1>3 DEF OneListing, Busy
  <2> QED
    BY <2>1, ConstantsLemma, PollsLemma DEF InHand
<1> HIDE DEF p
<1>5. Len(batch) \in 0..Cardinality(Ips)
  <2>1. PICK s \in AllUeIps(known.table) : Len(s) = Len(batch) + Len(ips)
    BY <1>1, <1>3 DEF OneListing
  <2>2. known.table \in Tables \cup {<<>>} /\ batch \in Seq(Records) /\ Len(ips) = 0
    BY <1>1, <1>3 DEF TypeOK
  <2>3. Len(s) \in Nat /\ Len(s) <= Cardinality(Ips) /\ Len(batch) \in Nat
    BY <2>2, ListingLemma, LenProperties
  <2> QED
    BY <2>1, <2>2, <2>3, ConstantsLemma
<1>6. /\ featureChan \in Seq(Polls) /\ Len(featureChan) \in Nat
      /\ DOMAIN featureChan = 1..Len(featureChan)
      /\ \A i \in 1..Len(featureChan) : featureChan[i] \in Polls
  BY <1>3, LenProperties DEF TypeOK
<1>7. /\ ~ Analyzed(p) /\ p \notin dropped.feature /\ ~ Lost(p) /\ ~ InferOffered(p)
      /\ scored[p] = 0 /\ Scoring(p) = {}
  BY <1>3, <1>4, OnceLemma DEF InferOffered
<1>8. \A i \in DOMAIN featureChan : featureChan[i] < p
  <2> SUFFICES ASSUME NEW i \in DOMAIN featureChan
               PROVE  featureChan[i] < p
    OBVIOUS
  <2>1. featureChan[i] \in Polls /\ featureChan[i] \in Nat
    BY <1>6, PollsLemma
  <2>2. ~ (featureChan[i] > polls) /\ featureChan[i] # p
    BY <1>3, <1>4, <2>1, OnceLemma
  <2> QED
    BY <1>4, <2>1, <2>2
<1>9. \A q \in Polls : Analyzed(q) => q < p
  <2> SUFFICES ASSUME NEW q \in Polls, Analyzed(q)
               PROVE  q < p
    OBVIOUS
  <2>1. q \in Nat /\ ~ (q > polls) /\ q # p
    BY <1>3, <1>4, OnceLemma, PollsLemma
  <2> QED
    BY <1>4, <2>1
<1>10. /\ featureChan' \in Seq(Polls) /\ Len(featureChan') <= FeatureCap
       /\ dropped' \in [empty : SUBSET Polls, feature : SUBSET Polls, export : SUBSET Msgs, infer : SUBSET Polls] /\ dropped'.empty = dropped.empty
       /\ dropped'.export = dropped.export /\ dropped'.infer = dropped.infer
  <2>1. Append(featureChan, p) \in Seq(Polls) /\ Len(Append(featureChan, p)) = Len(featureChan) + 1
    BY <1>4, <1>6, AppendLemma
  <2>2. dropped \in [empty : SUBSET Polls, feature : SUBSET Polls, export : SUBSET Msgs, infer : SUBSET Polls]
        /\ Len(featureChan) <= FeatureCap
    BY <1>3 DEF TypeOK
  <2>3. CASE featureChan' = featureChan /\ dropped' = [dropped EXCEPT !.feature = @ \cup {p}]
    <3>1. dropped.feature \cup {p} \in SUBSET Polls
      BY <1>4, <2>2
    <3> QED
      BY <1>6, <2>2, <2>3, <3>1
  <2>4. CASE /\ Len(featureChan) < FeatureCap /\ featureChan' = Append(featureChan, p)
             /\ dropped' = dropped
    BY <1>6, <2>1, <2>2, <2>4, ConstantsLemma
  <2> QED
    BY <1>2, <2>3, <2>4
<1>11. TypeOK'
  <2>1. known' \in [table : Tables \cup {<<>>}, same : BOOLEAN]
    BY <1>1 DEF Nothing
  <2>2. batch' \in Seq(Records) /\ polls' \in 0..MaxPolls
    BY <1>1, <1>4, EmptySeq, ConstantsLemma
  <2>3. size \in [Polls -> 0..Cardinality(Ips)]
    BY <1>3 DEF TypeOK
  <2>4. size' \in [Polls -> 0..Cardinality(Ips)]
    BY <1>1, <1>5, <2>3
  <2> QED
    BY <1>1, <1>3, <1>10, <2>1, <2>2, <2>4 DEF TypeOK
<1>12. UnderWay' /\ OneListing' /\ QueuedInOrder' /\ OvertakenByFew'
  BY <1>1, <1>3 DEF UnderWay, Analyzed, OneListing, Busy, QueuedInOrder, OvertakenByFew
<1>13. PollIdsFollowPolls'
  <2>1. /\ Ascending(inferQ) /\ {pollId[q] : q \in Polls} \ {0} = 1..pollCounter
        /\ \A q, r \in Polls : q < r /\ Analyzed(r) => pollId[q] < pollId[r]
        /\ Ascending(featureChan) /\ \A q \in Polls, i \in DOMAIN featureChan : Analyzed(q) => q < featureChan[i]
    BY <1>3 DEF PollIdsFollowPolls
  <2>2. Ascending(featureChan') /\ \A q \in Polls, i \in DOMAIN featureChan' : Analyzed(q) => q < featureChan'[i]
    <3>1. CASE featureChan' = featureChan
      BY <2>1, <3>1
    <3>2. CASE featureChan' = Append(featureChan, p)
      <4> DEFINE k == Len(featureChan)
      <4>1. /\ DOMAIN featureChan' = 1..(k + 1) /\ DOMAIN featureChan = 1..k /\ k \in Nat
            /\ \A i \in 1..k : featureChan'[i] = featureChan[i]
            /\ featureChan'[k + 1] = p
        BY <1>4, <1>6, <3>2, AppendLemma
      <4> HIDE DEF k
      <4>2. \A i \in 1..(k + 1) : i \in 1..k \/ i = k + 1
        BY <4>1
      <4>3. \A i, j \in 1..(k + 1) : i < j => i \in 1..k /\ (j \in 1..k \/ j = k + 1)
        BY <4>1
      <4>4. Ascending(featureChan')
        BY <1>8, <2>1, <4>1, <4>3 DEF Ascending
      <4>5. \A q \in Polls, i \in DOMAIN featureChan' : Analyzed(q) => q < featureChan'[i]
        BY <1>9, <2>1, <4>1, <4>2
      <4> QED
        BY <4>4, <4>5
    <3> QED
      BY <1>2, <3>1, <3>2
  <2> QED
    BY <1>1, <2>1, <2>2 DEF PollIdsFollowPolls, Analyzed
<1>14. EveryRecordAccounted'
  <2>1. ASSUME NEW q \in Polls
        PROVE  FeaturePlaces(q)' = One(q <= polls)'
    <3>1. FeaturePlaces(q) = One(q <= polls) /\ q \in Nat
      BY <1>3, PollsLemma DEF EveryRecordAccounted
    <3>2. Times(featureChan, q) \in Nat
      BY <1>3, PlacesLemma
    <3>3. /\ (q = p => q <= polls) /\ (InHand(q) <=> q = p) /\ ~ InHand(q)'
          /\ (Lost(q)' <=> Lost(q)) /\ polls' = polls
      BY <1>1, <1>4, <1>10, <3>1 DEF InHand, Busy, Lost
    <3>4. CASE featureChan' = Append(featureChan, p) /\ dropped' = dropped
      <4>1. Times(featureChan', q) = Times(featureChan, q) + One(p = q)
        BY <1>4, <1>6, <3>4, AppendLemma
      <4> QED
        BY <1>1, <1>4, <1>7, <3>1, <3>2, <3>3, <3>4, <4>1 DEF FeaturePlaces, One, Analyzed
    <3>5. CASE featureChan' = featureChan /\ dropped' = [dropped EXCEPT !.feature = @ \cup {p}]
      <4>1. dropped'.feature = dropped.feature \cup {p}
        BY <1>3, <3>5 DEF TypeOK
      <4> QED
        BY <1>1, <1>4, <1>7, <3>1, <3>2, <3>3, <3>5, <4>1 DEF FeaturePlaces, One, Analyzed
    <3> QED
      BY <1>2, <3>4, <3>5
  <2>2. \A q \in Polls : InferPlaces(q)' = One(InferOffered(q))'
    BY <1>1, <1>3, <1>10 DEF EveryRecordAccounted, InferPlaces, InferOffered, Scoring, Analyzed
  <2>3. ASSUME NEW m \in Msgs
        PROVE  ExportPlaces(m)' = One(ExportOffered(m))'
    <3>1. ExportPlaces(m)' = ExportPlaces(m) /\ ExportPlaces(m) = One(ExportOffered(m))
      BY <1>1, <1>3, <1>10 DEF EveryRecordAccounted, ExportPlaces
    <3>2. CASE m[1] # p
      <4>1. size'[m[1]] = size[m[1]]
        BY <1>1, <1>3, <3>2, PollsLemma DEF TypeOK
      <4>2. ExportOffered(m)' <=> ExportOffered(m)
        BY <1>1, <4>1 DEF ExportOffered, Scoring, Analyzed
      <4> QED
        BY <3>1, <4>2 DEF One
    <3>3. CASE m[1] = p
      <4>1. ~ ExportOffered(m)' /\ ~ ExportOffered(m)
        BY <1>1, <1>7, <3>3 DEF ExportOffered, Scoring, Analyzed
      <4> QED
        BY <3>1, <4>1 DEF One
    <3> QED
      BY <3>2, <3>3
  <2> QED
    BY <2>1, <2>2, <2>3 DEF EveryRecordAccounted
<1> QED
  BY <1>11, <1>12, <1>13, <1>14 DEF Inductive

(***************************************************************************)
(* The analyzer.                                                           *)
(***************************************************************************)
\* PollIDs are numbers up to the counter, and each up to it was given.
LEMMA PollIdLemma ==
  ASSUME TypeOK, PollIdsFollowPolls
  PROVE  /\ pollCounter \in Nat
         /\ \A p \in Polls : pollId[p] \in Nat /\ pollId[p] <= pollCounter
         /\ \A p, q \in Polls : pollId[p] = pollCounter /\ Analyzed(p) /\ Analyzed(q) => q <= p
         /\ pollCounter > 0 => \E p \in Polls : pollId[p] = pollCounter /\ Analyzed(p)
<1>1. pollCounter \in Nat /\ \A p \in Polls : pollId[p] \in Nat
  BY ConstantsLemma DEF TypeOK
<1>2. {pollId[p] : p \in Polls} \ {0} = 1..pollCounter
  BY DEF PollIdsFollowPolls
<1>3. ASSUME NEW p \in Polls
      PROVE  pollId[p] <= pollCounter
  <2>1. pollId[p] = 0 \/ pollId[p] \in 1..pollCounter
    BY <1>2
  <2> QED
    BY <1>1, <2>1
<1>4. ASSUME NEW p \in Polls, NEW q \in Polls, pollId[p] = pollCounter, Analyzed(p), Analyzed(q)
      PROVE  q <= p
  <2>1. p < q => pollId[p] < pollId[q]
    BY <1>4 DEF PollIdsFollowPolls
  <2> QED
    BY <1>1, <1>3, <1>4, <2>1, PollsLemma
<1>5. ASSUME pollCounter > 0
      PROVE  \E p \in Polls : pollId[p] = pollCounter /\ Analyzed(p)
  <2>1. pollCounter \in 1..pollCounter
    BY <1>1, <1>5
  <2>2. PICK p \in Polls : pollId[p] = pollCounter
    BY <1>2, <2>1
  <2> QED
    BY <1>1, <1>5, <2>2 DEF Analyzed
<1> QED
  BY <1>1, <1>3, <1>4, <1>5

LEMMA AnalyzeLemma == Inductive /\ Analyze => Inductive'
<1> SUFFICES ASSUME Inductive, Analyze
             PROVE  Inductive'
  OBVIOUS
<1> DEFINE n == Len(featureChan)
<1>0. PICK p \in Polls : p = Head(featureChan)
  <2>1. featureChan \in Seq(Polls) /\ featureChan # <<>>
    BY DEF Inductive, TypeOK, Analyze
  <2> QED
    BY <2>1, TailLemma
<1>1. /\ UNCHANGED <<ctxDone, table, refreshes, mon, ips, batch, known, polls, size>>
      /\ UNCHANGED <<exportQ, exporting, handled, inferQ, inferring, scored, dropped>>
      /\ ana.pc = "idle" /\ featureChan # <<>> /\ ana' = [pc |-> "export", poll |-> p]
      /\ featureChan' = Tail(featureChan)
      /\ pollCounter' = pollCounter + 1
      /\ pollId' = [pollId EXCEPT ![p] = pollCounter + 1]
  BY <1>0 DEF Analyze, OnlyAnalyzer, smfVars, monVars, expVars, infVars
<1>2. /\ TypeOK /\ UnderWay /\ OneListing /\ PollIdsFollowPolls /\ EveryRecordAccounted
      /\ QueuedInOrder /\ OvertakenByFew
  BY DEF Inductive
<1>3. /\ featureChan' \in Seq(Polls) /\ Len(featureChan') = n - 1 /\ p \in Polls /\ p = featureChan[1]
      /\ n \in Nat \ {0} /\ DOMAIN featureChan = 1..n /\ DOMAIN featureChan' = 1..(n - 1)
      /\ \A i \in 1..(n - 1) : featureChan'[i] = featureChan[i + 1]
      /\ \A q : /\ Times(featureChan, q) \in Nat /\ Times(featureChan', q) \in Nat
                /\ Times(featureChan, q) = Times(featureChan', q) + One(p = q)
  <2>1. featureChan \in Seq(Polls)
    BY <1>2 DEF TypeOK
  <2> QED
    BY <1>0, <1>1, <2>1, TailLemma
<1> HIDE DEF n
<1>4. ~ Analyzed(p) /\ p \in Nat /\ 1 \in DOMAIN featureChan
  <2>1. 1 \in DOMAIN featureChan
    BY <1>3
  <2> QED
    BY <1>2, <1>3, <2>1, OnceLemma, PollsLemma
<1>5. \A q \in Polls : Analyzed(q) => q < p
  BY <1>2, <1>3, <1>4 DEF PollIdsFollowPolls
<1>6. \A i \in 1..(n - 1) : p < featureChan'[i] /\ i + 1 \in 1..n
  <2> SUFFICES ASSUME NEW i \in 1..(n - 1)
               PROVE  p < featureChan'[i] /\ i + 1 \in 1..n
    OBVIOUS
  <2>1. n \in Nat /\ i \in Nat /\ i > 0
    BY <1>3
  <2>2. i + 1 \in 1..n /\ 1 < i + 1
    BY <2>1
  <2>3. featureChan[1] < featureChan[i + 1]
    BY <1>2, <1>3, <1>4, <2>2 DEF PollIdsFollowPolls, Ascending
  <2> QED
    BY <1>3, <2>2, <2>3
<1>7. pollCounter \in Nat /\ \A q \in Polls : pollId[q] \in Nat /\ pollId[q] <= pollCounter
  BY <1>2, PollIdLemma
<1>8. pollCounter + 1 <= p /\ p <= MaxPolls
  <2>1. pollCounter < p
    <3>1. CASE pollCounter = 0
      BY <1>3, <3>1, PollsLemma
    <3>2. CASE pollCounter > 0
      <4>1. PICK q \in Polls : pollId[q] = pollCounter /\ Analyzed(q)
        BY <1>2, <3>2, PollIdLemma
      <4>2. pollId[q] <= q /\ q < p /\ q \in Nat
        BY <1>2, <1>5, <4>1, PollsLemma DEF UnderWay
      <4> QED
        BY <1>4, <1>7, <4>1, <4>2
    <3> QED
      BY <1>7, <3>1, <3>2
  <2> QED
    BY <1>3, <1>4, <1>7, <2>1, PollsLemma
<1>9. pollId'[p] = pollCounter + 1 /\ \A q \in Polls : q # p => pollId'[q] = pollId[q]
  BY <1>1, <1>2, <1>3 DEF TypeOK
<1>10. Analyzed(p)' /\ \A q \in Polls : q # p => (Analyzed(q)' <=> Analyzed(q))
  BY <1>7, <1>9 DEF Analyzed
<1>11. TypeOK'
  <2>1. ana' \in [pc : {"idle", "export", "infer", "gone"}, poll : Polls \cup {NoPoll}]
    BY <1>1, <1>3
  <2>2. pollCounter + 1 \in 0..MaxPolls
    BY <1>4, <1>7, <1>8, ConstantsLemma
  <2>3. pollId \in [Polls -> 0..MaxPolls]
    BY <1>2 DEF TypeOK
  <2>4. pollId' \in [Polls -> 0..MaxPolls]
    BY <1>1, <2>2, <2>3
  <2>5. Len(featureChan') <= FeatureCap
    BY <1>2, <1>3, ConstantsLemma DEF TypeOK, n
  <2> QED
    BY <1>1, <1>2, <1>3, <2>1, <2>2, <2>4, <2>5 DEF TypeOK
<1>12. UnderWay'
  <2>1. \A q \in Polls : pollId'[q] <= q
    BY <1>2, <1>8, <1>9 DEF UnderWay
  <2>2. ana'.pc = "export" /\ ana'.poll = p /\ p # NoPoll
    BY <1>1, <1>3, PollsLemma
  <2> QED
    BY <1>1, <1>2, <1>9, <1>10, <2>1, <2>2 DEF UnderWay
<1>13. OneListing' /\ QueuedInOrder' /\ OvertakenByFew'
  BY <1>1, <1>2 DEF OneListing, Busy, QueuedInOrder, OvertakenByFew
<1>14. PollIdsFollowPolls'
  <2>1. Ascending(featureChan')
    <3> SUFFICES ASSUME NEW i \in 1..(n - 1), NEW j \in 1..(n - 1), i < j
                 PROVE  featureChan'[i] < featureChan'[j]
      BY <1>3 DEF Ascending
    <3>1. i + 1 < j + 1
      BY <1>3
    <3>2. featureChan[i + 1] < featureChan[j + 1]
      BY <1>2, <1>3, <1>6, <3>1 DEF PollIdsFollowPolls, Ascending
    <3> QED
      BY <1>3, <3>2
  <2>2. {pollId'[q] : q \in Polls} \ {0} = 1..(pollCounter + 1)
    <3>1. {pollId[q] : q \in Polls} \ {0} = 1..pollCounter
      BY <1>2 DEF PollIdsFollowPolls
    <3>2. pollId[p] = 0
      BY <1>4 DEF Analyzed
    <3>3. ASSUME NEW k \in 1..pollCounter
          PROVE  \E q \in Polls : pollId'[q] = k
      <4>1. PICK q \in Polls : pollId[q] = k
        BY <3>1
      <4> QED
        BY <1>7, <1>9, <3>2, <4>1
    <3>4. \A q \in Polls : q # p => pollId'[q] = 0 \/ pollId'[q] \in 1..pollCounter
      BY <1>9, <3>1
    <3>5. 1..(pollCounter + 1) = (1..pollCounter) \cup {pollCounter + 1} /\ 0 \notin 1..(pollCounter + 1)
      BY <1>7
    <3> QED
      BY <1>3, <1>9, <3>3, <3>4, <3>5
  <2>3. ASSUME NEW q \in Polls, NEW r \in Polls, q < r, Analyzed(r)'
        PROVE  pollId'[q] < pollId'[r]
    <3>1. CASE r = p
      BY <1>3, <1>7, <1>9, <2>3, <3>1, PollsLemma
    <3>2. CASE r # p /\ q = p
      BY <1>5, <1>10, <2>3, <3>2, PollsLemma
    <3>3. CASE r # p /\ q # p
      BY <1>2, <1>9, <1>10, <2>3, <3>3 DEF PollIdsFollowPolls
    <3> QED
      BY <3>1, <3>2, <3>3
  <2>4. ASSUME NEW q \in Polls, NEW i \in DOMAIN featureChan', Analyzed(q)'
        PROVE  q < featureChan'[i]
    <3>1. CASE q = p
      BY <1>3, <1>6, <3>1
    <3>2. CASE q # p
      BY <1>2, <1>3, <1>6, <1>10, <2>4, <3>2 DEF PollIdsFollowPolls
    <3> QED
      BY <3>1, <3>2
  <2> QED
    BY <1>1, <1>2, <2>1, <2>2, <2>3, <2>4 DEF PollIdsFollowPolls
<1>15. EveryRecordAccounted'
  <2>1. ana.poll = NoPoll /\ ana'.poll = p /\ ana'.pc = "export"
    BY <1>1, <1>2 DEF UnderWay
  <2>2. ASSUME NEW q \in Polls
        PROVE  FeaturePlaces(q)' = One(q <= polls)'
    <3>1. FeaturePlaces(q) = One(q <= polls)
      BY <1>2 DEF EveryRecordAccounted
    <3>2. CASE q = p
      BY <1>1, <1>3, <1>4, <1>10, <3>1, <3>2 DEF FeaturePlaces, One, Lost, InHand, Busy
    <3>3. CASE q # p
      BY <1>1, <1>3, <1>10, <3>1, <3>3 DEF FeaturePlaces, One, Lost, InHand, Busy
    <3> QED
      BY <3>2, <3>3
  <2>3. ASSUME NEW q \in Polls
        PROVE  InferPlaces(q)' = One(InferOffered(q))'
    <3>1. InferPlaces(q)' = InferPlaces(q) /\ InferPlaces(q) = One(InferOffered(q))
      BY <1>1, <1>2 DEF EveryRecordAccounted, InferPlaces, Scoring
    <3>2. InferOffered(q)' <=> InferOffered(q)
      BY <1>4, <1>10, <2>1, PollsLemma DEF InferOffered
    <3> QED
      BY <3>1, <3>2 DEF One
  <2>4. ASSUME NEW m \in Msgs
        PROVE  ExportPlaces(m)' = One(ExportOffered(m))'
    <3>1. ExportPlaces(m)' = ExportPlaces(m) /\ ExportPlaces(m) = One(ExportOffered(m))
      BY <1>1, <1>2 DEF EveryRecordAccounted, ExportPlaces
    <3>2. ExportOffered(m)' <=> ExportOffered(m)
      <4>1. CASE m[2] = 0
        <5>1. m[1] \in Polls /\ ana # [pc |-> "export", poll |-> m[1]]
          BY <2>1, PollsLemma
        <5>2. m[1] = p => ~ Analyzed(m[1]) /\ ana' = [pc |-> "export", poll |-> m[1]]
          BY <1>1, <1>4
        <5>3. m[1] # p => (Analyzed(m[1])' <=> Analyzed(m[1])) /\ ana' # [pc |-> "export", poll |-> m[1]]
          <6>1. ASSUME NEW q \in Polls, q = m[1], q # p
                PROVE  (Analyzed(q)' <=> Analyzed(q)) /\ ana' # [pc |-> "export", poll |-> q]
            BY <1>10, <2>1, <6>1
          <6> QED
            BY <5>1, <6>1 DEF Analyzed
        <5> QED
          BY <4>1, <5>1, <5>2, <5>3 DEF ExportOffered, Analyzed
      <4>2. CASE m[2] # 0
        BY <1>1, <4>2 DEF ExportOffered, Scoring
      <4> QED
        BY <4>1, <4>2
    <3> QED
      BY <3>1, <3>2 DEF One
  <2> QED
    BY <2>2, <2>3, <2>4 DEF EveryRecordAccounted
<1> QED
  BY <1>11, <1>12, <1>13, <1>14, <1>15 DEF Inductive

(***************************************************************************)
(* The queues.                                                             *)
(***************************************************************************)
\* A message offered to the export queue, before which nothing later was
\* offered, is in one place after that, and in front of nothing earlier.
LEMMA EnqueueLemma ==
  ASSUME TypeOK, EveryRecordAccounted, QueuedInOrder, OvertakenByFew,
         NEW m \in Msgs, EnqueueExport(m), ~ ExportOffered(m),
         \A e \in Msgs : m \in Earlier(e) => ~ ExportOffered(e),
         UNCHANGED <<exporting, handled>>
  PROVE  /\ exportQ' \in Seq(Msgs) /\ Len(exportQ') <= ExportCap
         /\ dropped' \in [empty : SUBSET Polls, feature : SUBSET Polls, export : SUBSET Msgs, infer : SUBSET Polls]
         /\ dropped'.feature = dropped.feature /\ dropped'.empty = dropped.empty /\ dropped'.infer = dropped.infer
         /\ \A e \in Msgs : ExportPlaces(e)' = One(ExportOffered(e)) + One(e = m)
         /\ QueuedInOrder' /\ OvertakenByFew'
<1>1. /\ exportQ \in Seq(Msgs) /\ Len(exportQ) <= ExportCap /\ Len(exportQ) \in Nat
      /\ DOMAIN exportQ = 1..Len(exportQ)
      /\ dropped \in [empty : SUBSET Polls, feature : SUBSET Polls, export : SUBSET Msgs, infer : SUBSET Polls]
  BY LenProperties DEF TypeOK
<1> DEFINE k == Len(exportQ)
<1>2. /\ m \notin ToSet(exportQ) /\ handled[m] = 0 /\ m \notin dropped.export
      /\ \A w \in Exporters : exporting[w] # m
  BY OnceLemma
<1>3. \A e \in Msgs : /\ Times(exportQ, e) \in Nat /\ Times(exporting, e) \in Nat /\ handled[e] \in Nat
                      /\ ExportPlaces(e) = One(ExportOffered(e))
  BY PlacesLemma DEF EveryRecordAccounted
<1>4. CASE exportQ' = exportQ /\ dropped' = [dropped EXCEPT !.export = @ \cup {m}]
  <2>1. /\ dropped' \in [empty : SUBSET Polls, feature : SUBSET Polls, export : SUBSET Msgs, infer : SUBSET Polls]
        /\ dropped'.feature = dropped.feature /\ dropped'.empty = dropped.empty /\ dropped'.infer = dropped.infer
        /\ dropped'.export = dropped.export \cup {m}
    <3>1. dropped.export \cup {m} \in SUBSET Msgs
      BY <1>1
    <3> QED
      BY <1>1, <1>4, <3>1
  <2>2. QueuedInOrder' /\ OvertakenByFew'
    BY <1>4 DEF QueuedInOrder, OvertakenByFew
  <2>3. ASSUME NEW e \in Msgs
        PROVE  ExportPlaces(e)' = One(ExportOffered(e)) + One(e = m)
    <3>1. ExportPlaces(e)' = Times(exportQ, e) + Times(exporting, e) + handled[e]
                              + One(e \in dropped.export \cup {m})
      BY <1>4, <2>1 DEF ExportPlaces
    <3>2. ExportPlaces(e) = Times(exportQ, e) + Times(exporting, e) + handled[e]
                             + One(e \in dropped.export)
      BY DEF ExportPlaces
    <3> DEFINE before == ExportPlaces(e)
    <3>3. ExportPlaces(e)' = before + One(e = m)
      BY <1>2, <1>3, <3>1, <3>2 DEF One
    <3> QED
      BY <1>3, <3>3
  <2> QED
    BY <1>1, <1>4, <2>1, <2>2, <2>3
<1>5. CASE Len(exportQ) < ExportCap /\ exportQ' = Append(exportQ, m) /\ dropped' = dropped
  <2>1. /\ exportQ' \in Seq(Msgs) /\ Len(exportQ') = k + 1 /\ DOMAIN exportQ' = 1..(k + 1)
        /\ \A i \in 1..k : exportQ'[i] = exportQ[i] /\ exportQ[i] \in Msgs
        /\ exportQ'[k + 1] = m
        /\ \A e : Times(exportQ', e) = Times(exportQ, e) + One(m = e)
    BY <1>1, <1>5, AppendLemma
  <2>2. Len(exportQ') <= ExportCap
    BY <1>1, <1>5, <2>1, ConstantsLemma
  <2> HIDE DEF k
  <2>3. k \in Nat /\ DOMAIN exportQ = 1..k /\ \A i \in 1..(k + 1) : i \in 1..k \/ i = k + 1
    BY <1>1 DEF k
  <2>4. ToSet(exportQ') = ToSet(exportQ) \cup {m}
    BY <2>1, <2>3 DEF ToSet
  <2>5. \A i, j \in DOMAIN exportQ' : i < j => exportQ'[j] \notin Earlier(exportQ'[i])
    <3>1. \A i, j \in 1..(k + 1) : i < j => i \in 1..k /\ (j \in 1..k \/ j = k + 1)
      BY <2>3
    <3>2. \A i \in 1..k : m \notin Earlier(exportQ[i])
      <4>1. \A i \in 1..k : exportQ[i] \in Msgs /\ exportQ[i] \in ToSet(exportQ)
        BY <2>1, <2>3 DEF ToSet
      <4> QED
        BY <4>1, OnceLemma
    <3>3. \A i, j \in 1..k : i < j => exportQ[j] \notin Earlier(exportQ[i])
      BY <2>3 DEF QueuedInOrder
    <3> QED
      BY <2>1, <3>1, <3>2, <3>3
  <2>6. \A w \in Exporters : exporting'[w] # NoMsg => ToSet(exportQ') \cap Earlier(exporting'[w]) = {}
    <3>1. ASSUME NEW w \in Exporters, exporting[w] # NoMsg
          PROVE  m \notin Earlier(exporting[w]) /\ ToSet(exportQ) \cap Earlier(exporting[w]) = {}
      <4>1. exporting[w] \in Msgs
        BY <3>1 DEF TypeOK
      <4> QED
        BY <3>1, <4>1, OnceLemma DEF QueuedInOrder
    <3> QED
      BY <2>4, <3>1
  <2>7. OvertakenByFew'
    <3>1. ASSUME NEW e \in Msgs, handled[e] > 0
          PROVE  /\ m \notin Earlier(e) /\ ToSet(exportQ) \cap Earlier(e) = {}
                 /\ Cardinality({w \in Exporters : exporting[w] \in Earlier(e)}) < Cardinality(Exporters)
      <4>1. ExportOffered(e)
        BY <3>1, OnceLemma
      <4> QED
        BY <3>1, <4>1 DEF OvertakenByFew
    <3> QED
      BY <2>4, <3>1 DEF OvertakenByFew
  <2>8. ASSUME NEW e \in Msgs
        PROVE  ExportPlaces(e)' = One(ExportOffered(e)) + One(e = m)
    <3>1. ExportPlaces(e)' = Times(exportQ, e) + One(m = e) + Times(exporting, e) + handled[e]
                              + One(e \in dropped.export)
      BY <1>5, <2>1 DEF ExportPlaces
    <3>2. ExportPlaces(e) = Times(exportQ, e) + Times(exporting, e) + handled[e]
                             + One(e \in dropped.export)
      BY DEF ExportPlaces
    <3> DEFINE before == ExportPlaces(e)
    <3>3. ExportPlaces(e)' = before + One(e = m)
      BY <1>3, <3>1, <3>2 DEF One
    <3> QED
      BY <1>3, <3>3
  <2> QED
    BY <1>1, <1>5, <2>1, <2>2, <2>5, <2>6, <2>7, <2>8 DEF QueuedInOrder
<1> QED
  BY <1>4, <1>5 DEF EnqueueExport

LEMMA ExportBatchLemma == Inductive /\ ExportBatch => Inductive'
<1> SUFFICES ASSUME Inductive, ExportBatch
             PROVE  Inductive'
  OBVIOUS
<1>2. /\ TypeOK /\ UnderWay /\ OneListing /\ PollIdsFollowPolls /\ EveryRecordAccounted
      /\ QueuedInOrder /\ OvertakenByFew
  BY DEF Inductive
<1>0. PICK p \in Polls : p = ana.poll /\ Analyzed(p) /\ pollId[p] = pollCounter
  <2>1. ana.pc = "export" /\ ana.poll \in Polls \cup {NoPoll}
    BY <1>2 DEF ExportBatch, TypeOK
  <2> QED
    BY <1>2, <2>1 DEF UnderWay
<1> DEFINE m == <<p, 0>>
<1>1. /\ UNCHANGED <<ctxDone, table, refreshes, mon, ips, batch, known, polls, size, featureChan>>
      /\ UNCHANGED <<pollCounter, pollId, exporting, handled, inferQ, inferring, scored>>
      /\ ana.pc = "export" /\ EnqueueExport(m)
      /\ ana' = IF DetectorEnabled THEN [ana EXCEPT !.pc = "infer"] ELSE [pc |-> "idle", poll |-> NoPoll]
  BY <1>0 DEF ExportBatch, OnlyAnalyzer, AfterExport, smfVars, monVars, expVars, infVars
<1>3. m \in Msgs /\ m[1] = p /\ m[2] = 0 /\ p \in Nat /\ p # NoPoll
  BY PollsLemma, ConstantsLemma
<1>4. ana = [pc |-> "export", poll |-> p]
  BY <1>0, <1>1, <1>2 DEF TypeOK
<1>5. ~ ExportOffered(m)
  BY <1>3, <1>4 DEF ExportOffered
<1>6. \A e \in Msgs : m \in Earlier(e) => ~ ExportOffered(e)
  <2> SUFFICES ASSUME NEW e \in Msgs, m \in Earlier(e), ExportOffered(e)
               PROVE  FALSE
    OBVIOUS
  <2>1. e[2] = 0 /\ p < e[1] /\ e[1] \in Polls
    <3>1. e[2] \in 0..Cardinality(Ips) /\ e[1] \in Polls
      BY PollsLemma
    <3> QED
      BY <1>3, <3>1 DEF Earlier
  <2>2. Analyzed(e[1])
    BY <2>1 DEF ExportOffered
  <2>3. e[1] <= p
    BY <1>0, <1>2, <2>1, <2>2, PollIdLemma
  <2> QED
    BY <1>3, <2>1, <2>3, PollsLemma
<1> HIDE DEF m
<1>7. /\ exportQ' \in Seq(Msgs) /\ Len(exportQ') <= ExportCap
      /\ dropped' \in [empty : SUBSET Polls, feature : SUBSET Polls, export : SUBSET Msgs, infer : SUBSET Polls]
      /\ dropped'.feature = dropped.feature /\ dropped'.empty = dropped.empty /\ dropped'.infer = dropped.infer
      /\ \A e \in Msgs : ExportPlaces(e)' = One(ExportOffered(e)) + One(e = m)
      /\ QueuedInOrder' /\ OvertakenByFew'
  BY <1>1, <1>2, <1>3, <1>5, <1>6, EnqueueLemma
<1>8. /\ ana' \in [pc : {"idle", "export", "infer", "gone"}, poll : Polls \cup {NoPoll}]
      /\ ana'.pc # "export"
      /\ IF DetectorEnabled THEN ana'.pc = "infer" /\ ana'.poll = p
                            ELSE ana'.pc = "idle" /\ ana'.poll = NoPoll
  BY <1>1, <1>4
<1>9. TypeOK'
  BY <1>1, <1>2, <1>7, <1>8 DEF TypeOK
<1>10. UnderWay' /\ OneListing' /\ PollIdsFollowPolls'
  <2>1. UnderWay'
    BY <1>0, <1>1, <1>2, <1>3, <1>8 DEF UnderWay, Analyzed
  <2> QED
    BY <1>1, <1>2, <2>1 DEF OneListing, Busy, PollIdsFollowPolls, Analyzed
<1>11. EveryRecordAccounted'
  <2>1. \A q \in Polls : FeaturePlaces(q)' = One(q <= polls)'
    BY <1>1, <1>2, <1>7 DEF EveryRecordAccounted, FeaturePlaces, Analyzed, Lost, InHand, Busy
  <2>2. ASSUME NEW q \in Polls
        PROVE  InferPlaces(q)' = One(InferOffered(q))'
    <3>1. InferPlaces(q)' = InferPlaces(q) /\ InferPlaces(q) = One(InferOffered(q))
      BY <1>1, <1>2, <1>7 DEF EveryRecordAccounted, InferPlaces, Scoring
    <3>2. InferOffered(q)' <=> InferOffered(q)
      BY <1>0, <1>1, <1>8 DEF InferOffered, Analyzed
    <3> QED
      BY <3>1, <3>2 DEF One
  <2>3. ASSUME NEW e \in Msgs
        PROVE  ExportPlaces(e)' = One(ExportOffered(e))'
    <3>1. CASE e = m
      <4>1. ExportOffered(e)'
        BY <1>0, <1>1, <1>3, <1>8, <3>1 DEF ExportOffered, Analyzed
      <4> QED
        BY <1>5, <1>7, <3>1, <4>1 DEF One
    <3>2. CASE e # m
      <4>1. e[2] = 0 => e[1] # p
        BY <1>3, <3>2, PollsLemma DEF m
      <4>2. ExportOffered(e)' <=> ExportOffered(e)
        <5>1. CASE e[2] = 0
          BY <1>1, <1>4, <1>8, <4>1, <5>1 DEF ExportOffered, Analyzed
        <5>2. CASE e[2] # 0
          BY <1>1, <5>2 DEF ExportOffered, Scoring
        <5> QED
          BY <5>1, <5>2
      <4> QED
        BY <1>7, <3>2, <4>2 DEF One
    <3> QED
      BY <3>1, <3>2
  <2> QED
    BY <2>1, <2>2, <2>3 DEF EveryRecordAccounted
<1> QED
  BY <1>7, <1>9, <1>10, <1>11 DEF Inductive

LEMMA InferBatchLemma == Inductive /\ InferBatch => Inductive'
<1> SUFFICES ASSUME Inductive, InferBatch
             PROVE  Inductive'
  OBVIOUS
<1>2. /\ TypeOK /\ UnderWay /\ OneListing /\ PollIdsFollowPolls /\ EveryRecordAccounted
      /\ QueuedInOrder /\ OvertakenByFew
  BY DEF Inductive
<1>0. PICK p \in Polls : p = ana.poll /\ Analyzed(p) /\ pollId[p] = pollCounter
  <2>1. ana.pc = "infer" /\ ana.poll \in Polls \cup {NoPoll}
    BY <1>2 DEF InferBatch, TypeOK
  <2> QED
    BY <1>2, <2>1 DEF UnderWay
<1>1. /\ UNCHANGED <<ctxDone, table, refreshes, mon, ips, batch, known, polls, size, featureChan>>
      /\ UNCHANGED <<pollCounter, pollId, exportQ, exporting, handled, inferring, scored>>
      /\ ana.pc = "infer" /\ ana' = [pc |-> "idle", poll |-> NoPoll]
      /\ \/ Len(inferQ) < InferCap /\ inferQ' = Append(inferQ, p) /\ dropped' = dropped
         \/ inferQ' = inferQ /\ dropped' = [dropped EXCEPT !.infer = @ \cup {p}]
  BY <1>0 DEF InferBatch, EnqueueBatch, OnlyAnalyzer, smfVars, monVars, expVars, infVars
<1>3. DetectorEnabled /\ p \in Nat /\ p # NoPoll
  BY <1>1, <1>2, PollsLemma DEF UnderWay
<1>4. ~ InferOffered(p) /\ p \notin dropped.infer
  BY <1>0, <1>2, OnceLemma DEF InferOffered
<1> DEFINE k == Len(inferQ)
<1>5. /\ inferQ \in Seq(Polls) /\ k <= InferCap /\ k \in Nat /\ DOMAIN inferQ = 1..k
      /\ \A i \in 1..k : inferQ[i] \in Polls
      /\ dropped \in [empty : SUBSET Polls, feature : SUBSET Polls, export : SUBSET Msgs, infer : SUBSET Polls]
  BY <1>2, LenProperties DEF TypeOK
<1>6. \A i \in 1..k : inferQ[i] < p
  <2> SUFFICES ASSUME NEW i \in 1..k
               PROVE  inferQ[i] < p
    OBVIOUS
  <2>1. InferOffered(inferQ[i]) /\ inferQ[i] \in Polls /\ inferQ[i] \in Nat
    BY <1>2, <1>5, OnceLemma, PollsLemma
  <2>2. Analyzed(inferQ[i]) /\ inferQ[i] # p
    BY <1>0, <2>1 DEF InferOffered
  <2>3. inferQ[i] <= p
    BY <1>0, <1>2, <2>1, <2>2, PollIdLemma
  <2> QED
    BY <1>3, <2>1, <2>2, <2>3
<1>7. /\ inferQ' \in Seq(Polls) /\ Len(inferQ') <= InferCap /\ Ascending(inferQ')
      /\ dropped' \in [empty : SUBSET Polls, feature : SUBSET Polls, export : SUBSET Msgs, infer : SUBSET Polls]
      /\ dropped'.feature = dropped.feature /\ dropped'.empty = dropped.empty /\ dropped'.export = dropped.export
      /\ \A q \in Polls : Times(inferQ', q) + One(q \in dropped'.infer)
                            = Times(inferQ, q) + One(q \in dropped.infer) + One(q = p)
  <2>1. Ascending(inferQ) /\ \A q \in Polls : Times(inferQ, q) \in Nat
    BY <1>2, PlacesLemma DEF PollIdsFollowPolls
  <2>2. CASE Len(inferQ) < InferCap /\ inferQ' = Append(inferQ, p) /\ dropped' = dropped
    <3>1. /\ inferQ' \in Seq(Polls) /\ Len(inferQ') = k + 1 /\ DOMAIN inferQ' = 1..(k + 1)
          /\ \A i \in 1..k : inferQ'[i] = inferQ[i]
          /\ inferQ'[k + 1] = p
          /\ \A q : Times(inferQ', q) = Times(inferQ, q) + One(p = q)
      BY <1>5, <2>2, AppendLemma
    <3>2. Len(inferQ') <= InferCap
      BY <1>5, <2>2, <3>1, ConstantsLemma
    <3> HIDE DEF k
    <3>3. \A i, j \in 1..(k + 1) : i < j => i \in 1..k /\ (j \in 1..k \/ j = k + 1)
      BY <1>5
    <3>4. Ascending(inferQ')
      BY <1>5, <1>6, <2>1, <3>1, <3>3 DEF Ascending
    <3> QED
      BY <1>5, <2>1, <2>2, <3>1, <3>2, <3>4 DEF One
  <2>3. CASE inferQ' = inferQ /\ dropped' = [dropped EXCEPT !.infer = @ \cup {p}]
    <3>1. dropped.infer \cup {p} \in SUBSET Polls
      BY <1>5
    <3>2. /\ dropped' \in [empty : SUBSET Polls, feature : SUBSET Polls, export : SUBSET Msgs, infer : SUBSET Polls]
          /\ dropped'.feature = dropped.feature /\ dropped'.empty = dropped.empty /\ dropped'.export = dropped.export
          /\ dropped'.infer = dropped.infer \cup {p}
      BY <1>5, <2>3, <3>1
    <3>3. ASSUME NEW q \in Polls
          PROVE  Times(inferQ', q) + One(q \in dropped'.infer)
                   = Times(inferQ, q) + One(q \in dropped.infer) + One(q = p)
      <4>1. One(q \in dropped'.infer) = One(q \in dropped.infer) + One(q = p)
        BY <1>4, <3>2 DEF One
      <4>2. Times(inferQ', q) = Times(inferQ, q) /\ Times(inferQ, q) \in Nat
        BY <2>1, <2>3
      <4>3. One(q \in dropped.infer) \in Nat /\ One(q = p) \in Nat
        BY DEF One
      <4> QED
        BY <4>1, <4>2, <4>3
    <3>4. inferQ' \in Seq(Polls) /\ Len(inferQ') <= InferCap /\ Ascending(inferQ')
      BY <1>5, <2>1, <2>3
    <3> QED
      BY <3>2, <3>3, <3>4
  <2>4. \/ Len(inferQ) < InferCap /\ inferQ' = Append(inferQ, p) /\ dropped' = dropped
        \/ inferQ' = inferQ /\ dropped' = [dropped EXCEPT !.infer = @ \cup {p}]
    BY <1>1
  <2> HIDE DEF k
  <2> QED
    BY <2>2, <2>3, <2>4
<1>8. ana'.pc = "idle" /\ ana'.poll = NoPoll
      /\ ana' \in [pc : {"idle", "export", "infer", "gone"}, poll : Polls \cup {NoPoll}]
  BY <1>1
<1>9. TypeOK'
  BY <1>1, <1>2, <1>7, <1>8 DEF TypeOK
<1>10. UnderWay' /\ OneListing' /\ PollIdsFollowPolls' /\ QueuedInOrder' /\ OvertakenByFew'
  <2>1. UnderWay'
    BY <1>1, <1>2, <1>8 DEF UnderWay, Analyzed
  <2>2. PollIdsFollowPolls'
    BY <1>1, <1>2, <1>7 DEF PollIdsFollowPolls, Analyzed
  <2>3. OneListing' /\ QueuedInOrder' /\ OvertakenByFew'
    BY <1>1, <1>2 DEF OneListing, Busy, QueuedInOrder, OvertakenByFew
  <2> QED
    BY <2>1, <2>2, <2>3
<1>11. EveryRecordAccounted'
  <2>1. \A q \in Polls : FeaturePlaces(q)' = One(q <= polls)'
    BY <1>1, <1>2, <1>7 DEF EveryRecordAccounted, FeaturePlaces, Analyzed, Lost, InHand, Busy
  <2>2. ASSUME NEW q \in Polls
        PROVE  InferPlaces(q)' = One(InferOffered(q))'
    <3>1. InferPlaces(q) = One(InferOffered(q))
      BY <1>2 DEF EveryRecordAccounted
    <3>2. InferPlaces(q)' = InferPlaces(q) + One(q = p)
      <4>1. /\ InferPlaces(q) = Times(inferQ, q) + Cardinality(Scoring(q)) + scored[q]
                                 + One(q \in dropped.infer)
            /\ InferPlaces(q)' = Times(inferQ', q) + Cardinality(Scoring(q)) + scored[q]
                                  + One(q \in dropped'.infer)
        BY <1>1 DEF InferPlaces, Scoring
      <4>2. Times(inferQ', q) \in Nat /\ Times(inferQ, q) \in Nat
        BY <1>5, <1>7, TimesLemma
      <4>3. Cardinality(Scoring(q)) \in Nat /\ scored[q] \in Nat
        BY <1>2, ScoringLemma, PlacesLemma
      <4>4. Times(inferQ', q) + One(q \in dropped'.infer)
              = Times(inferQ, q) + One(q \in dropped.infer) + One(q = p)
        BY <1>7
      <4> QED
        BY <4>1, <4>2, <4>3, <4>4 DEF One
    <3>3. InferOffered(q)' <=> InferOffered(q) \/ q = p
      BY <1>0, <1>1, <1>3, <1>8, PollsLemma DEF InferOffered, Analyzed
    <3> QED
      BY <1>4, <3>1, <3>2, <3>3 DEF One
  <2>3. ASSUME NEW e \in Msgs
        PROVE  ExportPlaces(e)' = One(ExportOffered(e))'
    <3>1. ExportPlaces(e)' = ExportPlaces(e) /\ ExportPlaces(e) = One(ExportOffered(e))
      BY <1>1, <1>2, <1>7 DEF EveryRecordAccounted, ExportPlaces
    <3>2. \A q : ana' # [pc |-> "export", poll |-> q] /\ ana # [pc |-> "export", poll |-> q]
      BY <1>1
    <3>3. ExportOffered(e)' <=> ExportOffered(e)
      BY <1>1, <3>2 DEF ExportOffered, Scoring, Analyzed
    <3> QED
      BY <3>1, <3>3 DEF One
  <2> QED
    BY <2>1, <2>2, <2>3 DEF EveryRecordAccounted
<1> QED
  BY <1>9, <1>10, <1>11 DEF Inductive

LEMMA AnalyzerLeavesLemma == Inductive /\ AnalyzerLeaves => Inductive'
<1> SUFFICES ASSUME Inductive, AnalyzerLeaves
             PROVE  Inductive'
  OBVIOUS
<1>1. /\ UNCHANGED <<ctxDone, table, refreshes, mon, ips, batch, known, polls, size, featureChan>>
      /\ UNCHANGED <<pollCounter, pollId, exportQ, exporting, handled, inferQ, inferring, scored, dropped>>
      /\ ana.pc = "idle" /\ ana' = [ana EXCEPT !.pc = "gone"]
  BY DEF AnalyzerLeaves, OnlyAnalyzer, smfVars, monVars, expVars, infVars
<1>2. /\ TypeOK /\ UnderWay /\ OneListing /\ PollIdsFollowPolls /\ EveryRecordAccounted
      /\ QueuedInOrder /\ OvertakenByFew
  BY DEF Inductive
<1>3. /\ ana'.pc = "gone" /\ ana'.poll = ana.poll
      /\ ana' \in [pc : {"idle", "export", "infer", "gone"}, poll : Polls \cup {NoPoll}]
  BY <1>1, <1>2 DEF TypeOK
<1>4. TypeOK'
  BY <1>1, <1>2, <1>3 DEF TypeOK
<1>5. UnderWay'
  BY <1>1, <1>2, <1>3 DEF UnderWay, Analyzed
<1>6. OneListing' /\ PollIdsFollowPolls' /\ QueuedInOrder' /\ OvertakenByFew'
  <2>1. OneListing' /\ PollIdsFollowPolls'
    BY <1>1, <1>2 DEF OneListing, Busy, PollIdsFollowPolls, Analyzed
  <2>2. QueuedInOrder'
    BY <1>1, <1>2 DEF QueuedInOrder
  <2>3. OvertakenByFew'
    BY <1>1, <1>2 DEF OvertakenByFew
  <2> QED
    BY <2>1, <2>2, <2>3
<1>7. EveryRecordAccounted'
  <2>1. \A q : ana' # [pc |-> "export", poll |-> q] /\ ana # [pc |-> "export", poll |-> q]
    BY <1>1, <1>3
  <2>2. \A q \in Polls : FeaturePlaces(q)' = One(q <= polls)'
    BY <1>1, <1>2 DEF EveryRecordAccounted, FeaturePlaces, Analyzed, Lost, InHand, Busy
  <2>3. \A q \in Polls : InferPlaces(q)' = One(InferOffered(q))'
    BY <1>1, <1>2, <1>3 DEF EveryRecordAccounted, InferPlaces, InferOffered, Analyzed, Scoring
  <2>4. ASSUME NEW e \in Msgs
        PROVE  ExportPlaces(e)' = One(ExportOffered(e))'
    <3>1. ExportPlaces(e)' = ExportPlaces(e) /\ ExportPlaces(e) = One(ExportOffered(e))
      BY <1>1, <1>2 DEF EveryRecordAccounted, ExportPlaces
    <3>2. ExportOffered(e)' <=> ExportOffered(e)
      BY <1>1, <2>1 DEF ExportOffered, Scoring, Analyzed
    <3> QED
      BY <3>1, <3>2 DEF One
  <2> QED
    BY <2>2, <2>3, <2>4 DEF EveryRecordAccounted
<1> QED
  BY <1>4, <1>5, <1>6, <1>7 DEF Inductive

(***************************************************************************)
(* The workers of the inference queue.                                     *)
(***************************************************************************)
LEMMA HoldLemma ==
  ASSUME TypeOK, NEW w \in Inferers, NEW p, NEW i, <<p, i>> \in (Polls \X Nat) \cup {NoMsg},
         inferring' = [inferring EXCEPT ![w] = <<p, i>>]
  PROVE  /\ inferring' \in [Inferers -> (Polls \X Nat) \cup {NoMsg}]
         /\ inferring'[w][1] = p /\ inferring'[w][2] = i
         /\ \A v \in Inferers : v # w => inferring'[v] = inferring[v]
         /\ \A q : /\ Cardinality(Scoring(q)') \in Nat
                   /\ Cardinality(Scoring(q)') + One(inferring[w][1] = q)
                        = Cardinality(Scoring(q)) + One(p = q)
<1>1. /\ inferring' \in [Inferers -> (Polls \X Nat) \cup {NoMsg}]
      /\ inferring'[w] = <<p, i>>
      /\ \A v \in Inferers : v # w => inferring'[v] = inferring[v]
  BY DEF TypeOK
<1>2. inferring'[w][1] = p /\ inferring'[w][2] = i
  BY <1>1
<1>3. ASSUME NEW q
      PROVE  /\ Cardinality(Scoring(q)') \in Nat
             /\ Cardinality(Scoring(q)') + One(inferring[w][1] = q)
                  = Cardinality(Scoring(q)) + One(p = q)
  <2> DEFINE A == {v \in Inferers : inferring'[v][1] = q}
             B == {v \in Inferers : inferring[v][1] = q}
  <2>1. A \in SUBSET Inferers /\ B \in SUBSET Inferers /\ A \ {w} = B \ {w}
        /\ (w \in A <=> p = q) /\ (w \in B <=> inferring[w][1] = q)
    BY <1>1, <1>2
  <2>2. Scoring(q)' = A /\ Scoring(q) = B
    BY DEF Scoring
  <2> HIDE DEF A, B
  <2>3. /\ Cardinality(A) \in Nat /\ Cardinality(B) \in Nat
        /\ Cardinality(A) + One(w \in B) = Cardinality(B) + One(w \in A)
    BY <2>1, ConstantsLemma, CountLemma
  <2> QED
    BY <2>1, <2>2, <2>3 DEF One
<1> QED
  BY <1>1, <1>2, <1>3

LEMMA TakeBatchLemma ==
  ASSUME Inductive, NEW w \in Inferers, TakeBatch(w)
  PROVE  Inductive'
<1>2. /\ TypeOK /\ UnderWay /\ OneListing /\ PollIdsFollowPolls /\ EveryRecordAccounted
      /\ QueuedInOrder /\ OvertakenByFew
  BY DEF Inductive
<1> DEFINE n == Len(inferQ)
<1>0. PICK p \in Polls : p = Head(inferQ)
  <2>1. inferQ \in Seq(Polls) /\ inferQ # <<>>
    BY <1>2 DEF TypeOK, TakeBatch
  <2> QED
    BY <2>1, TailLemma
<1>1. /\ UNCHANGED <<ctxDone, table, refreshes, mon, ips, batch, known, polls, size, featureChan>>
      /\ UNCHANGED <<ana, pollCounter, pollId, exportQ, exporting, handled, scored, dropped>>
      /\ inferring[w] = NoMsg /\ inferQ # <<>> /\ inferQ' = Tail(inferQ)
      /\ inferring' = [inferring EXCEPT ![w] = <<p, 1>>]
  BY <1>0 DEF TakeBatch, OnlyInferer, smfVars, monVars, anaVars, expVars
<1>3. /\ inferQ' \in Seq(Polls) /\ Len(inferQ') = n - 1 /\ p = inferQ[1]
      /\ n \in Nat \ {0} /\ DOMAIN inferQ = 1..n /\ DOMAIN inferQ' = 1..(n - 1)
      /\ \A i \in 1..(n - 1) : inferQ'[i] = inferQ[i + 1]
      /\ \A q : /\ Times(inferQ, q) \in Nat /\ Times(inferQ', q) \in Nat
                /\ Times(inferQ, q) = Times(inferQ', q) + One(p = q)
  <2>1. inferQ \in Seq(Polls)
    BY <1>2 DEF TypeOK
  <2> QED
    BY <1>0, <1>1, <2>1, TailLemma
<1>4. inferring[w][1] = NoPoll
  BY <1>1, <1>2, ScoringLemma
<1>5. /\ inferring' \in [Inferers -> (Polls \X Nat) \cup {NoMsg}]
      /\ inferring'[w][1] = p /\ inferring'[w][2] = 1
      /\ \A v \in Inferers : v # w => inferring'[v] = inferring[v]
      /\ \A q : /\ Cardinality(Scoring(q)') \in Nat
                /\ Cardinality(Scoring(q)') + One(inferring[w][1] = q)
                     = Cardinality(Scoring(q)) + One(p = q)
  <2>1. <<p, 1>> \in (Polls \X Nat) \cup {NoMsg}
    OBVIOUS
  <2>2. TypeOK /\ inferring' = [inferring EXCEPT ![w] = <<p, 1>>]
    BY <1>1, <1>2
  <2> HIDE DEF n
  <2> QED
    BY <2>1, <2>2, HoldLemma
<1>6. TypeOK'
  <2>1. Len(inferQ') <= InferCap
    BY <1>2, <1>3, ConstantsLemma DEF TypeOK, n
  <2> QED
    BY <1>1, <1>2, <1>3, <1>5, <2>1 DEF TypeOK
<1>7. UnderWay'
  BY <1>1, <1>2, <1>5 DEF UnderWay, Analyzed
<1>8. PollIdsFollowPolls'
  <2> HIDE DEF n
  <2>1. Ascending(inferQ')
    <3> SUFFICES ASSUME NEW i \in 1..(n - 1), NEW j \in 1..(n - 1), i < j
                 PROVE  inferQ'[i] < inferQ'[j]
      BY <1>3 DEF Ascending
    <3>1. n \in Nat /\ i \in Nat /\ j \in Nat
      BY <1>3
    <3>2. i + 1 \in 1..n /\ j + 1 \in 1..n /\ i + 1 < j + 1
      BY <3>1
    <3>3. inferQ[i + 1] < inferQ[j + 1]
      BY <1>2, <1>3, <3>2 DEF PollIdsFollowPolls, Ascending
    <3> QED
      BY <1>3, <3>3
  <2> QED
    BY <1>1, <1>2, <2>1 DEF PollIdsFollowPolls, Analyzed
<1>9. OneListing' /\ QueuedInOrder' /\ OvertakenByFew'
  BY <1>1, <1>2 DEF OneListing, Busy, QueuedInOrder, OvertakenByFew
<1>10. EveryRecordAccounted'
  <2>1. \A q \in Polls : FeaturePlaces(q)' = One(q <= polls)'
    BY <1>1, <1>2 DEF EveryRecordAccounted, FeaturePlaces, Analyzed, Lost, InHand, Busy
  <2>2. ASSUME NEW q \in Polls
        PROVE  InferPlaces(q)' = One(InferOffered(q))'
    <3>1. InferPlaces(q) = One(InferOffered(q)) /\ (InferOffered(q)' <=> InferOffered(q))
      BY <1>1, <1>2 DEF EveryRecordAccounted, InferOffered, Analyzed
    <3>2. /\ Cardinality(Scoring(q)) \in Nat /\ Cardinality(Scoring(q)') \in Nat
          /\ Cardinality(Scoring(q)') = Cardinality(Scoring(q)) + One(p = q)
      BY <1>2, <1>4, <1>5, ScoringLemma, PollsLemma DEF One
    <3>3. scored[q] \in Nat
      BY <1>2, PlacesLemma
    <3>4. /\ InferPlaces(q) = Times(inferQ, q) + Cardinality(Scoring(q)) + scored[q]
                               + One(q \in dropped.infer)
          /\ InferPlaces(q)' = Times(inferQ', q) + Cardinality(Scoring(q)') + scored[q]
                                + One(q \in dropped.infer)
      BY <1>1 DEF InferPlaces
    <3>5. InferPlaces(q)' = InferPlaces(q)
      BY <1>3, <3>2, <3>3, <3>4 DEF One
    <3> QED
      BY <3>1, <3>5 DEF One
  <2>3. ASSUME NEW e \in Msgs
        PROVE  ExportPlaces(e)' = One(ExportOffered(e))'
    <3>1. ExportPlaces(e)' = ExportPlaces(e) /\ ExportPlaces(e) = One(ExportOffered(e))
      BY <1>1, <1>2 DEF EveryRecordAccounted, ExportPlaces
    <3>2. e[1] \in Polls /\ e[2] \in Nat
      BY PollsLemma, ConstantsLemma
    <3>3. e[2] # 0 => \A v \in Inferers :
            (inferring'[v][1] = e[1] /\ inferring'[v][2] > e[2])
              <=> (inferring[v][1] = e[1] /\ inferring[v][2] > e[2])
      BY <1>4, <1>5, <3>2, PollsLemma
    <3>4. ExportOffered(e)' <=> ExportOffered(e)
      BY <1>1, <3>3 DEF ExportOffered, Scoring, Analyzed
    <3> QED
      BY <3>1, <3>4 DEF One
  <2> QED
    BY <2>1, <2>2, <2>3 DEF EveryRecordAccounted
<1> QED
  BY <1>6, <1>7, <1>8, <1>9, <1>10 DEF Inductive

\* The results of a batch are offered one after another, by one worker.
LEMMA OfferResultLemma ==
  ASSUME Inductive, NEW w \in Inferers, OfferResult(w)
  PROVE  Inductive'
<1>2. /\ TypeOK /\ UnderWay /\ OneListing /\ PollIdsFollowPolls /\ EveryRecordAccounted
      /\ QueuedInOrder /\ OvertakenByFew
  BY DEF Inductive
<1>0. PICK p \in Polls, i \in Nat : inferring[w] = <<p, i>> /\ i > 0
  <2>1. inferring[w] # NoMsg
    BY DEF OfferResult, Working
  <2> QED
    BY <1>2, <2>1, ScoringLemma DEF UnderWay
<1> DEFINE m == <<p, i>>
<1>1. /\ UNCHANGED <<ctxDone, table, refreshes, mon, ips, batch, known, polls, size, featureChan>>
      /\ UNCHANGED <<ana, pollCounter, pollId, exporting, handled, inferQ, scored>>
      /\ i <= size[p] /\ EnqueueExport(m)
      /\ inferring' = [inferring EXCEPT ![w][2] = @ + 1]
  BY <1>0 DEF OfferResult, OnlyInferer, smfVars, monVars, anaVars, expVars
<1>3. inferring' = [inferring EXCEPT ![w] = <<p, i + 1>>]
  <2>1. [<<p, i>> EXCEPT ![2] = i + 1] = <<p, i + 1>>
    OBVIOUS
  <2>2. inferring' = [inferring EXCEPT ![w] = [inferring[w] EXCEPT ![2] = inferring[w][2] + 1]]
    BY <1>1
  <2>3. inferring[w][2] = i
    BY <1>0
  <2>4. [inferring[w] EXCEPT ![2] = inferring[w][2] + 1] = <<p, i + 1>>
    BY <1>0, <2>1, <2>3
  <2> QED
    BY <2>2, <2>4
<1>4. m \in Msgs /\ m[1] = p /\ m[2] = i
  <2>1. size[p] \in 0..Cardinality(Ips)
    BY <1>2 DEF TypeOK
  <2> QED
    BY <1>0, <1>1, <2>1, PollsLemma, ConstantsLemma
<1>5. /\ inferring' \in [Inferers -> (Polls \X Nat) \cup {NoMsg}]
      /\ inferring'[w][1] = p /\ inferring'[w][2] = i + 1
      /\ \A v \in Inferers : v # w => inferring'[v] = inferring[v]
      /\ \A q : /\ Cardinality(Scoring(q)') \in Nat
                /\ Cardinality(Scoring(q)') + One(inferring[w][1] = q)
                     = Cardinality(Scoring(q)) + One(p = q)
  <2>1. <<p, i + 1>> \in (Polls \X Nat) \cup {NoMsg}
    OBVIOUS
  <2> QED
    BY <1>2, <1>3, <2>1, HoldLemma
<1>6. inferring[w][1] = p /\ inferring[w][2] = i /\ w \in Scoring(p)
  BY <1>0 DEF Scoring
<1>7. scored[p] = 0 /\ \A v \in Inferers : inferring[v][1] = p => v = w
  <2>1. Cardinality(Scoring(p)) = 1 /\ scored[p] = 0
    BY <1>2, <1>6, OnceLemma
  <2>2. Scoring(p) \in SUBSET Inferers /\ IsFiniteSet(Scoring(p))
    BY <1>2, ScoringLemma, ConstantsLemma, FS_Subset
  <2>3. \E x : Scoring(p) = {x}
    BY <2>1, <2>2, FS_Singleton
  <2> QED
    BY <1>6, <2>1, <2>3 DEF Scoring
<1>8. \A e \in Msgs : e[1] = p /\ e[2] # 0 => (ExportOffered(e) <=> e[2] <= size[p] /\ i > e[2])
  BY <1>6, <1>7 DEF ExportOffered, Scoring
<1>9. ~ ExportOffered(m)
  BY <1>0, <1>4, <1>8
<1>10. \A e \in Msgs : m \in Earlier(e) => ~ ExportOffered(e)
  <2> SUFFICES ASSUME NEW e \in Msgs, m \in Earlier(e)
               PROVE  ~ ExportOffered(e)
    OBVIOUS
  <2>1. e[2] \in Nat
    BY PollsLemma, ConstantsLemma
  <2>2. e[2] # 0 /\ e[1] = p /\ i < e[2]
    BY <1>0, <1>4, <2>1 DEF Earlier
  <2> QED
    BY <1>8, <2>1, <2>2
<1> HIDE DEF m
<1>11. /\ exportQ' \in Seq(Msgs) /\ Len(exportQ') <= ExportCap
       /\ dropped' \in [empty : SUBSET Polls, feature : SUBSET Polls, export : SUBSET Msgs, infer : SUBSET Polls]
       /\ dropped'.feature = dropped.feature /\ dropped'.empty = dropped.empty /\ dropped'.infer = dropped.infer
       /\ \A e \in Msgs : ExportPlaces(e)' = One(ExportOffered(e)) + One(e = m)
       /\ QueuedInOrder' /\ OvertakenByFew'
  BY <1>1, <1>2, <1>4, <1>9, <1>10, EnqueueLemma
<1>12. TypeOK'
  BY <1>1, <1>2, <1>5, <1>11 DEF TypeOK
<1>13. UnderWay' /\ OneListing' /\ PollIdsFollowPolls'
  <2>1. UnderWay'
    BY <1>1, <1>2, <1>5 DEF UnderWay, Analyzed
  <2>2. OneListing' /\ PollIdsFollowPolls'
    BY <1>1, <1>2 DEF OneListing, Busy, PollIdsFollowPolls, Analyzed
  <2> QED
    BY <2>1, <2>2
<1>14. EveryRecordAccounted'
  <2>1. \A q \in Polls : FeaturePlaces(q)' = One(q <= polls)'
    BY <1>1, <1>2, <1>11 DEF EveryRecordAccounted, FeaturePlaces, Analyzed, Lost, InHand, Busy
  <2>2. ASSUME NEW q \in Polls
        PROVE  InferPlaces(q)' = One(InferOffered(q))'
    <3>1. InferPlaces(q) = One(InferOffered(q)) /\ (InferOffered(q)' <=> InferOffered(q))
      BY <1>1, <1>2 DEF EveryRecordAccounted, InferOffered, Analyzed
    <3>2. Cardinality(Scoring(q)') = Cardinality(Scoring(q))
      BY <1>2, <1>5, <1>6, ScoringLemma DEF One
    <3>3. InferPlaces(q)' = InferPlaces(q)
      BY <1>1, <1>11, <3>2 DEF InferPlaces
    <3> QED
      BY <3>1, <3>3 DEF One
  <2>3. ASSUME NEW e \in Msgs
        PROVE  ExportPlaces(e)' = One(ExportOffered(e))'
    <3>1. ExportPlaces(e)' = One(ExportOffered(e)) + One(e = m)
      BY <1>11
    <3>2. e[1] \in Polls /\ e[2] \in Nat
      BY PollsLemma, ConstantsLemma
    <3>3. CASE e[2] # 0 /\ e[1] = p
      <4>1. ExportOffered(e)' <=> e[2] <= size[p] /\ i + 1 > e[2]
        BY <1>1, <1>5, <1>7, <3>3 DEF ExportOffered, Scoring
      <4>2. e = m <=> e[2] = i
        BY <1>4, <3>3, PollsLemma DEF m
      <4>3. size[p] \in Nat
        BY <1>2, ConstantsLemma DEF TypeOK
      <4>4. ExportOffered(e)' <=> ExportOffered(e) \/ e = m
        BY <1>1, <1>8, <3>2, <3>3, <4>1, <4>2, <4>3
      <4> QED
        BY <1>9, <3>1, <4>4 DEF One
    <3>4. CASE e[2] = 0 \/ e[1] # p
      <4>1. e # m
        BY <1>0, <1>4, <3>4
      <4>2. ExportOffered(e)' <=> ExportOffered(e)
        <5>1. CASE e[2] = 0
          BY <1>1, <5>1 DEF ExportOffered, Analyzed
        <5>2. CASE e[1] # p
          <6>1. \A v \in Inferers : (inferring'[v][1] = e[1] /\ inferring'[v][2] > e[2])
                                      <=> (inferring[v][1] = e[1] /\ inferring[v][2] > e[2])
            BY <1>5, <1>6, <5>2
          <6> QED
            BY <1>1, <6>1 DEF ExportOffered, Scoring, Analyzed
        <5> QED
          BY <3>4, <5>1, <5>2
      <4> QED
        BY <3>1, <4>1, <4>2 DEF One
    <3> QED
      BY <3>3, <3>4
  <2> QED
    BY <2>1, <2>2, <2>3 DEF EveryRecordAccounted
<1> QED
  BY <1>11, <1>12, <1>13, <1>14 DEF Inductive

LEMMA BatchScoredLemma ==
  ASSUME Inductive, NEW w \in Inferers, BatchScored(w)
  PROVE  Inductive'
<1>2. /\ TypeOK /\ UnderWay /\ OneListing /\ PollIdsFollowPolls /\ EveryRecordAccounted
      /\ QueuedInOrder /\ OvertakenByFew
  BY DEF Inductive
<1>0. PICK p \in Polls, i \in Nat : inferring[w] = <<p, i>> /\ i > 0
  <2>1. inferring[w] # NoMsg
    BY DEF BatchScored, Working
  <2> QED
    BY <1>2, <2>1, ScoringLemma DEF UnderWay
<1>1. /\ UNCHANGED <<ctxDone, table, refreshes, mon, ips, batch, known, polls, size, featureChan>>
      /\ UNCHANGED <<ana, pollCounter, pollId, exportQ, exporting, handled, inferQ, dropped>>
      /\ i > size[p] /\ inferring' = [inferring EXCEPT ![w] = NoMsg]
      /\ scored' = [scored EXCEPT ![p] = @ + 1]
  BY <1>0 DEF BatchScored, OnlyInferer, smfVars, monVars, anaVars, expVars
<1>3. inferring[w][1] = p /\ inferring[w][2] = i /\ w \in Scoring(p) /\ p # NoPoll
  BY <1>0, PollsLemma DEF Scoring
<1>4. /\ inferring' \in [Inferers -> (Polls \X Nat) \cup {NoMsg}]
      /\ inferring'[w][1] = 0 /\ inferring'[w][2] = 0
      /\ \A v \in Inferers : v # w => inferring'[v] = inferring[v]
      /\ \A q : /\ Cardinality(Scoring(q)') \in Nat
                /\ Cardinality(Scoring(q)') + One(inferring[w][1] = q)
                     = Cardinality(Scoring(q)) + One(0 = q)
  <2>1. <<0, 0>> \in (Polls \X Nat) \cup {NoMsg} /\ inferring' = [inferring EXCEPT ![w] = <<0, 0>>]
    BY <1>1 DEF NoMsg
  <2> QED
    BY <1>2, <2>1, HoldLemma
<1>5. scored[p] = 0 /\ InferOffered(p)
  BY <1>2, <1>3, OnceLemma
<1>6. /\ scored' \in [Polls -> Nat] /\ scored'[p] = 1
      /\ \A q \in Polls : q # p => scored'[q] = scored[q]
  BY <1>1, <1>2, <1>5 DEF TypeOK
<1>7. TypeOK'
  BY <1>1, <1>2, <1>4, <1>6 DEF TypeOK
<1>8. UnderWay'
  BY <1>1, <1>2, <1>4 DEF UnderWay, Analyzed, NoPoll
<1>9. OneListing' /\ PollIdsFollowPolls' /\ QueuedInOrder' /\ OvertakenByFew'
  <2>1. PollIdsFollowPolls'
    BY <1>1, <1>2 DEF PollIdsFollowPolls, Analyzed
  <2> QED
    BY <1>1, <1>2, <2>1 DEF OneListing, Busy, QueuedInOrder, OvertakenByFew
<1>10. EveryRecordAccounted'
  <2>1. \A q \in Polls : FeaturePlaces(q)' = One(q <= polls)'
    BY <1>1, <1>2 DEF EveryRecordAccounted, FeaturePlaces, Analyzed, Lost, InHand, Busy
  <2>2. ASSUME NEW q \in Polls
        PROVE  InferPlaces(q)' = One(InferOffered(q))'
    <3>1. InferPlaces(q) = One(InferOffered(q)) /\ (InferOffered(q)' <=> InferOffered(q))
      BY <1>1, <1>2 DEF EveryRecordAccounted, InferOffered, Analyzed
    <3>2. /\ Cardinality(Scoring(q)) \in Nat /\ Cardinality(Scoring(q)') \in Nat
          /\ Cardinality(Scoring(q)') + One(p = q) = Cardinality(Scoring(q))
      BY <1>2, <1>3, <1>4, ScoringLemma, PollsLemma DEF One
    <3>3. Times(inferQ, q) \in Nat /\ scored[q] \in Nat /\ scored'[q] = scored[q] + One(p = q)
      BY <1>2, <1>5, <1>6, PlacesLemma DEF One
    <3>4. /\ InferPlaces(q) = Times(inferQ, q) + Cardinality(Scoring(q)) + scored[q]
                               + One(q \in dropped.infer)
          /\ InferPlaces(q)' = Times(inferQ, q) + Cardinality(Scoring(q)') + scored'[q]
                                + One(q \in dropped.infer)
      BY <1>1 DEF InferPlaces
    <3>5. InferPlaces(q)' = InferPlaces(q)
      BY <3>2, <3>3, <3>4 DEF One
    <3> QED
      BY <3>1, <3>5 DEF One
  <2>3. ASSUME NEW e \in Msgs
        PROVE  ExportPlaces(e)' = One(ExportOffered(e))'
    <3>1. ExportPlaces(e)' = ExportPlaces(e) /\ ExportPlaces(e) = One(ExportOffered(e))
      BY <1>1, <1>2 DEF EveryRecordAccounted, ExportPlaces
    <3>2. e[1] \in Polls /\ e[2] \in Nat
      BY PollsLemma, ConstantsLemma
    <3>3. CASE e[2] # 0 /\ e[1] = p
      <4>1. size[p] \in Nat
        BY <1>2, ConstantsLemma DEF TypeOK
      <4>2. ExportOffered(e)' <=> e[2] <= size[p]
        BY <1>1, <1>6, <3>3 DEF ExportOffered
      <4>3. e[2] <= size[p] => i > e[2]
        BY <1>1, <3>2, <4>1
      <4>4. ExportOffered(e) <=> e[2] <= size[p]
        BY <1>3, <3>3, <4>3 DEF ExportOffered
      <4> QED
        BY <3>1, <4>2, <4>4 DEF One
    <3>4. CASE e[2] = 0
      <4>1. ExportOffered(e)' <=> ExportOffered(e)
        BY <1>1, <3>4 DEF ExportOffered, Analyzed
      <4> QED
        BY <3>1, <4>1 DEF One
    <3>5. CASE e[1] # p
      <4>1. \A v \in Inferers : (inferring'[v][1] = e[1] /\ inferring'[v][2] > e[2])
                                  <=> (inferring[v][1] = e[1] /\ inferring[v][2] > e[2])
        BY <1>3, <1>4, <3>2, <3>5
      <4>2. scored'[e[1]] = scored[e[1]]
        BY <1>6, <3>2, <3>5
      <4>3. ExportOffered(e)' <=> ExportOffered(e)
        BY <1>1, <4>1, <4>2 DEF ExportOffered, Scoring, Analyzed
      <4> QED
        BY <3>1, <4>3 DEF One
    <3> QED
      BY <3>3, <3>4, <3>5
  <2> QED
    BY <2>1, <2>2, <2>3 DEF EveryRecordAccounted
<1> QED
  BY <1>7, <1>8, <1>9, <1>10 DEF Inductive

(***************************************************************************)
(* The workers of the export queue.                                        *)
(***************************************************************************)
\* Another message in the hands of one worker.
LEMMA HandLemma ==
  ASSUME TypeOK, NEW w \in Exporters, NEW m \in Msgs \cup {NoMsg},
         exporting' = [exporting EXCEPT ![w] = m]
  PROVE  /\ exporting \in [Exporters -> Msgs \cup {NoMsg}]
         /\ exporting' \in [Exporters -> Msgs \cup {NoMsg}]
         /\ exporting'[w] = m /\ \A v \in Exporters : v # w => exporting'[v] = exporting[v]
         /\ \A e : /\ Times(exporting, e) \in Nat /\ Times(exporting', e) \in Nat
                   /\ Times(exporting', e) + One(exporting[w] = e)
                        = Times(exporting, e) + One(m = e)
<1>1. /\ exporting \in [Exporters -> Msgs \cup {NoMsg}]
      /\ exporting' \in [Exporters -> Msgs \cup {NoMsg}]
      /\ exporting'[w] = m /\ \A v \in Exporters : v # w => exporting'[v] = exporting[v]
  BY DEF TypeOK
<1>2. ASSUME NEW e
      PROVE  /\ Times(exporting, e) \in Nat /\ Times(exporting', e) \in Nat
             /\ Times(exporting', e) + One(exporting[w] = e)
                  = Times(exporting, e) + One(m = e)
  <2> DEFINE A == {v \in Exporters : exporting'[v] = e}
             B == {v \in Exporters : exporting[v] = e}
  <2>1. A \in SUBSET Exporters /\ B \in SUBSET Exporters /\ A \ {w} = B \ {w}
        /\ (w \in A <=> m = e) /\ (w \in B <=> exporting[w] = e)
    BY <1>1
  <2>2. Times(exporting', e) = Cardinality(A) /\ Times(exporting, e) = Cardinality(B)
    <3>1. DOMAIN exporting = Exporters /\ DOMAIN exporting' = Exporters
      BY <1>1
    <3> QED
      BY <3>1 DEF Times
  <2> HIDE DEF A, B
  <2>3. /\ Cardinality(A) \in Nat /\ Cardinality(B) \in Nat
        /\ Cardinality(A) + One(w \in B) = Cardinality(B) + One(w \in A)
    BY <2>1, ConstantsLemma, CountLemma
  <2> QED
    BY <2>1, <2>2, <2>3 DEF One
<1> QED
  BY <1>1, <1>2

LEMMA TakeMessageLemma ==
  ASSUME Inductive, NEW w \in Exporters, TakeMessage(w)
  PROVE  Inductive'
<1>2. /\ TypeOK /\ UnderWay /\ OneListing /\ PollIdsFollowPolls /\ EveryRecordAccounted
      /\ QueuedInOrder /\ OvertakenByFew
  BY DEF Inductive
<1> DEFINE n == Len(exportQ)
<1>0. PICK m \in Msgs : m = Head(exportQ)
  <2>1. exportQ \in Seq(Msgs) /\ exportQ # <<>>
    BY <1>2 DEF TypeOK, TakeMessage
  <2> QED
    BY <2>1, TailLemma
<1>1. /\ UNCHANGED <<ctxDone, table, refreshes, mon, ips, batch, known, polls, size, featureChan>>
      /\ UNCHANGED <<ana, pollCounter, pollId, handled, inferQ, inferring, scored, dropped>>
      /\ exporting[w] = NoMsg /\ exportQ # <<>> /\ exportQ' = Tail(exportQ)
      /\ exporting' = [exporting EXCEPT ![w] = m]
  BY <1>0 DEF TakeMessage, OnlyExporter, smfVars, monVars, anaVars, infVars
<1>3. /\ exportQ' \in Seq(Msgs) /\ Len(exportQ') = n - 1 /\ m = exportQ[1]
      /\ n \in Nat \ {0} /\ DOMAIN exportQ = 1..n /\ DOMAIN exportQ' = 1..(n - 1)
      /\ \A i \in 1..(n - 1) : exportQ'[i] = exportQ[i + 1]
      /\ \A e : /\ Times(exportQ, e) \in Nat /\ Times(exportQ', e) \in Nat
                /\ Times(exportQ, e) = Times(exportQ', e) + One(m = e)
  <2>1. exportQ \in Seq(Msgs)
    BY <1>2 DEF TypeOK
  <2> QED
    BY <1>0, <1>1, <2>1, TailLemma
<1> HIDE DEF n
<1>4. \A i \in 1..(n - 1) : i + 1 \in 1..n /\ 1 < i + 1
  <2>1. n \in Nat
    BY <1>3
  <2> QED
    BY <2>1
<1>5. 1 \in 1..n
  BY <1>3
<1>6. /\ exporting \in [Exporters -> Msgs \cup {NoMsg}] /\ exporting' \in [Exporters -> Msgs \cup {NoMsg}]
      /\ exporting'[w] = m /\ \A v \in Exporters : v # w => exporting'[v] = exporting[v]
      /\ \A e : /\ Times(exporting, e) \in Nat /\ Times(exporting', e) \in Nat
                /\ Times(exporting', e) + One(NoMsg = e) = Times(exporting, e) + One(m = e)
  <2>1. m \in Msgs \cup {NoMsg} /\ exporting' = [exporting EXCEPT ![w] = m]
    BY <1>1
  <2>2. /\ exporting \in [Exporters -> Msgs \cup {NoMsg}]
        /\ exporting' \in [Exporters -> Msgs \cup {NoMsg}]
        /\ exporting'[w] = m /\ \A v \in Exporters : v # w => exporting'[v] = exporting[v]
        /\ \A e : /\ Times(exporting, e) \in Nat /\ Times(exporting', e) \in Nat
                  /\ Times(exporting', e) + One(exporting[w] = e)
                       = Times(exporting, e) + One(m = e)
    BY <1>2, <2>1, HandLemma DEF One
  <2> QED
    BY <1>1, <2>2
<1>7. ToSet(exportQ') \subseteq ToSet(exportQ) /\ m \in ToSet(exportQ)
  BY <1>3, <1>4, <1>5 DEF ToSet
<1>8. TypeOK'
  <2>1. Len(exportQ') <= ExportCap
    BY <1>2, <1>3, ConstantsLemma DEF TypeOK, n
  <2> QED
    BY <1>1, <1>2, <1>3, <1>6, <2>1 DEF TypeOK
<1>9. UnderWay' /\ OneListing' /\ PollIdsFollowPolls'
  <2>1. UnderWay' /\ PollIdsFollowPolls'
    BY <1>1, <1>2 DEF UnderWay, PollIdsFollowPolls, Analyzed
  <2> QED
    BY <1>1, <1>2, <2>1 DEF OneListing, Busy
<1>10. QueuedInOrder'
  <2>1. \A i, j \in 1..(n - 1) : i < j => exportQ'[j] \notin Earlier(exportQ'[i])
    <3> SUFFICES ASSUME NEW i \in 1..(n - 1), NEW j \in 1..(n - 1), i < j
                 PROVE  exportQ'[j] \notin Earlier(exportQ'[i])
      OBVIOUS
    <3>1. i + 1 < j + 1 /\ i + 1 \in 1..n /\ j + 1 \in 1..n
      BY <1>3, <1>4
    <3>2. exportQ[j + 1] \notin Earlier(exportQ[i + 1])
      BY <1>2, <1>3, <3>1 DEF QueuedInOrder
    <3>3. exportQ'[i] = exportQ[i + 1] /\ exportQ'[j] = exportQ[j + 1]
      BY <1>3
    <3> QED
      BY <3>2, <3>3
  <2>2. ToSet(exportQ') \cap Earlier(m) = {}
    <3>1. ASSUME NEW i \in 1..(n - 1)
          PROVE  exportQ'[i] \notin Earlier(m)
      <4>1. exportQ[i + 1] \notin Earlier(exportQ[1])
        BY <1>2, <1>3, <1>4, <1>5 DEF QueuedInOrder
      <4>2. exportQ'[i] = exportQ[i + 1]
        BY <1>3
      <4> QED
        BY <1>3, <4>1, <4>2
    <3> QED
      BY <1>3, <3>1 DEF ToSet
  <2>3. \A v \in Exporters : v # w /\ exporting[v] # NoMsg => ToSet(exportQ) \cap Earlier(exporting[v]) = {}
    BY <1>2 DEF QueuedInOrder
  <2> QED
    BY <1>3, <1>6, <1>7, <2>1, <2>2, <2>3 DEF QueuedInOrder
<1>11. OvertakenByFew'
  <2>1. ASSUME NEW e \in Msgs, handled[e] > 0
        PROVE  /\ ToSet(exportQ') \cap Earlier(e) = {}
               /\ {v \in Exporters : exporting'[v] \in Earlier(e)}
                    = {v \in Exporters : exporting[v] \in Earlier(e)}
    <3>1. ToSet(exportQ) \cap Earlier(e) = {} /\ NoMsg \notin Earlier(e)
      BY <1>2, <2>1, PollsLemma DEF OvertakenByFew, Earlier
    <3> QED
      BY <1>1, <1>6, <1>7, <3>1
  <2> QED
    BY <1>1, <1>2, <2>1 DEF OvertakenByFew
<1>12. EveryRecordAccounted'
  <2>1. \A q \in Polls : FeaturePlaces(q)' = One(q <= polls)'
    BY <1>1, <1>2 DEF EveryRecordAccounted, FeaturePlaces, Analyzed, Lost, InHand, Busy
  <2>2. \A q \in Polls : InferPlaces(q)' = One(InferOffered(q))'
    BY <1>1, <1>2 DEF EveryRecordAccounted, InferPlaces, InferOffered, Analyzed, Scoring
  <2>3. ASSUME NEW e \in Msgs
        PROVE  ExportPlaces(e)' = One(ExportOffered(e))'
    <3>1. ExportPlaces(e) = One(ExportOffered(e)) /\ (ExportOffered(e)' <=> ExportOffered(e))
      BY <1>1, <1>2 DEF EveryRecordAccounted, ExportOffered, Analyzed, Scoring
    <3>2. handled[e] \in Nat /\ e # NoMsg
      BY <1>2, PlacesLemma, PollsLemma
    <3>3. /\ ExportPlaces(e) = Times(exportQ, e) + Times(exporting, e) + handled[e]
                                + One(e \in dropped.export)
          /\ ExportPlaces(e)' = Times(exportQ', e) + Times(exporting', e) + handled[e]
                                 + One(e \in dropped.export)
      BY <1>1 DEF ExportPlaces
    <3>4. /\ Times(exportQ, e) \in Nat /\ Times(exportQ', e) \in Nat
          /\ Times(exporting, e) \in Nat /\ Times(exporting', e) \in Nat
          /\ Times(exportQ, e) = Times(exportQ', e) + One(m = e)
          /\ Times(exporting', e) = Times(exporting, e) + One(m = e)
      BY <1>3, <1>6, <3>2 DEF One
    <3>5. ExportPlaces(e)' = ExportPlaces(e)
      BY <3>2, <3>3, <3>4 DEF One
    <3> QED
      BY <3>1, <3>5 DEF One
  <2> QED
    BY <2>1, <2>2, <2>3 DEF EveryRecordAccounted
<1> QED
  BY <1>8, <1>9, <1>10, <1>11, <1>12 DEF Inductive

LEMMA WriteLemma ==
  ASSUME Inductive, NEW w \in Exporters, Write(w)
  PROVE  Inductive'
<1>2. /\ TypeOK /\ UnderWay /\ OneListing /\ PollIdsFollowPolls /\ EveryRecordAccounted
      /\ QueuedInOrder /\ OvertakenByFew
  BY DEF Inductive
<1>0. PICK m \in Msgs : m = exporting[w]
  BY DEF Write
<1>1. /\ UNCHANGED <<ctxDone, table, refreshes, mon, ips, batch, known, polls, size, featureChan>>
      /\ UNCHANGED <<ana, pollCounter, pollId, exportQ, inferQ, inferring, scored, dropped>>
      /\ handled' = [handled EXCEPT ![m] = @ + 1]
      /\ exporting' = [exporting EXCEPT ![w] = NoMsg]
  BY <1>0 DEF Write, OnlyExporter, smfVars, monVars, anaVars, infVars
<1>3. /\ exporting \in [Exporters -> Msgs \cup {NoMsg}] /\ exporting' \in [Exporters -> Msgs \cup {NoMsg}]
      /\ exporting'[w] = NoMsg /\ \A v \in Exporters : v # w => exporting'[v] = exporting[v]
      /\ \A e : /\ Times(exporting, e) \in Nat /\ Times(exporting', e) \in Nat
                /\ Times(exporting', e) + One(m = e) = Times(exporting, e) + One(NoMsg = e)
  <2>1. NoMsg \in Msgs \cup {NoMsg} /\ exporting' = [exporting EXCEPT ![w] = NoMsg]
    BY <1>1
  <2>2. /\ exporting \in [Exporters -> Msgs \cup {NoMsg}]
        /\ exporting' \in [Exporters -> Msgs \cup {NoMsg}]
        /\ exporting'[w] = NoMsg /\ \A v \in Exporters : v # w => exporting'[v] = exporting[v]
        /\ \A e : /\ Times(exporting, e) \in Nat /\ Times(exporting', e) \in Nat
                  /\ Times(exporting', e) + One(exporting[w] = e)
                       = Times(exporting, e) + One(NoMsg = e)
    BY <1>2, <2>1, HandLemma DEF One
  <2> QED
    BY <1>0, <2>2
<1>4. /\ handled' \in [Msgs -> Nat] /\ handled[m] \in Nat /\ handled'[m] = handled[m] + 1
      /\ \A e \in Msgs : e # m => handled'[e] = handled[e]
  BY <1>1, <1>2 DEF TypeOK
<1>5. TypeOK'
  BY <1>1, <1>2, <1>3, <1>4 DEF TypeOK
<1>6. UnderWay' /\ OneListing' /\ PollIdsFollowPolls'
  <2>1. UnderWay' /\ PollIdsFollowPolls'
    BY <1>1, <1>2 DEF UnderWay, PollIdsFollowPolls, Analyzed
  <2> QED
    BY <1>1, <1>2, <2>1 DEF OneListing, Busy
<1>7. QueuedInOrder'
  BY <1>1, <1>2, <1>3 DEF QueuedInOrder
<1>8. OvertakenByFew'
  <2>1. ASSUME NEW e \in Msgs, handled'[e] > 0
        PROVE  /\ ToSet(exportQ) \cap Earlier(e) = {}
               /\ Cardinality({v \in Exporters : exporting'[v] \in Earlier(e)}) < Cardinality(Exporters)
    <3> DEFINE before == {v \in Exporters : exporting[v] \in Earlier(e)}
               after == {v \in Exporters : exporting'[v] \in Earlier(e)}
    <3>1. NoMsg \notin Earlier(e)
      BY PollsLemma DEF Earlier
    <3>2. after \subseteq before /\ after \subseteq Exporters \ {w} /\ before \in SUBSET Exporters
      BY <1>3, <3>1
    <3>3. IsFiniteSet(before) /\ Cardinality(before) \in Nat /\ Cardinality(after) \in Nat
      BY <3>2, ConstantsLemma, FS_Subset, FS_CardinalityType
    <3>4. CASE handled[e] > 0
      <4>1. ToSet(exportQ) \cap Earlier(e) = {} /\ Cardinality(before) < Cardinality(Exporters)
        BY <1>2, <3>4 DEF OvertakenByFew
      <4> HIDE DEF before, after
      <4>2. Cardinality(after) <= Cardinality(before)
        BY <3>2, <3>3, FS_Subset
      <4>3. Cardinality(Exporters) \in Nat
        BY ConstantsLemma, FS_CardinalityType
      <4>4. Cardinality(after) < Cardinality(Exporters)
        BY <3>3, <4>1, <4>2, <4>3
      <4> QED
        BY <4>1, <4>4 DEF after
    <3>5. CASE e = m
      <4>1. ToSet(exportQ) \cap Earlier(e) = {}
        BY <1>0, <1>2, <3>5, PollsLemma DEF QueuedInOrder
      <4> HIDE DEF before, after
      <4>2. /\ IsFiniteSet(Exporters \ {w}) /\ Cardinality(Exporters) \in Nat
            /\ Cardinality(Exporters \ {w}) = Cardinality(Exporters) - 1
        BY ConstantsLemma, FS_RemoveElement, FS_CardinalityType
      <4>3. Cardinality(after) <= Cardinality(Exporters \ {w})
        BY <3>2, <4>2, FS_Subset
      <4>4. Cardinality(after) < Cardinality(Exporters)
        BY <3>3, <4>2, <4>3
      <4> QED
        BY <4>1, <4>4 DEF after
    <3> QED
      BY <1>4, <2>1, <3>4, <3>5
  <2> QED
    BY <1>1, <2>1 DEF OvertakenByFew
<1>9. EveryRecordAccounted'
  <2>1. \A q \in Polls : FeaturePlaces(q)' = One(q <= polls)'
    BY <1>1, <1>2 DEF EveryRecordAccounted, FeaturePlaces, Analyzed, Lost, InHand, Busy
  <2>2. \A q \in Polls : InferPlaces(q)' = One(InferOffered(q))'
    BY <1>1, <1>2 DEF EveryRecordAccounted, InferPlaces, InferOffered, Analyzed, Scoring
  <2>3. ASSUME NEW e \in Msgs
        PROVE  ExportPlaces(e)' = One(ExportOffered(e))'
    <3>1. ExportPlaces(e) = One(ExportOffered(e)) /\ (ExportOffered(e)' <=> ExportOffered(e))
      BY <1>1, <1>2 DEF EveryRecordAccounted, ExportOffered, Analyzed, Scoring
    <3>2. /\ Times(exportQ, e) \in Nat /\ handled[e] \in Nat /\ e # NoMsg
          /\ handled'[e] = handled[e] + One(m = e)
      BY <1>2, <1>4, PlacesLemma, PollsLemma DEF One
    <3>3. /\ ExportPlaces(e) = Times(exportQ, e) + Times(exporting, e) + handled[e]
                                + One(e \in dropped.export)
          /\ ExportPlaces(e)' = Times(exportQ, e) + Times(exporting', e) + handled'[e]
                                 + One(e \in dropped.export)
      BY <1>1 DEF ExportPlaces
    <3>4. /\ Times(exporting, e) \in Nat /\ Times(exporting', e) \in Nat
          /\ Times(exporting', e) + One(m = e) = Times(exporting, e)
      BY <1>3, <3>2 DEF One
    <3>5. ExportPlaces(e)' = ExportPlaces(e)
      BY <3>2, <3>3, <3>4 DEF One
    <3> QED
      BY <3>1, <3>5 DEF One
  <2> QED
    BY <2>1, <2>2, <2>3 DEF EveryRecordAccounted
<1> QED
  BY <1>5, <1>6, <1>7, <1>8, <1>9 DEF Inductive

(***************************************************************************)
(* The theorems.                                                           *)
(***************************************************************************)
LEMMA StepLemma == Inductive /\ [Next]_vars => Inductive'
<1> SUFFICES ASSUME Inductive, [Next]_vars
             PROVE  Inductive'
  OBVIOUS
<1>1. CASE Refresh
  BY <1>1, RefreshLemma
<1>2. CASE Monitor
  BY <1>2, PollLemma, ListUesLemma, NoUesLemma, NextRecordLemma, BuiltLemma, OutsideLemma DEF Monitor
<1>3. CASE Analyzer
  BY <1>3, AnalyzeLemma, ExportBatchLemma, InferBatchLemma, AnalyzerLeavesLemma DEF Analyzer
<1>4. ASSUME NEW w \in Inferers, Inferer(w)
      PROVE  Inductive'
  BY <1>4, TakeBatchLemma, OfferResultLemma, BatchScoredLemma DEF Inferer
<1>5. ASSUME NEW w \in Exporters, Exporter(w)
      PROVE  Inductive'
  BY <1>5, TakeMessageLemma, WriteLemma DEF Exporter
<1>6. CASE Cancel \/ UNCHANGED vars
  BY <1>6, OutsideLemma
<1>7. CASE TopNReturns
  BY <1>7, TopNReturnsLemma
<1> QED
  BY <1>1, <1>2, <1>3, <1>4, <1>5, <1>6, <1>7 DEF Next

\* The inductive invariant: the state has its type, what is under way is
\* numbered, the records so far follow one listing of the table, and the
\* accounts and orders below hold in it.
THEOREM InductiveHolds == Spec => []Inductive
<1>1. Init => Inductive
  BY InitLemma
<1>2. Inductive /\ [Next]_vars => Inductive'
  BY StepLemma
<1> QED
  BY <1>1, <1>2, PTL DEF Spec

\* Every window that was read and every result of every batch the detector took
\* is in one place: in hand, lost as no UE was known, waiting, refused by a full
\* channel, or written once, while the poll loop, processBatch, the workers of both queues and a shutdown interleave.
THEOREM EveryRecordAccountedHolds == Spec => []EveryRecordAccounted
<1>1. Inductive => EveryRecordAccounted
  BY DEF Inductive
<1> QED
  BY <1>1, InductiveHolds, PTL

\* PollIDs follow the polls without a gap, whatever featureChan dropped, and
\* nothing that waits for the analyzer is older than what it has numbered.
THEOREM PollIdsFollowPollsHolds == Spec => []PollIdsFollowPolls
<1>1. Inductive => PollIdsFollowPolls
  BY DEF Inductive
<1> QED
  BY <1>1, InductiveHolds, PTL

\* A row written too early overtakes only what other workers of the export
\* queue have in their hands: never a message still in the queue.
THEOREM OvertakenByFewHolds == Spec => []OvertakenByFew
<1>1. Inductive => OvertakenByFew
  BY DEF Inductive
<1> QED
  BY <1>1, InductiveHolds, PTL


\* When a poll has used up its list of addresses it has one record for each
\* address of the table it began with; and if the SMF client did not replace
\* the table meanwhile, each has that table's SUPI, in the order of SUPIs.
LEMMA ReflectsLemma == Inductive => PollReflectsTable
<1> SUFFICES ASSUME Inductive, mon = "polling", ips = <<>>
             PROVE  /\ {batch[i].ip : i \in DOMAIN batch} = DOMAIN known.table
                    /\ Len(batch) = Cardinality(DOMAIN known.table)
                    /\ known.same => \A i, j \in DOMAIN batch :
                                       /\ batch[i].supi = known.table[batch[i].ip]
                                       /\ i < j => batch[i].supi <= batch[j].supi
  BY DEF PollReflectsTable
<1> DEFINE t == known.table
           n == Len(batch)
<1>1. /\ t \in Tables \cup {<<>>} /\ batch \in Seq(Records)
      /\ n \in Nat /\ DOMAIN batch = 1..n /\ Len(ips) = 0
  BY LenProperties DEF Inductive, TypeOK
<1>2. PICK s \in AllUeIps(t) : Len(s) = n + 0 /\ \A i \in 1..n : batch[i].ip = s[i]
  BY <1>1 DEF Inductive, OneListing
<1>3. known.same => t = table /\ \A i \in 1..n : batch[i].supi = table[batch[i].ip]
  BY <1>1 DEF Inductive, OneListing
<1> HIDE DEF t, n
<1>4. /\ Len(s) = n /\ n = Cardinality(DOMAIN t)
      /\ \A i \in 1..n : s[i] \in DOMAIN t
      /\ \A ip \in DOMAIN t : \E i \in 1..n : s[i] = ip
      /\ \A i, j \in 1..n : i < j => t[s[i]] <= t[s[j]]
  <2>1. t \in Tables \cup {<<>>} /\ s \in AllUeIps(t) /\ Len(s) = n
    BY <1>1, <1>2
  <2>2. /\ Len(s) = Cardinality(DOMAIN t)
        /\ \A i \in 1..Len(s) : s[i] \in DOMAIN t
        /\ \A ip \in DOMAIN t : \E i \in 1..Len(s) : s[i] = ip
        /\ \A i, j \in 1..Len(s) : i < j => t[s[i]] <= t[s[j]]
    BY <2>1, ListingLemma
  <2> QED
    BY <2>1, <2>2
<1>5. {batch[i].ip : i \in DOMAIN batch} = DOMAIN t
  <2>1. ASSUME NEW i \in DOMAIN batch
        PROVE  batch[i].ip \in DOMAIN t
    BY <1>1, <1>2, <1>4
  <2>2. ASSUME NEW ip \in DOMAIN t
        PROVE  \E i \in DOMAIN batch : batch[i].ip = ip
    BY <1>1, <1>2, <1>4
  <2> QED
    BY <2>1, <2>2
<1>6. ASSUME known.same, NEW i \in DOMAIN batch, NEW j \in DOMAIN batch
      PROVE  /\ batch[i].supi = t[batch[i].ip]
             /\ i < j => batch[i].supi <= batch[j].supi
  <2>1. /\ batch[i].supi = t[batch[i].ip] /\ batch[j].supi = t[batch[j].ip]
        /\ batch[i].ip = s[i] /\ batch[j].ip = s[j] /\ i \in 1..n /\ j \in 1..n
    BY <1>1, <1>2, <1>3, <1>6
  <2> QED
    BY <1>4, <2>1
<1> QED
  BY <1>4, <1>5, <1>6 DEF t, n

THEOREM PollReflectsTableHolds == Spec => []PollReflectsTable
  BY ReflectsLemma, InductiveHolds, PTL


(***************************************************************************)
(* Both queues keep the promise of AtMostOnceQueue.                        *)
(***************************************************************************)
\* What EveryRecordAccounted says of one message, of one batch.
ExportOnce(m) ==
  /\ m \in ExportPending <=> m \in ToSet(exportQ) \/ \E w \in Exporters : exporting[w] = m
  /\ m \in ExportPending => handled[m] = 0 /\ m \notin dropped.export
  /\ m \in dropped.export => handled[m] = 0
  /\ Times(exportQ, m) <= 1
  /\ Times(exportQ, m) = 1 => \A w \in Exporters : exporting[w] # m

InferOnce(p) ==
  /\ p \in InferPending <=> \/ \E i \in DOMAIN inferQ : inferQ[i] = p
                            \/ \E w \in Inferers : inferring[w][1] = p
  /\ p \in InferPending => scored[p] = 0 /\ p \notin dropped.infer
  /\ p \in dropped.infer => scored[p] = 0
  /\ Times(inferQ, p) <= 1
  /\ Times(inferQ, p) = 1 => \A w \in Inferers : inferring[w][1] # p

OnePlace ==
  /\ ExportPending \subseteq Msgs /\ \A m \in Msgs : ExportOnce(m)
  /\ InferPending \subseteq Polls /\ \A p \in Polls : InferOnce(p)

LEMMA PendingLemma == Inductive => OnePlace
<1> SUFFICES ASSUME Inductive
             PROVE  OnePlace
  OBVIOUS
<1>1. TypeOK /\ EveryRecordAccounted
  BY DEF Inductive
<1>2. ASSUME NEW m \in Msgs
      PROVE  ExportOnce(m)
  <2>1. /\ Times(exportQ, m) \in Nat /\ Times(exporting, m) \in Nat /\ handled[m] \in Nat
        /\ Times(exportQ, m) > 0 <=> m \in ToSet(exportQ)
        /\ Times(exporting, m) > 0 <=> \E w \in Exporters : exporting[w] = m
    BY <1>1, PlacesLemma
  <2>2. Times(exportQ, m) + Times(exporting, m) + handled[m] + One(m \in dropped.export) <= 1
    BY <1>1, <2>1 DEF EveryRecordAccounted, ExportPlaces, One
  <2>3. m \in ExportPending <=> Times(exportQ, m) + Times(exporting, m) > 0
    BY DEF ExportPending
  <2> QED
    BY <2>1, <2>2, <2>3 DEF ExportOnce, One
<1>3. ASSUME NEW p \in Polls
      PROVE  InferOnce(p)
  <2>1. /\ Times(inferQ, p) \in Nat /\ scored[p] \in Nat
        /\ Times(inferQ, p) > 0 <=> \E i \in DOMAIN inferQ : inferQ[i] = p
    BY <1>1, PlacesLemma
  <2>2. /\ Cardinality(Scoring(p)) \in Nat
        /\ Cardinality(Scoring(p)) > 0 <=> \E w \in Inferers : inferring[w][1] = p
    <3>1. Scoring(p) \in SUBSET Inferers
      BY DEF Scoring
    <3>2. Cardinality(Scoring(p)) \in Nat /\ (Cardinality(Scoring(p)) = 0 <=> Scoring(p) = {})
      BY <3>1, ConstantsLemma, NoneLemma
    <3>3. Scoring(p) # {} <=> \E w \in Inferers : inferring[w][1] = p
      BY DEF Scoring
    <3> QED
      BY <3>2, <3>3
  <2>3. Times(inferQ, p) + Cardinality(Scoring(p)) + scored[p] + One(p \in dropped.infer) <= 1
    BY <1>1, <2>1 DEF EveryRecordAccounted, InferPlaces, One
  <2>4. p \in InferPending <=> Times(inferQ, p) + Cardinality(Scoring(p)) > 0
    BY DEF InferPending
  <2> QED
    BY <2>1, <2>2, <2>3, <2>4 DEF InferOnce, One
<1>4. ExportPending \subseteq Msgs /\ InferPending \subseteq Polls
  BY DEF ExportPending, InferPending
<1>5. \A m \in Msgs : ExportOnce(m)
  BY <1>2
<1>6. \A p \in Polls : InferOnce(p)
  BY <1>3
<1> QED
  BY <1>4, <1>5, <1>6 DEF OnePlace

\* A call of Enqueue is an Accept or a Refuse of the export queue, or nothing
\* new (a message that was refused before is refused again).
LEMMA ExportEnqueueLemma ==
  ASSUME Inductive, Inductive', NEW m \in Msgs, EnqueueExport(m), UNCHANGED <<exporting, handled>>
  PROVE  [ExportQueue!Next]_(ExportQueue!vars)
<1>1. /\ exportQ \in Seq(Msgs) /\ \A e \in Msgs : Times(exportQ, e) \in Nat
      /\ dropped \in [empty : SUBSET Polls, feature : SUBSET Polls, export : SUBSET Msgs, infer : SUBSET Polls]
  BY PlacesLemma DEF Inductive, TypeOK
<1>2. /\ ExportPending \subseteq Msgs /\ ExportPending' \subseteq Msgs
      /\ \A e \in Msgs : ExportOnce(e) /\ ExportOnce(e)'
  <2>1. OnePlace'
    BY PendingLemma, PTL
  <2> QED
    BY <2>1, PendingLemma DEF OnePlace
<1>3. CASE exportQ' = Append(exportQ, m) /\ dropped' = dropped
  <2>1. ToSet(exportQ') = ToSet(exportQ) \cup {m} /\ Times(exportQ', m) = Times(exportQ, m) + 1
    <3>1. /\ DOMAIN exportQ = 1..Len(exportQ) /\ DOMAIN exportQ' = 1..(Len(exportQ) + 1)
          /\ Len(exportQ) \in Nat /\ exportQ'[Len(exportQ) + 1] = m
          /\ \A i \in 1..Len(exportQ) : exportQ'[i] = exportQ[i]
          /\ Times(exportQ', m) = Times(exportQ, m) + One(m = m)
      BY <1>1, <1>3, AppendLemma
    <3> QED
      BY <3>1 DEF ToSet, One
  <2>2. Times(exportQ, m) = 0 /\ Times(exportQ', m) = 1
    BY <1>1, <1>2, <2>1 DEF ExportOnce
  <2>3. m \notin ToSet(exportQ)
    BY <1>1, <2>2, PlacesLemma DEF Inductive
  <2>4. m \notin ExportPending /\ handled[m] = 0 /\ m \notin dropped.export
    BY <1>2, <1>3, <2>1, <2>2, <2>3 DEF ExportOnce
  <2>5. ExportPending' = ExportPending \cup {m}
    BY <1>2, <2>1 DEF ExportOnce
  <2>6. ExportQueue!Accept(m)
    BY <1>3, <2>4, <2>5 DEF ExportQueue!Accept, ExportQueue!Fresh
  <2> QED
    BY <2>6 DEF ExportQueue!Next
<1>4. CASE exportQ' = exportQ /\ dropped' = [dropped EXCEPT !.export = @ \cup {m}]
  <2>1. dropped'.export = dropped.export \cup {m} /\ ExportPending' = ExportPending
    BY <1>1, <1>4 DEF ExportPending
  <2>2. CASE m \in dropped.export
    <3>1. dropped'.export = dropped.export
      BY <2>1, <2>2
    <3> QED
      BY <2>1, <3>1 DEF ExportQueue!vars
  <2>3. CASE m \notin dropped.export
    <3>1. m \notin ExportPending /\ handled[m] = 0
      BY <1>2, <2>1 DEF ExportOnce
    <3>2. ExportQueue!Refuse(m)
      BY <2>1, <2>3, <3>1 DEF ExportQueue!Refuse, ExportQueue!Fresh
    <3> QED
      BY <3>2 DEF ExportQueue!Next
  <2> QED
    BY <2>2, <2>3
<1> QED
  BY <1>3, <1>4 DEF EnqueueExport


\* The same of EnqueueInferenceMessage and the inference queue.
LEMMA InferEnqueueLemma ==
  ASSUME Inductive, Inductive', NEW p \in Polls, EnqueueBatch(p), UNCHANGED <<inferring, scored>>
  PROVE  [InferenceQueue!Next]_(InferenceQueue!vars)
<1>1. /\ inferQ \in Seq(Polls) /\ \A q \in Polls : Times(inferQ, q) \in Nat
      /\ dropped \in [empty : SUBSET Polls, feature : SUBSET Polls, export : SUBSET Msgs, infer : SUBSET Polls]
  BY PlacesLemma DEF Inductive, TypeOK
<1>2. /\ InferPending \subseteq Polls /\ InferPending' \subseteq Polls
      /\ \A q \in Polls : InferOnce(q) /\ InferOnce(q)'
  <2>1. OnePlace'
    BY PendingLemma, PTL
  <2> QED
    BY <2>1, PendingLemma DEF OnePlace
<1>3. CASE inferQ' = Append(inferQ, p) /\ dropped' = dropped
  <2>1. /\ Times(inferQ', p) = Times(inferQ, p) + 1
        /\ \A q : (\E i \in DOMAIN inferQ' : inferQ'[i] = q)
                    <=> (\E i \in DOMAIN inferQ : inferQ[i] = q) \/ q = p
    <3>1. /\ DOMAIN inferQ = 1..Len(inferQ) /\ DOMAIN inferQ' = 1..(Len(inferQ) + 1)
          /\ Len(inferQ) \in Nat /\ inferQ'[Len(inferQ) + 1] = p
          /\ \A i \in 1..Len(inferQ) : inferQ'[i] = inferQ[i]
          /\ Times(inferQ', p) = Times(inferQ, p) + One(p = p)
      BY <1>1, <1>3, AppendLemma
    <3> QED
      BY <3>1 DEF One
  <2>2. Times(inferQ, p) = 0 /\ Times(inferQ', p) = 1
    BY <1>1, <1>2, <2>1 DEF InferOnce
  <2>3. ~ \E i \in DOMAIN inferQ : inferQ[i] = p
    <3>1. TypeOK
      BY DEF Inductive
    <3>2. Times(inferQ, p) > 0 <=> \E i \in DOMAIN inferQ : inferQ[i] = p
      BY <3>1, PlacesLemma
    <3> QED
      BY <2>2, <3>2
  <2>4. p \notin InferPending /\ scored[p] = 0 /\ p \notin dropped.infer
    BY <1>2, <1>3, <2>1, <2>2, <2>3 DEF InferOnce
  <2>5. InferPending' = InferPending \cup {p}
    BY <1>2, <2>1 DEF InferOnce
  <2>6. InferenceQueue!Accept(p)
    BY <1>3, <2>4, <2>5 DEF InferenceQueue!Accept, InferenceQueue!Fresh
  <2> QED
    BY <2>6 DEF InferenceQueue!Next
<1>4. CASE inferQ' = inferQ /\ dropped' = [dropped EXCEPT !.infer = @ \cup {p}]
  <2>1. dropped'.infer = dropped.infer \cup {p} /\ InferPending' = InferPending
    BY <1>1, <1>4 DEF InferPending, Scoring
  <2>2. CASE p \in dropped.infer
    <3>1. dropped'.infer = dropped.infer
      BY <2>1, <2>2
    <3> QED
      BY <2>1, <3>1 DEF InferenceQueue!vars
  <2>3. CASE p \notin dropped.infer
    <3>1. p \notin InferPending /\ scored[p] = 0
      BY <1>2, <2>1 DEF InferOnce
    <3>2. InferenceQueue!Refuse(p)
      BY <2>1, <2>3, <3>1 DEF InferenceQueue!Refuse, InferenceQueue!Fresh
    <3> QED
      BY <3>2 DEF InferenceQueue!Next
  <2> QED
    BY <2>2, <2>3
<1> QED
  BY <1>3, <1>4 DEF EnqueueBatch

\* The workers: to take a message changes nothing outside, to be done with
\* one is a Handle.
LEMMA ExportWorkerLemma ==
  ASSUME Inductive, Inductive', NEW w \in Exporters, Exporter(w)
  PROVE  [ExportQueue!Next]_(ExportQueue!vars) /\ UNCHANGED InferenceQueue!vars
<1>1. /\ exportQ \in Seq(Msgs) /\ exporting \in [Exporters -> Msgs \cup {NoMsg}] /\ NoMsg \notin Msgs
      /\ TypeOK /\ handled \in [Msgs -> Nat]
  BY PollsLemma DEF Inductive, TypeOK
<1>2. /\ ExportPending \subseteq Msgs /\ ExportPending' \subseteq Msgs
      /\ \A e \in Msgs : ExportOnce(e) /\ ExportOnce(e)'
  <2>1. OnePlace'
    BY PendingLemma, PTL
  <2> QED
    BY <2>1, PendingLemma DEF OnePlace
<1>3. UNCHANGED InferenceQueue!vars /\ UNCHANGED dropped
  <2>1. UNCHANGED <<inferQ, inferring, scored, dropped>>
    BY DEF Exporter, TakeMessage, Write, OnlyExporter, infVars
  <2>2. InferPending' = InferPending
    BY <2>1 DEF InferPending, Scoring
  <2> QED
    BY <2>1, <2>2 DEF InferenceQueue!vars
<1>4. CASE TakeMessage(w)
  <2>1. PICK m \in Msgs : m = Head(exportQ)
    BY <1>1, <1>4, TailLemma DEF TakeMessage
  <2>2. exporting[w] = NoMsg /\ exportQ # <<>> /\ exportQ' = Tail(exportQ)
        /\ exporting' = [exporting EXCEPT ![w] = m] /\ handled' = handled
    BY <1>4, <2>1 DEF TakeMessage
  <2>3. ToSet(exportQ) = ToSet(exportQ') \cup {m}
    <3> DEFINE n == Len(exportQ)
    <3>1. /\ DOMAIN exportQ = 1..n /\ DOMAIN exportQ' = 1..(n - 1) /\ n \in Nat \ {0}
          /\ exportQ[1] = m /\ \A i \in 1..(n - 1) : exportQ'[i] = exportQ[i + 1]
      BY <1>1, <2>1, <2>2, TailLemma
    <3> HIDE DEF n
    <3>2. \A i \in 1..n : i = 1 \/ (i - 1 \in 1..(n - 1) /\ i = (i - 1) + 1)
      BY <3>1
    <3>3. \A i \in 1..(n - 1) : i + 1 \in 1..n
      <4>1. n \in Nat
        BY <3>1
      <4> QED
        BY <4>1
    <3>4. 1 \in 1..n
      BY <3>1
    <3>5. ASSUME NEW i \in 1..n
          PROVE  exportQ[i] \in ToSet(exportQ') \cup {m}
      <4>1. CASE i = 1
        BY <3>1, <4>1
      <4>2. CASE i - 1 \in 1..(n - 1) /\ i = (i - 1) + 1
        <5>1. exportQ[i] = exportQ'[i - 1] /\ i - 1 \in DOMAIN exportQ'
          BY <3>1, <4>2
        <5> QED
          BY <5>1 DEF ToSet
      <4> QED
        BY <3>2, <4>1, <4>2
    <3>6. ASSUME NEW i \in 1..(n - 1)
          PROVE  exportQ'[i] \in ToSet(exportQ)
      BY <3>1, <3>3 DEF ToSet
    <3>7. m \in ToSet(exportQ)
      BY <3>1, <3>4 DEF ToSet
    <3>8. ToSet(exportQ) \subseteq ToSet(exportQ') \cup {m}
      BY <3>1, <3>5 DEF ToSet
    <3>9. ToSet(exportQ') \subseteq ToSet(exportQ)
      BY <3>1, <3>6 DEF ToSet
    <3> QED
      BY <3>7, <3>8, <3>9
  <2>4. exporting'[w] = m /\ \A v \in Exporters : v # w => exporting'[v] = exporting[v]
    BY <1>1, <2>2
  <2>5. \A e \in Msgs : (e \in ToSet(exportQ') \/ \E v \in Exporters : exporting'[v] = e)
                          <=> (e \in ToSet(exportQ) \/ \E v \in Exporters : exporting[v] = e)
    BY <1>1, <2>2, <2>3, <2>4
  <2>6. ExportPending' = ExportPending
    BY <1>2, <2>5 DEF ExportOnce
  <2> QED
    BY <1>3, <2>2, <2>6 DEF ExportQueue!vars
<1>5. CASE Write(w)
  <2>1. PICK m \in Msgs : m = exporting[w]
    BY <1>5 DEF Write
  <2>2. exportQ' = exportQ /\ exporting' = [exporting EXCEPT ![w] = NoMsg]
        /\ handled' = [handled EXCEPT ![m] = @ + 1]
    BY <1>5, <2>1 DEF Write
  <2>3. exporting'[w] = NoMsg /\ \A v \in Exporters : v # w => exporting'[v] = exporting[v]
    BY <1>1, <2>2
  <2>4. m \in ExportPending
    BY <1>2, <2>1 DEF ExportOnce
  <2>5. m \notin ExportPending'
    <3>1. handled'[m] = handled[m] + 1 /\ handled[m] \in Nat
      BY <1>1, <2>2
    <3> QED
      BY <1>2, <3>1 DEF ExportOnce
  <2>6. \A e \in Msgs : e # m => (e \in ExportPending' <=> e \in ExportPending)
    <3>1. \A e \in Msgs : e # m => ((\E v \in Exporters : exporting'[v] = e)
                                      <=> (\E v \in Exporters : exporting[v] = e))
      BY <1>1, <2>1, <2>3
    <3> QED
      BY <1>2, <2>2, <3>1 DEF ExportOnce
  <2>7. ExportPending' = ExportPending \ {m}
    BY <1>2, <2>5, <2>6
  <2>8. ExportQueue!Handle(m)
    BY <1>3, <2>2, <2>4, <2>7 DEF ExportQueue!Handle
  <2> QED
    BY <1>3, <2>8 DEF ExportQueue!Next
<1> QED
  BY <1>3, <1>4, <1>5 DEF Exporter


LEMMA InferWorkerLemma ==
  ASSUME Inductive, Inductive', NEW w \in Inferers, Inferer(w)
  PROVE  /\ [ExportQueue!Next]_(ExportQueue!vars)
         /\ [InferenceQueue!Next]_(InferenceQueue!vars)
<1>1. /\ TypeOK /\ inferQ \in Seq(Polls) /\ inferring \in [Inferers -> (Polls \X Nat) \cup {NoMsg}]
      /\ scored \in [Polls -> Nat] /\ size \in [Polls -> 0..Cardinality(Ips)]
  BY DEF Inductive, TypeOK
<1>2. /\ InferPending \subseteq Polls /\ InferPending' \subseteq Polls
      /\ \A q \in Polls : InferOnce(q) /\ InferOnce(q)'
  <2>1. OnePlace'
    BY PendingLemma, PTL
  <2> QED
    BY <2>1, PendingLemma DEF OnePlace
<1>3. UNCHANGED <<exporting, handled>>
  BY DEF Inferer, TakeBatch, OfferResult, BatchScored, OnlyInferer, expVars
<1>4. CASE TakeBatch(w)
  <2>1. PICK p \in Polls : p = Head(inferQ)
    BY <1>1, <1>4, TailLemma DEF TakeBatch
  <2>2. /\ inferring[w] = NoMsg /\ inferQ # <<>> /\ inferQ' = Tail(inferQ) /\ scored' = scored
        /\ inferring' = [inferring EXCEPT ![w] = <<p, 1>>]
        /\ UNCHANGED <<exportQ, dropped>>
    BY <1>4, <2>1 DEF TakeBatch
  <2>3. ASSUME NEW q
        PROVE  (\E i \in DOMAIN inferQ : inferQ[i] = q)
                 <=> (\E i \in DOMAIN inferQ' : inferQ'[i] = q) \/ q = p
    <3> DEFINE n == Len(inferQ)
    <3>1. /\ DOMAIN inferQ = 1..n /\ DOMAIN inferQ' = 1..(n - 1) /\ n \in Nat \ {0}
          /\ inferQ[1] = p /\ \A i \in 1..(n - 1) : inferQ'[i] = inferQ[i + 1]
      BY <1>1, <2>1, <2>2, TailLemma
    <3> HIDE DEF n
    <3>2. \A i \in 1..n : i = 1 \/ (i - 1 \in 1..(n - 1) /\ i = (i - 1) + 1)
      BY <3>1
    <3>3. \A i \in 1..(n - 1) : i + 1 \in 1..n
      <4>1. n \in Nat
        BY <3>1
      <4> QED
        BY <4>1
    <3>4. 1 \in 1..n
      BY <3>1
    <3>5. ASSUME NEW i \in 1..n, inferQ[i] = q, q # p
          PROVE  \E j \in 1..(n - 1) : inferQ'[j] = q
      <4>1. i - 1 \in 1..(n - 1) /\ i = (i - 1) + 1
        BY <3>1, <3>2, <3>5
      <4>2. inferQ'[i - 1] = q
        BY <3>1, <3>5, <4>1
      <4> QED
        BY <4>1, <4>2
    <3>6. ASSUME NEW j \in 1..(n - 1), inferQ'[j] = q
          PROVE  \E i \in 1..n : inferQ[i] = q
      BY <3>1, <3>3, <3>6
    <3> QED
      BY <3>1, <3>4, <3>5, <3>6
  <2>4. /\ inferring[w][1] = NoPoll /\ inferring'[w][1] = p
        /\ \A v \in Inferers : v # w => inferring'[v] = inferring[v]
    BY <1>1, <2>2 DEF NoMsg, NoPoll
  <2>5. ASSUME NEW q \in Polls
        PROVE  q \in InferPending' <=> q \in InferPending
    <3>1. q # NoPoll
      BY PollsLemma
    <3>2. (\E v \in Inferers : inferring'[v][1] = q) <=> (\E v \in Inferers : inferring[v][1] = q) \/ q = p
      BY <2>4, <3>1
    <3> QED
      BY <1>2, <2>3, <3>2 DEF InferOnce
  <2>6. InferPending' = InferPending
    BY <1>2, <2>5
  <2>7. ExportPending' = ExportPending
    BY <1>3, <2>2 DEF ExportPending
  <2> QED
    BY <1>3, <2>2, <2>6, <2>7 DEF ExportQueue!vars, InferenceQueue!vars
<1>5. CASE OfferResult(w) \/ BatchScored(w)
  <2>1. PICK p \in Polls, i \in Nat : inferring[w] = <<p, i>>
    <3>1. inferring[w] # NoMsg
      BY <1>5 DEF OfferResult, BatchScored, Working
    <3> QED
      BY <1>1, <3>1, ScoringLemma
  <2>2. inferring[w][1] = p /\ inferring[w][2] = i
    BY <2>1
  <2>3. CASE OfferResult(w)
    <3>1. /\ EnqueueExport(<<p, i>>) /\ i <= size[p] /\ UNCHANGED <<inferQ, scored>>
          /\ inferring' = [inferring EXCEPT ![w][2] = @ + 1]
      BY <2>1, <2>2, <2>3 DEF OfferResult
    <3>2. <<p, i>> \in Msgs
      BY <1>1, <3>1, PollsLemma, ConstantsLemma
    <3>3. [ExportQueue!Next]_(ExportQueue!vars)
      BY <1>3, <3>1, <3>2, ExportEnqueueLemma
    <3>4. \A v \in Inferers : inferring'[v][1] = inferring[v][1]
      BY <1>1, <3>1
    <3>5. dropped'.infer = dropped.infer
      BY <1>1, <3>1 DEF EnqueueExport, TypeOK
    <3>6. InferPending' = InferPending
      BY <1>2, <3>1, <3>4 DEF InferOnce
    <3> QED
      BY <3>1, <3>3, <3>5, <3>6 DEF InferenceQueue!vars
  <2>4. CASE BatchScored(w)
    <3>1. /\ UNCHANGED <<exportQ, inferQ, dropped>> /\ inferring' = [inferring EXCEPT ![w] = NoMsg]
          /\ scored' = [scored EXCEPT ![p] = @ + 1]
      BY <2>2, <2>4 DEF BatchScored
    <3>2. inferring'[w][1] = NoPoll /\ \A v \in Inferers : v # w => inferring'[v] = inferring[v]
      BY <1>1, <3>1 DEF NoMsg, NoPoll
    <3>3. p \in InferPending
      BY <1>2, <2>2 DEF InferOnce
    <3>4. p \notin InferPending'
      <4>1. scored'[p] = scored[p] + 1 /\ scored[p] \in Nat
        BY <1>1, <3>1
      <4> QED
        BY <1>2, <4>1 DEF InferOnce
    <3>5. ASSUME NEW q \in Polls, q # p
          PROVE  q \in InferPending' <=> q \in InferPending
      <4>1. (\E v \in Inferers : inferring'[v][1] = q) <=> (\E v \in Inferers : inferring[v][1] = q)
        BY <2>2, <3>2, <3>5, PollsLemma
      <4> QED
        BY <1>2, <3>1, <4>1 DEF InferOnce
    <3>6. InferPending' = InferPending \ {p}
      BY <1>2, <3>4, <3>5
    <3>7. InferenceQueue!Handle(p)
      BY <3>1, <3>3, <3>6 DEF InferenceQueue!Handle
    <3>8. ExportPending' = ExportPending
      BY <1>3, <3>1 DEF ExportPending
    <3> QED
      BY <1>3, <3>1, <3>7, <3>8 DEF InferenceQueue!Next, ExportQueue!vars
  <2> QED
    BY <1>5, <2>3, <2>4
<1> QED
  BY <1>4, <1>5 DEF Inferer


LEMMA RefineLemma ==
  ASSUME Inductive, Inductive', [Next]_vars
  PROVE  /\ [ExportQueue!Next]_(ExportQueue!vars)
         /\ [InferenceQueue!Next]_(InferenceQueue!vars)
<1>1. TypeOK
  BY DEF Inductive
<1>2. ASSUME UNCHANGED <<exportQ, exporting, handled, inferQ, inferring, scored>>,
             dropped'.export = dropped.export, dropped'.infer = dropped.infer
      PROVE  UNCHANGED ExportQueue!vars /\ UNCHANGED InferenceQueue!vars
  <2>1. ExportPending' = ExportPending /\ InferPending' = InferPending
    BY <1>2 DEF ExportPending, InferPending, Scoring
  <2> QED
    BY <1>2, <2>1 DEF ExportQueue!vars, InferenceQueue!vars
<1>3. CASE Refresh \/ Cancel \/ UNCHANGED vars
  BY <1>2, <1>3 DEF Refresh, Cancel, vars, expVars, infVars
<1>4. CASE Monitor \/ TopNReturns
  <2>1. UNCHANGED <<exportQ, exporting, handled, inferQ, inferring, scored>>
    BY <1>4 DEF Monitor, Poll, TopNReturns, ListUes, NoUes, NextRecord, Send, Drop, BatchBuilt,
                MonitorLeaves, OnlyMonitor, expVars, infVars
  <2>2. \/ dropped' = dropped \/ dropped' = [dropped EXCEPT !.feature = @ \cup {polls}]
        \/ dropped' = [dropped EXCEPT !.empty = @ \cup {polls}]
    BY <1>4 DEF Monitor, Poll, TopNReturns, ListUes, NoUes, NextRecord, Send, Drop, MonitorLeaves
  <2>3. dropped'.export = dropped.export /\ dropped'.infer = dropped.infer
    BY <1>1, <2>2 DEF TypeOK
  <2> QED
    BY <1>2, <2>1, <2>3
<1>5. CASE Analyze \/ AnalyzerLeaves
  BY <1>2, <1>5 DEF Analyze, AnalyzerLeaves, OnlyAnalyzer, expVars, infVars
<1>6. CASE ExportBatch
  <2>1. PICK p \in Polls : p = ana.poll
    BY <1>6 DEF ExportBatch, Inductive, TypeOK, UnderWay
  <2>2. /\ UNCHANGED <<exporting, handled, inferQ, inferring, scored>>
        /\ EnqueueExport(<<p, 0>>)
    BY <1>6, <2>1 DEF ExportBatch, OnlyAnalyzer, expVars, infVars
  <2>3. <<p, 0>> \in Msgs
    BY PollsLemma, ConstantsLemma
  <2>4. [ExportQueue!Next]_(ExportQueue!vars)
    BY <2>2, <2>3, ExportEnqueueLemma
  <2>5. dropped'.infer = dropped.infer /\ InferPending' = InferPending
    BY <1>1, <2>2 DEF EnqueueExport, TypeOK, InferPending, Scoring
  <2> QED
    BY <2>2, <2>4, <2>5 DEF InferenceQueue!vars
<1>7. CASE InferBatch
  <2>1. PICK p \in Polls : p = ana.poll
    BY <1>7 DEF InferBatch, Inductive, TypeOK, UnderWay
  <2>2. UNCHANGED <<exportQ, exporting, handled, inferring, scored>> /\ EnqueueBatch(p)
    BY <1>7, <2>1 DEF InferBatch, OnlyAnalyzer, expVars, infVars
  <2>3. [InferenceQueue!Next]_(InferenceQueue!vars)
    BY <2>2, InferEnqueueLemma
  <2>4. dropped'.export = dropped.export /\ ExportPending' = ExportPending
    BY <1>1, <2>2 DEF EnqueueBatch, TypeOK, ExportPending
  <2> QED
    BY <2>2, <2>3, <2>4 DEF ExportQueue!vars
<1>8. ASSUME NEW w \in Inferers, Inferer(w)
      PROVE  [ExportQueue!Next]_(ExportQueue!vars) /\ [InferenceQueue!Next]_(InferenceQueue!vars)
  BY <1>8, InferWorkerLemma
<1>9. ASSUME NEW w \in Exporters, Exporter(w)
      PROVE  [ExportQueue!Next]_(ExportQueue!vars) /\ [InferenceQueue!Next]_(InferenceQueue!vars)
  BY <1>9, ExportWorkerLemma
<1> QED
  BY <1>3, <1>4, <1>5, <1>6, <1>7, <1>8, <1>9 DEF Next, Analyzer

\* Both queues, with their callers, their workers and what these do with a
\* message, implement AtMostOnceQueue: the fate of a message is decided at
\* once, and an accepted one is handled at most once.
THEOREM QueuesKeepPromiseHolds == Spec => QueuesKeepPromise
<1>1. Init => ExportQueue!Init /\ InferenceQueue!Init
  <2> SUFFICES ASSUME Init
               PROVE  ExportQueue!Init /\ InferenceQueue!Init
    OBVIOUS
  <2>1. OnePlace
    BY InitLemma, PendingLemma
  <2>2. /\ exportQ = <<>> /\ exporting = [w \in Exporters |-> NoMsg] /\ handled = [m \in Msgs |-> 0]
        /\ inferQ = <<>> /\ inferring = [w \in Inferers |-> NoMsg] /\ scored = [p \in Polls |-> 0]
        /\ dropped = [empty |-> {}, feature |-> {}, export |-> {}, infer |-> {}]
    BY DEF Init
  <2>3. ExportPending = {}
    <3>1. ASSUME NEW m \in Msgs
          PROVE  m \notin ExportPending
      <4>1. m \notin ToSet(exportQ) /\ \A w \in Exporters : exporting[w] # m
        BY <2>2, PollsLemma DEF ToSet
      <4> QED
        BY <2>1, <4>1 DEF OnePlace, ExportOnce
    <3> QED
      BY <2>1, <3>1 DEF OnePlace
  <2>4. InferPending = {}
    <3>1. ASSUME NEW p \in Polls
          PROVE  p \notin InferPending
      <4>1. (~ \E i \in DOMAIN inferQ : inferQ[i] = p) /\ \A w \in Inferers : inferring[w][1] # p
        BY <2>2, PollsLemma DEF NoMsg, NoPoll
      <4> QED
        BY <2>1, <4>1 DEF OnePlace, InferOnce
    <3> QED
      BY <2>1, <3>1 DEF OnePlace
  <2> QED
    BY <2>2, <2>3, <2>4 DEF ExportQueue!Init, InferenceQueue!Init
<1>2. Inductive /\ Inductive' /\ [Next]_vars =>
        /\ [ExportQueue!Next]_(ExportQueue!vars)
        /\ [InferenceQueue!Next]_(InferenceQueue!vars)
  BY RefineLemma
<1> QED
  BY <1>1, <1>2, InductiveHolds, PTL DEF Spec, QueuesKeepPromise, ExportQueue!Spec, InferenceQueue!Spec

=============================================================================
