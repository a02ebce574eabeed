--------------------------- MODULE TlsCapture_proofs ---------------------------
(***************************************************************************)
(* Proofs about TlsCapture, for any CPUs, any flows and owners, and any    *)
(* sizes of the maps and the rings.                                        *)
(***************************************************************************)
EXTENDS TlsCapture, FiniteSetTheorems, SequenceTheorems, TLAPS

LEMMA ConstantsLemma ==
  /\ IsFiniteSet(Flows) /\ Https \subseteq Flows
  /\ MaxFlows \in Nat \ {0} /\ RingSize \in Nat \ {0} /\ MaxPackets \in Nat
  /\ \A f \in Flows : UeOf[f] \in Ues
<1>1. \A n \in {MaxFlows, RingSize} : n \in Nat \ {0}
  BY CaptureAssumption
<1> QED
  BY <1>1, CaptureAssumption DEF Flows, Ues

\* The keys of both maps are finite sets of flows.
LEMMA KeysFinite ==
  /\ KeysOfTls \subseteq Https /\ IsFiniteSet(KeysOfTls) /\ Cardinality(KeysOfTls) \in Nat
  /\ \A keys \in SUBSET Flows : IsFiniteSet(keys) /\ Cardinality(keys) \in Nat
<1>1. KeysOfTls \subseteq Https /\ KeysOfTls \in SUBSET Flows
  BY ConstantsLemma DEF KeysOfTls
<1>2. \A keys \in SUBSET Flows : IsFiniteSet(keys) /\ Cardinality(keys) \in Nat
  BY ConstantsLemma, FS_Subset, FS_CardinalityType
<1> QED
  BY <1>1, <1>2

\* An insert keeps a map within its limit, whatever it evicts.
LEMMA EvictLemma ==
  ASSUME NEW keys \in SUBSET Flows, Cardinality(keys) <= MaxFlows, NEW f \in Flows,
         NEW victims \in Evictable(keys, f)
  PROVE  Cardinality((keys \ victims) \cup {f}) <= MaxFlows
<1>1. IsFiniteSet(keys) /\ Cardinality(keys) \in Nat
  BY KeysFinite
<1>2. /\ victims \subseteq keys \ {f} /\ Cardinality(victims) <= 1
      /\ f \notin keys /\ Cardinality(keys) = MaxFlows => victims # {}
      /\ f \in keys => victims = {}
  BY DEF Evictable
<1>3. MaxFlows \in Nat
  BY ConstantsLemma
<1>4. CASE f \in keys
  <2>1. (keys \ victims) \cup {f} = keys
    BY <1>2, <1>4
  <2> QED
    BY <2>1
<1>5. CASE f \notin keys /\ victims = {}
  <2>1. (keys \ victims) \cup {f} = keys \cup {f} /\ Cardinality(keys) # MaxFlows
    BY <1>2, <1>5
  <2>2. Cardinality(keys \cup {f}) = Cardinality(keys) + 1
    BY <1>1, <1>5, FS_AddElement
  <2> QED
    BY <1>1, <1>3, <2>1, <2>2
<1>6. CASE f \notin keys /\ victims # {}
  <2>1. PICK v \in victims : TRUE
    BY <1>6
  <2>2. (keys \ victims) \cup {f} \subseteq (keys \ {v}) \cup {f}
    BY <2>1
  <2>3. IsFiniteSet(keys \ {v}) /\ Cardinality(keys \ {v}) = Cardinality(keys) - 1
    BY <1>1, <1>2, <2>1, FS_RemoveElement
  <2>4. /\ IsFiniteSet((keys \ {v}) \cup {f})
        /\ Cardinality((keys \ {v}) \cup {f}) = Cardinality(keys \ {v}) + 1
    BY <1>6, <2>3, FS_AddElement
  <2>5. Cardinality((keys \ victims) \cup {f}) <= Cardinality((keys \ {v}) \cup {f})
    BY <2>2, <2>4, FS_Subset
  <2>6. Cardinality((keys \ victims) \cup {f}) \in Nat
    BY <2>2, <2>4, FS_Subset, FS_CardinalityType
  <2> QED
    BY <1>1, <1>3, <2>3, <2>4, <2>5, <2>6
<1> QED
  BY <1>4, <1>5, <1>6

LEMMA PacketLemma ==
  ASSUME TypeOK, NEW c \in Cpus, pc[c] # "idle"
  PROVE  /\ pkt[c] \in Packets /\ pkt[c].flow \in Flows /\ pkt[c].alone \in BOOLEAN
         /\ pkt[c].kind \in {"syn", "hello", "data", "udp"}
<1>1. pkt[c] \in Packets
  BY DEF TypeOK
<1> QED
  BY <1>1 DEF Packets

LEMMA InitLemma == Init => Inductive
<1> SUFFICES ASSUME Init
             PROVE  Inductive
  OBVIOUS
<1> USE ConstantsLemma DEF Init
<1>1. excess.tls = None /\ excess.tracked = None /\ None \in [Flows -> Int]
      /\ \A f \in Flows : None[f] = 0
  BY DEF None
<1>2. TypeOK
  <2>1. excess \in [tls : [Flows -> Int], tracked : [Flows -> Int]]
    BY <1>1
  <2>2. ring \in [Cpus -> Seq(Samples)]
    BY EmptySeq
  <2>3. tls \in [Https -> {Absent, Seen, Captured}] /\ tracked \subseteq Tcp \cup Udp \cup Https
    OBVIOUS
  <2>4. arrived \in 0..MaxPackets /\ taken \in [Cpus -> 0..MaxPackets]
    OBVIOUS
  <2>7. stopping \in BOOLEAN
    OBVIOUS
  <2>5. pc \in [Cpus -> {"idle", "output", "capture", "mark", "track", "insert"}]
        /\ pkt \in [Cpus -> Packets \cup {NoPacket}] /\ \A c \in Cpus : pkt[c] = NoPacket
    OBVIOUS
  <2>6. reader \in {"check", "read", "done"} /\ cache \in [Ues -> Samples \cup {NoSample}]
    OBVIOUS
  <2>8. newest \in [Cpus -> [Ues -> 0..MaxPackets]]
    OBVIOUS
  <2> QED
    BY <2>1, <2>2, <2>3, <2>4, <2>5, <2>6, <2>7, <2>8 DEF TypeOK
<1>3. WithinLimits
  <2>1. KeysOfTls = {} /\ Cardinality({}) = 0
    BY FS_EmptySet DEF KeysOfTls
  <2>2. \A c \in Cpus : Len(ring[c]) = 0
    BY EmptySeq
  <2> QED
    BY <2>1, <2>2 DEF WithinLimits
<1>4. Sampling /\ RingsInOrder /\ NewestOfItsRing
  <2>1. \A c \in Cpus : DOMAIN ring[c] = {}
    BY EmptySeq
  <2> QED
    BY <2>1 DEF Sampling, RingsInOrder, NewestOfItsRing
<1>5. InTheMaps
  BY <1>1 DEF InTheMaps, Absent, Captured
<1> QED
  BY <1>2, <1>3, <1>4, <1>5 DEF Inductive

(***************************************************************************)
(* process_inner_ip.                                                       *)
(***************************************************************************)
LEMMA ArriveLemma ==
  ASSUME Inductive, NEW c \in Cpus, NEW f \in Flows, NEW kind \in Kinds(f), Arrive(c, f, kind)
  PROVE  Inductive'
<1>0. TypeOK /\ WithinLimits /\ Sampling /\ InTheMaps /\ RingsInOrder /\ NewestOfItsRing
  BY DEF Inductive
<1> DEFINE step == FirstStep(f, kind)
<1>1. /\ UNCHANGED <<tls, tracked, ring, reader, stopping, cache, newest, taken, excess>>
      /\ pc[c] = "idle" /\ arrived < MaxPackets /\ arrived' = arrived + 1
      /\ pc' = [pc EXCEPT ![c] = step]
  BY DEF Arrive, maps, readVars
<1>2. /\ step \in {"idle", "output", "mark", "track"}
      /\ step = "output" => f \in Https /\ kind = "hello" /\ tls[f] # Captured
      /\ step = "mark" => f \in Https /\ tls[f] = Absent
  BY DEF FirstStep, AfterTls
<1> HIDE DEF step
<1>3. pc'[c] = step /\ \A d \in Cpus \ {c} : pc'[d] = pc[d]
  BY <1>0, <1>1 DEF TypeOK
<1>4. /\ step = "idle" => pkt'[c] = NoPacket
      /\ step # "idle" => pkt'[c] = [kind |-> kind, flow |-> f, alone |-> \A d2 \in Cpus : ~ SameFlow(d2, f)]
  BY <1>3 DEF Arrive
<1>5. kind \in {"syn", "hello", "data", "udp"}
  BY DEF Kinds
<1>6. step # "idle" =>
        /\ pkt'[c] \in Packets /\ pkt'[c].flow = f /\ pkt'[c].kind = kind
        /\ pkt'[c].alone => \A d \in Cpus : ~ SameFlow(d, f)
  <2> DEFINE free == \A d2 \in Cpus : ~ SameFlow(d2, f)
  <2>1. free \in BOOLEAN
    OBVIOUS
  <2>2. step # "idle" => pkt'[c] = [kind |-> kind, flow |-> f, alone |-> free]
    BY <1>4
  <2> HIDE DEF free
  <2>3. step # "idle" => /\ pkt'[c] \in Packets /\ pkt'[c].flow = f /\ pkt'[c].kind = kind
                         /\ pkt'[c].alone = free
    BY <1>5, <2>1, <2>2 DEF Packets
  <2> QED
    BY <2>1, <2>3 DEF free
<1>7. \A d \in Cpus \ {c} :
        pkt'[d] = IF SameFlow(d, f) THEN [pkt[d] EXCEPT !.alone = FALSE] ELSE pkt[d]
  BY DEF Arrive
<1>8. \A d \in Cpus \ {c} :
        /\ pc[d] = "idle" => pkt'[d] = NoPacket
        /\ pc[d] # "idle" =>
             /\ pkt'[d] \in Packets
             /\ pkt'[d].flow = pkt[d].flow /\ pkt'[d].kind = pkt[d].kind
             /\ pkt'[d].alone => pkt[d].alone /\ pkt[d].flow # f
  <2> SUFFICES ASSUME NEW d \in Cpus \ {c}
               PROVE  /\ pc[d] = "idle" => pkt'[d] = NoPacket
                      /\ pc[d] # "idle" =>
                           /\ pkt'[d] \in Packets
                           /\ pkt'[d].flow = pkt[d].flow /\ pkt'[d].kind = pkt[d].kind
                           /\ pkt'[d].alone => pkt[d].alone /\ pkt[d].flow # f
    OBVIOUS
  <2>1. CASE SameFlow(d, f)
    <3>1. pc[d] # "idle" /\ pkt'[d] = [pkt[d] EXCEPT !.alone = FALSE] /\ pkt[d] \in Packets
      BY <1>0, <1>7, <2>1, PacketLemma DEF SameFlow
    <3> QED
      BY <3>1 DEF Packets
  <2>2. CASE ~ SameFlow(d, f)
    BY <1>0, <1>7, <2>2 DEF SameFlow, TypeOK
  <2> QED
    BY <2>1, <2>2
<1>9. TypeOK'
  <2>1. pkt' \in [Cpus -> Packets \cup {NoPacket}]
    <3>1. DOMAIN pkt' = Cpus /\ pkt' = [d \in Cpus |-> pkt'[d]]
      BY DEF Arrive
    <3>2. \A d \in Cpus : pkt'[d] \in Packets \cup {NoPacket}
      BY <1>4, <1>6, <1>8
    <3> QED
      BY <3>1, <3>2
  <2>2. arrived' \in 0..MaxPackets /\ pc' \in [Cpus -> {"idle", "output", "capture", "mark", "track", "insert"}]
    BY <1>0, <1>1, <1>2, ConstantsLemma DEF TypeOK
  <2>3. \A d \in Cpus : IF pc'[d] = "idle" THEN pkt'[d] = NoPacket ELSE pkt'[d] \in Packets
    BY <1>3, <1>4, <1>6, <1>8
  <2> QED
    BY <1>0, <1>1, <2>1, <2>2, <2>3 DEF TypeOK
<1>10. WithinLimits' /\ RingsInOrder' /\ NewestOfItsRing'
  BY <1>0, <1>1 DEF WithinLimits, KeysOfTls, RingsInOrder, NewestOfItsRing
<1>11. Sampling'
  <2>1. arrived \in Nat /\ taken \in [Cpus -> Nat]
    BY <1>0, ConstantsLemma DEF TypeOK
  <2>2. \A d \in Cpus : taken[d] + (IF pc[d] = "output" THEN 1 ELSE 0) <= arrived
    BY <1>0 DEF Sampling
  <2>3. \A d \in Cpus : taken'[d] + (IF pc'[d] = "output" THEN 1 ELSE 0) <= arrived'
    BY <1>1, <1>3, <2>1, <2>2
  <2>4. \A d \in Cpus : /\ pc'[d] \in {"output", "capture"} => pkt'[d].kind = "hello"
                        /\ pc'[d] \in {"output", "capture", "mark"} => pkt'[d].flow \in Https
    BY <1>0, <1>2, <1>3, <1>6, <1>8 DEF Sampling
  <2> QED
    BY <2>3, <2>4 DEF Sampling
<1>12. InTheMaps'
  <2>1. \A d \in Cpus : pc'[d] = "mark" => excess'.tls[pkt'[d].flow] <= 0
    <3>1. step = "mark" => excess.tls[f] <= 0
      BY <1>0, <1>2 DEF InTheMaps, Absent, Captured
    <3> QED
      BY <1>0, <1>1, <1>3, <1>6, <1>8, <3>1 DEF InTheMaps
  <2>3. ASSUME NEW d \in Cpus, pc'[d] # "idle", pkt'[d].alone
        PROVE  /\ \A b \in Cpus : b # d => ~ (pc'[b] # "idle" /\ pkt'[b].flow = pkt'[d].flow)
               /\ pc'[d] \in {"output", "capture"} => tls'[pkt'[d].flow] # Captured
               /\ pc'[d] = "insert" => pkt'[d].flow \notin tracked'
    <3>1. CASE d = c
      BY <1>1, <1>2, <1>3, <1>6, <1>8, <2>3, <3>1 DEF SameFlow
    <3>2. CASE d # c
      <4>1. pc[d] # "idle" /\ pkt[d].alone /\ pkt[d].flow # f /\ pc'[d] = pc[d] /\ pkt'[d].flow = pkt[d].flow
        BY <1>3, <1>8, <2>3, <3>2
      <4> QED
        BY <1>0, <1>1, <1>3, <1>6, <1>8, <4>1 DEF InTheMaps, SameFlow
    <3> QED
      BY <3>1, <3>2
  <2> QED
    BY <1>0, <1>1, <2>1, <2>3 DEF InTheMaps, SameFlow
<1> QED
  BY <1>9, <1>10, <1>11, <1>12 DEF Inductive

\* A CPU goes on to its next step; nothing changes for the others.
LEMMA GotoLemma ==
  ASSUME TypeOK, NEW c \in Cpus, pc[c] # "idle",
         NEW step \in {"idle", "output", "capture", "mark", "track", "insert"}, Goto(c, step)
  PROVE  /\ pc' \in [Cpus -> {"idle", "output", "capture", "mark", "track", "insert"}]
         /\ pkt' \in [Cpus -> Packets \cup {NoPacket}]
         /\ \A d \in Cpus : IF pc'[d] = "idle" THEN pkt'[d] = NoPacket ELSE pkt'[d] \in Packets
         /\ pc'[c] = step /\ \A d \in Cpus \ {c} : pc'[d] = pc[d]
         /\ \A d \in Cpus : pc'[d] # "idle" => pc[d] # "idle" /\ pkt'[d] = pkt[d]
<1>1. pc' = [pc EXCEPT ![c] = step]
      /\ pkt' = [pkt EXCEPT ![c] = IF step = "idle" THEN NoPacket ELSE @]
  BY DEF Goto
<1>2. pc'[c] = step /\ (\A d \in Cpus \ {c} : pc'[d] = pc[d])
      /\ pc' \in [Cpus -> {"idle", "output", "capture", "mark", "track", "insert"}]
  BY <1>1 DEF TypeOK
<1>3. /\ pkt'[c] = IF step = "idle" THEN NoPacket ELSE pkt[c]
      /\ \A d \in Cpus \ {c} : pkt'[d] = pkt[d]
      /\ pkt' \in [Cpus -> Packets \cup {NoPacket}]
  BY <1>1, PacketLemma DEF TypeOK
<1>4. \A d \in Cpus : pc'[d] # "idle" => pc[d] # "idle" /\ pkt'[d] = pkt[d]
  BY <1>2, <1>3
<1>5. \A d \in Cpus : IF pc'[d] = "idle" THEN pkt'[d] = NoPacket ELSE pkt'[d] \in Packets
  BY <1>2, <1>3 DEF TypeOK
<1> QED
  BY <1>2, <1>3, <1>4, <1>5

LEMMA OutputLemma ==
  ASSUME Inductive, NEW c \in Cpus, Output(c)
  PROVE  Inductive'
<1>0. TypeOK /\ WithinLimits /\ Sampling /\ InTheMaps /\ RingsInOrder /\ NewestOfItsRing
  BY DEF Inductive
<1> DEFINE sample == [flow |-> pkt[c].flow, cpu |-> c, n |-> taken[c] + 1]
<1>1. /\ UNCHANGED <<tls, tracked, reader, stopping, cache, newest, arrived, excess>>
      /\ pc[c] = "output" /\ Goto(c, "capture")
  BY DEF Output, maps, readVars
<1>2. \/ /\ Len(ring[c]) < RingSize
         /\ taken' = [taken EXCEPT ![c] = @ + 1]
         /\ ring' = [ring EXCEPT ![c] = Append(@, sample)]
      \/ ring' = ring /\ taken' = taken
  BY DEF Output
<1>3. /\ taken[c] \in Nat /\ taken[c] + 1 <= arrived /\ arrived \in Nat /\ arrived <= MaxPackets
      /\ taken[c] + 1 \in 1..MaxPackets
  BY <1>0, <1>1, ConstantsLemma DEF Sampling, TypeOK
<1>4. sample \in Samples /\ sample.cpu = c /\ sample.n = taken[c] + 1
  BY <1>0, <1>1, <1>3 DEF Sampling, Samples
<1> HIDE DEF sample
<1>5. /\ pc' \in [Cpus -> {"idle", "output", "capture", "mark", "track", "insert"}]
      /\ pkt' \in [Cpus -> Packets \cup {NoPacket}]
      /\ \A d \in Cpus : IF pc'[d] = "idle" THEN pkt'[d] = NoPacket ELSE pkt'[d] \in Packets
      /\ pc'[c] = "capture" /\ \A d \in Cpus \ {c} : pc'[d] = pc[d]
      /\ \A d \in Cpus : pc'[d] # "idle" => pc[d] # "idle" /\ pkt'[d] = pkt[d]
  BY <1>0, <1>1, GotoLemma
<1>6. ring[c] \in Seq(Samples) /\ Len(ring[c]) \in Nat
  BY <1>0 DEF TypeOK
<1>7. /\ ring' \in [Cpus -> Seq(Samples)] /\ taken' \in [Cpus -> 0..MaxPackets]
      /\ \A d \in Cpus \ {c} : ring'[d] = ring[d] /\ taken'[d] = taken[d]
      /\ \/ /\ Len(ring[c]) < RingSize /\ taken'[c] = taken[c] + 1
            /\ ring'[c] = Append(ring[c], sample)
         \/ ring'[c] = ring[c] /\ taken'[c] = taken[c]
  <2>1. Append(ring[c], sample) \in Seq(Samples)
    BY <1>4, <1>6, AppendProperties
  <2>2. taken[c] + 1 \in 0..MaxPackets
    BY <1>3
  <2>3. CASE /\ Len(ring[c]) < RingSize
             /\ taken' = [taken EXCEPT ![c] = @ + 1]
             /\ ring' = [ring EXCEPT ![c] = Append(@, sample)]
    <3>1. ring' \in [Cpus -> Seq(Samples)] /\ taken' \in [Cpus -> 0..MaxPackets]
      BY <1>0, <2>1, <2>2, <2>3 DEF TypeOK
    <3> QED
      BY <1>0, <2>3, <3>1 DEF TypeOK
  <2>4. CASE ring' = ring /\ taken' = taken
    BY <1>0, <2>4 DEF TypeOK
  <2> QED
    BY <1>2, <2>3, <2>4
<1>8. TypeOK'
  BY <1>0, <1>1, <1>5, <1>7 DEF TypeOK
<1>9. WithinLimits'
  <2>1. Len(ring'[c]) <= RingSize
    BY <1>0, <1>4, <1>6, <1>7, AppendProperties, ConstantsLemma DEF WithinLimits
  <2> QED
    BY <1>0, <1>1, <1>7, <2>1 DEF WithinLimits, KeysOfTls
<1>10. Sampling'
  <2>1. taken'[c] <= arrived
    BY <1>3, <1>7
  <2>2. \A d \in Cpus : pc'[d] # "output" \/ (d # c /\ pc[d] = "output")
    BY <1>5
  <2>3. ASSUME NEW d \in Cpus
        PROVE  taken'[d] + (IF pc'[d] = "output" THEN 1 ELSE 0) <= arrived
    <3>1. CASE d = c
      BY <1>3, <1>5, <1>7, <2>1, <3>1
    <3>2. CASE d # c
      BY <1>0, <1>5, <1>7, <3>2 DEF Sampling
    <3> QED
      BY <3>1, <3>2
  <2>4. \A d \in Cpus : /\ pc'[d] \in {"output", "capture"} => pkt'[d].kind = "hello"
                        /\ pc'[d] \in {"output", "capture", "mark"} => pkt'[d].flow \in Https
    BY <1>0, <1>1, <1>5 DEF Sampling
  <2> QED
    BY <1>1, <2>3, <2>4 DEF Sampling
<1>11. InTheMaps'
  BY <1>0, <1>1, <1>5 DEF InTheMaps, SameFlow
<1>12. \A d \in Cpus : taken[d] \in Nat /\ taken'[d] \in Nat /\ taken[d] <= taken'[d]
  <2>1. \A n \in 0..MaxPackets : n \in Nat /\ n <= n
    BY ConstantsLemma
  <2>2. taken \in [Cpus -> 0..MaxPackets]
    BY <1>0 DEF TypeOK
  <2>3. ASSUME NEW d \in Cpus
        PROVE  taken[d] \in Nat /\ taken'[d] \in Nat /\ taken[d] <= taken'[d]
    <3>1. taken[d] \in 0..MaxPackets /\ taken'[d] \in 0..MaxPackets
      BY <1>7, <2>2
    <3>2. taken[d] \in Nat /\ taken'[d] \in Nat
      BY <2>1, <3>1
    <3>3. taken'[d] = taken[d] \/ taken'[d] = taken[d] + 1
      BY <1>7
    <3> QED
      BY <3>2, <3>3
  <2> QED
    BY <2>3
<1>13. RingsInOrder' /\ NewestOfItsRing'
  <2>1. CASE ring'[c] = ring[c] /\ taken'[c] = taken[c]
    <3>1. \A d \in Cpus : ring'[d] = ring[d] /\ taken'[d] = taken[d]
      BY <1>7, <2>1
    <3> QED
      BY <1>0, <1>1, <3>1 DEF RingsInOrder, NewestOfItsRing
  <2>2. CASE taken'[c] = taken[c] + 1 /\ ring'[c] = Append(ring[c], sample)
    <3> DEFINE k == Len(ring[c])
    <3>1. /\ Len(ring'[c]) = k + 1 /\ ring'[c][k + 1] = sample
          /\ \A i \in 1..k : ring'[c][i] = ring[c][i]
          /\ DOMAIN ring'[c] = 1..k + 1 /\ DOMAIN ring[c] = 1..k /\ k \in Nat
      BY <1>4, <1>6, <2>2, AppendProperties
    <3> HIDE DEF k
    <3>2. \A i \in 1..k : ring[c][i].n \in Nat /\ ring[c][i].n <= taken[c] /\ ring[c][i].cpu = c
      <4>1. \A i \in 1..k : ring[c][i] \in Samples
        BY <1>6, <3>1, ElementOfSeq
      <4> QED
        BY <1>0, <3>1, <4>1, ConstantsLemma DEF RingsInOrder, Samples
    <3>3. \A i \in DOMAIN ring'[c] :
            /\ ring'[c][i].cpu = c /\ ring'[c][i].n <= taken'[c]
            /\ \A j \in DOMAIN ring'[c] : i < j => ring'[c][i].n < ring'[c][j].n
      <4>1. \A i \in 1..k + 1 : i \in 1..k \/ i = k + 1
        BY <3>1
      <4>2. \A i \in 1..k, j \in 1..k : i < j => ring'[c][i].n < ring'[c][j].n
        BY <1>0, <3>1 DEF RingsInOrder
      <4>3. ASSUME NEW i \in 1..k
            PROVE  ring'[c][i].n < ring'[c][k + 1].n
        <5>1. ring'[c][k + 1].n = taken[c] + 1 /\ ring'[c][i] = ring[c][i]
          BY <1>4, <3>1
        <5>2. ring[c][i].n \in Nat /\ ring[c][i].n <= taken[c]
          BY <3>2
        <5> QED
          BY <1>3, <5>1, <5>2
      <4>4. \A i \in 1..k + 1 : ring'[c][i].cpu = c /\ ring'[c][i].n <= taken'[c]
        BY <1>3, <1>4, <2>2, <3>1, <3>2, <4>1
      <4>5. \A i, j \in 1..k + 1 : i < j => i \in 1..k /\ (j \in 1..k \/ j = k + 1)
        BY <3>1
      <4> QED
        BY <3>1, <4>2, <4>3, <4>4, <4>5
    <3>4. \A d \in Cpus, u \in Ues : newest[d][u] \in Nat /\ newest[d][u] <= taken[d]
      BY <1>0, ConstantsLemma DEF TypeOK, RingsInOrder
    <3>5. RingsInOrder'
      <4>1. \A d \in Cpus, u \in Ues : newest[d][u] <= taken'[d]
        BY <1>12, <3>4
      <4>2. ASSUME NEW d \in Cpus, d # c, NEW i \in DOMAIN ring[d]
            PROVE  /\ ring[d][i].cpu = d /\ ring[d][i].n <= taken[d]
                   /\ \A j \in DOMAIN ring[d] : i < j => ring[d][i].n < ring[d][j].n
        BY <1>0 DEF RingsInOrder
      <4> QED
        BY <1>1, <1>7, <3>3, <4>1, <4>2 DEF RingsInOrder
    <3>6. ASSUME NEW u \in Ues, NEW i \in DOMAIN ring'[c]
          PROVE  ring'[c][i].n > newest[c][u]
      <4>1. CASE i \in 1..k
        BY <1>0, <3>1, <4>1 DEF NewestOfItsRing
      <4>2. CASE i = k + 1
        BY <1>3, <1>4, <3>1, <3>4, <4>2
      <4> QED
        BY <3>1, <4>1, <4>2
    <3>7. NewestOfItsRing'
      BY <1>0, <1>1, <1>7, <3>6 DEF NewestOfItsRing
    <3> QED
      BY <3>5, <3>7
  <2> QED
    BY <1>7, <2>1, <2>2
<1> QED
  BY <1>8, <1>9, <1>10, <1>11, <1>13 DEF Inductive

\* The history of a map after a step.
LEMMA NoteLemma ==
  ASSUME TypeOK, NEW m \in {"tls", "tracked"}, NEW done, NEW victims, Note(m, done, victims)
  PROVE  /\ excess' \in [tls : [Flows -> Int], tracked : [Flows -> Int]]
         /\ m = "tls" => excess'.tracked = excess.tracked
         /\ m = "tracked" => excess'.tls = excess.tls
         /\ \A f \in Flows : excess'[m][f] = excess[m][f] + (IF f \in done THEN 1 ELSE 0)
                                                          - (IF f \in victims THEN 1 ELSE 0)
         /\ \A f \in Flows : excess.tls[f] \in Int /\ excess.tracked[f] \in Int
<1> DEFINE new == [f \in Flows |-> excess[m][f] + (IF f \in done THEN 1 ELSE 0)
                                                - (IF f \in victims THEN 1 ELSE 0)]
<1>1. excess \in [tls : [Flows -> Int], tracked : [Flows -> Int]]
  BY DEF TypeOK
<1>2. excess' = [excess EXCEPT ![m] = new]
  BY DEF Note
<1>3. new \in [Flows -> Int]
  <2>1. \A f \in Flows : excess[m][f] \in Int
    BY <1>1
  <2> QED
    BY <2>1
<1>4. \A f \in Flows : new[f] = excess[m][f] + (IF f \in done THEN 1 ELSE 0)
                                             - (IF f \in victims THEN 1 ELSE 0)
  OBVIOUS
<1> HIDE DEF new
<1>5. CASE m = "tls"
  BY <1>1, <1>2, <1>3, <1>4, <1>5
<1>6. CASE m = "tracked"
  BY <1>1, <1>2, <1>3, <1>4, <1>6
<1> QED
  BY <1>5, <1>6

\* What an update of tls_state_map leaves there.
LEMMA SetTlsLemma ==
  ASSUME TypeOK, WithinLimits, NEW f \in Https, NEW state \in {Seen, Captured},
         NEW done \in SUBSET {f}, SetTls(f, state, done)
  PROVE  /\ tls' \in [Https -> {Absent, Seen, Captured}]
         /\ Cardinality(KeysOfTls') <= MaxFlows
         /\ excess' \in [tls : [Flows -> Int], tracked : [Flows -> Int]]
         /\ excess'.tracked = excess.tracked
         /\ \A g \in Flows : excess.tls[g] \in Int
         /\ tls'[f] = state
         /\ excess'.tls[f] = excess.tls[f] + (IF f \in done THEN 1 ELSE 0)
         /\ \A g \in Flows \ {f} :
              \/ excess'.tls[g] = excess.tls[g] /\ (g \in Https => tls'[g] = tls[g])
              \/ excess'.tls[g] = excess.tls[g] - 1 /\ g \in Https /\ tls'[g] = Absent
<1>1. PICK victims \in Evictable(KeysOfTls, f) :
        /\ tls' = [g \in Https |-> IF g = f THEN state ELSE IF g \in victims THEN Absent ELSE tls[g]]
        /\ Note("tls", done, victims)
  BY DEF SetTls
<1>2. victims \subseteq KeysOfTls \ {f} /\ victims \subseteq Https
  BY KeysFinite DEF Evictable
<1>3. f \in Flows /\ KeysOfTls \in SUBSET Flows
  BY ConstantsLemma, KeysFinite
<1>4. tls' \in [Https -> {Absent, Seen, Captured}] /\ tls'[f] = state
      /\ \A g \in Https \ {f} : tls'[g] = IF g \in victims THEN Absent ELSE tls[g]
  BY <1>1 DEF TypeOK
<1>5. Cardinality(KeysOfTls') <= MaxFlows
  <2>1. KeysOfTls' = (KeysOfTls \ victims) \cup {f}
    BY <1>2, <1>4 DEF KeysOfTls, Absent, Seen, Captured
  <2> QED
    BY <1>3, <2>1, EvictLemma DEF WithinLimits
<1>6. /\ excess' \in [tls : [Flows -> Int], tracked : [Flows -> Int]]
      /\ excess'.tracked = excess.tracked
      /\ \A g \in Flows : excess'.tls[g] = excess.tls[g] + (IF g \in done THEN 1 ELSE 0)
                                                         - (IF g \in victims THEN 1 ELSE 0)
      /\ \A g \in Flows : excess.tls[g] \in Int
  BY <1>1, NoteLemma
<1>7. excess'.tls[f] = excess.tls[f] + (IF f \in done THEN 1 ELSE 0)
  BY <1>2, <1>3, <1>6
<1>8. ASSUME NEW g \in Flows \ {f}
      PROVE  \/ excess'.tls[g] = excess.tls[g] /\ (g \in Https => tls'[g] = tls[g])
             \/ excess'.tls[g] = excess.tls[g] - 1 /\ g \in Https /\ tls'[g] = Absent
  BY <1>2, <1>4, <1>6
<1> QED
  BY <1>4, <1>5, <1>6, <1>7, <1>8

LEMMA CaptureLemma ==
  ASSUME Inductive, NEW c \in Cpus, Capture(c)
  PROVE  Inductive'
<1> DEFINE f == pkt[c].flow
<1>0. TypeOK /\ WithinLimits /\ Sampling /\ InTheMaps /\ RingsInOrder /\ NewestOfItsRing
  BY DEF Inductive
<1>1. /\ UNCHANGED <<tracked, ring, reader, stopping, cache, newest, arrived, taken>>
      /\ pc[c] = "capture" /\ SetTls(f, Captured, Alone(c)) /\ Goto(c, "idle")
  BY DEF Capture, readVars
<1>2. f \in Https /\ f \in Flows /\ Alone(c) \in SUBSET {f} /\ (f \in Alone(c) <=> pkt[c].alone)
  BY <1>0, <1>1, ConstantsLemma DEF Sampling, Alone
<1> HIDE DEF f
<1>3. /\ pc' \in [Cpus -> {"idle", "output", "capture", "mark", "track", "insert"}]
      /\ pkt' \in [Cpus -> Packets \cup {NoPacket}]
      /\ \A d \in Cpus : IF pc'[d] = "idle" THEN pkt'[d] = NoPacket ELSE pkt'[d] \in Packets
      /\ pc'[c] = "idle" /\ \A d \in Cpus \ {c} : pc'[d] = pc[d]
      /\ \A d \in Cpus : pc'[d] # "idle" => pc[d] # "idle" /\ pkt'[d] = pkt[d]
  BY <1>0, <1>1, GotoLemma
<1>4. /\ tls' \in [Https -> {Absent, Seen, Captured}]
      /\ Cardinality(KeysOfTls') <= MaxFlows
      /\ excess' \in [tls : [Flows -> Int], tracked : [Flows -> Int]]
      /\ excess'.tracked = excess.tracked
      /\ \A g \in Flows : excess.tls[g] \in Int
      /\ tls'[f] = Captured
      /\ excess'.tls[f] = excess.tls[f] + (IF f \in Alone(c) THEN 1 ELSE 0)
      /\ \A g \in Flows \ {f} :
           \/ excess'.tls[g] = excess.tls[g] /\ (g \in Https => tls'[g] = tls[g])
           \/ excess'.tls[g] = excess.tls[g] - 1 /\ g \in Https /\ tls'[g] = Absent
  BY <1>0, <1>1, <1>2, SetTlsLemma
<1>5. TypeOK'
  BY <1>0, <1>1, <1>3, <1>4 DEF TypeOK
<1>6. WithinLimits' /\ RingsInOrder' /\ NewestOfItsRing'
  BY <1>0, <1>1, <1>4 DEF WithinLimits, RingsInOrder, NewestOfItsRing
<1>7. Sampling'
  BY <1>0, <1>1, <1>3 DEF Sampling
<1>8. pkt[c].alone => tls[f] # Captured /\ \A d \in Cpus : d # c /\ pc[d] # "idle" => pkt[d].flow # f
  BY <1>0, <1>1 DEF InTheMaps, SameFlow, f
<1>9. \A d \in Cpus : pc'[d] # "idle" => d # c /\ pc'[d] = pc[d] /\ pkt'[d] = pkt[d]
  BY <1>3
<1>10. InTheMaps'
  <2>1. ASSUME NEW g \in Flows
        PROVE  excess'.tls[g] <= IF g \in Https /\ tls'[g] = Captured THEN 1 ELSE 0
    <3>1. excess.tls[g] <= IF g \in Https /\ tls[g] = Captured THEN 1 ELSE 0
      BY <1>0 DEF InTheMaps
    <3>2. CASE g = f
      BY <1>2, <1>4, <1>8, <3>1, <3>2
    <3>3. CASE g # f
      BY <1>4, <3>1, <3>3 DEF Absent, Captured
    <3> QED
      BY <3>2, <3>3
  <2>2. \A g \in Flows : excess'.tracked[g] <= IF g \in tracked' THEN 1 ELSE 0
    BY <1>0, <1>1, <1>4 DEF InTheMaps
  <2>3. ASSUME NEW d \in Cpus, pc'[d] = "mark"
        PROVE  excess'.tls[pkt'[d].flow] <= 0
    <3>1. d # c /\ pc[d] = "mark" /\ pkt'[d] = pkt[d] /\ pkt[d].flow \in Flows
      BY <1>0, <1>9, <2>3, PacketLemma
    <3>2. excess.tls[pkt[d].flow] <= 0
      BY <1>0, <3>1 DEF InTheMaps
    <3>3. pkt[d].flow = f => ~ pkt[c].alone
      BY <1>8, <3>1
    <3> QED
      BY <1>2, <1>4, <3>1, <3>2, <3>3
  <2>4. ASSUME NEW d \in Cpus, pc'[d] # "idle", pkt'[d].alone
        PROVE  /\ \A b \in Cpus : b # d => ~ (pc'[b] # "idle" /\ pkt'[b].flow = pkt'[d].flow)
               /\ pc'[d] \in {"output", "capture"} => tls'[pkt'[d].flow] # Captured
               /\ pc'[d] = "insert" => pkt'[d].flow \notin tracked'
    <3>1. d # c /\ pc'[d] = pc[d] /\ pkt'[d] = pkt[d] /\ pkt[d].flow \in Flows
      BY <1>0, <1>9, <2>4, PacketLemma
    <3>2. /\ \A b \in Cpus : b # d => ~ (pc[b] # "idle" /\ pkt[b].flow = pkt[d].flow)
          /\ pc[d] \in {"output", "capture"} => tls[pkt[d].flow] # Captured
          /\ pc[d] = "insert" => pkt[d].flow \notin tracked
      BY <1>0, <2>4, <3>1 DEF InTheMaps, SameFlow
    <3>3. pkt[d].flow # f
      BY <1>1, <3>1, <3>2 DEF f
    <3>4. pc[d] \in {"output", "capture"} => pkt[d].flow \in Https
      BY <1>0 DEF Sampling
    <3> QED
      BY <1>1, <1>4, <1>9, <3>1, <3>2, <3>3, <3>4 DEF Absent, Captured
  <2> QED
    BY <2>1, <2>2, <2>3, <2>4 DEF InTheMaps, SameFlow
<1> QED
  BY <1>5, <1>6, <1>7, <1>10 DEF Inductive

LEMMA MarkLemma ==
  ASSUME Inductive, NEW c \in Cpus, Mark(c)
  PROVE  Inductive'
<1> DEFINE f == pkt[c].flow
           step == AfterTls(pkt[c].kind)
<1>0. TypeOK /\ WithinLimits /\ Sampling /\ InTheMaps /\ RingsInOrder /\ NewestOfItsRing
  BY DEF Inductive
<1>1. /\ UNCHANGED <<tracked, ring, reader, stopping, cache, newest, arrived, taken>>
      /\ pc[c] = "mark" /\ SetTls(f, Seen, {}) /\ Goto(c, step)
  BY DEF Mark, readVars
<1>2. f \in Https /\ f \in Flows /\ step \in {"track", "idle"}
  BY <1>0, <1>1, ConstantsLemma DEF Sampling, AfterTls
<1> HIDE DEF f, step
<1>3. /\ pc' \in [Cpus -> {"idle", "output", "capture", "mark", "track", "insert"}]
      /\ pkt' \in [Cpus -> Packets \cup {NoPacket}]
      /\ \A d \in Cpus : IF pc'[d] = "idle" THEN pkt'[d] = NoPacket ELSE pkt'[d] \in Packets
      /\ pc'[c] = step /\ \A d \in Cpus \ {c} : pc'[d] = pc[d]
      /\ \A d \in Cpus : pc'[d] # "idle" => pc[d] # "idle" /\ pkt'[d] = pkt[d]
  BY <1>0, <1>1, <1>2, GotoLemma
<1>4. /\ tls' \in [Https -> {Absent, Seen, Captured}]
      /\ Cardinality(KeysOfTls') <= MaxFlows
      /\ excess' \in [tls : [Flows -> Int], tracked : [Flows -> Int]]
      /\ excess'.tracked = excess.tracked
      /\ \A g \in Flows : excess.tls[g] \in Int
      /\ tls'[f] = Seen
      /\ excess'.tls[f] = excess.tls[f] + (IF f \in {} THEN 1 ELSE 0)
      /\ \A g \in Flows \ {f} :
           \/ excess'.tls[g] = excess.tls[g] /\ (g \in Https => tls'[g] = tls[g])
           \/ excess'.tls[g] = excess.tls[g] - 1 /\ g \in Https /\ tls'[g] = Absent
  BY <1>0, <1>1, <1>2, SetTlsLemma
<1>5. TypeOK'
  BY <1>0, <1>1, <1>3, <1>4 DEF TypeOK
<1>6. WithinLimits' /\ RingsInOrder' /\ NewestOfItsRing'
  BY <1>0, <1>1, <1>4 DEF WithinLimits, RingsInOrder, NewestOfItsRing
<1>7. Sampling'
  BY <1>0, <1>1, <1>2, <1>3 DEF Sampling
<1>8. excess.tls[f] <= 0 /\ excess'.tls[f] = excess.tls[f]
  BY <1>0, <1>1, <1>2, <1>4 DEF InTheMaps, f
<1>9. \A d \in Cpus : pc'[d] \notin {"idle", "track"} => d # c /\ pc'[d] = pc[d] /\ pkt'[d] = pkt[d]
  BY <1>2, <1>3
<1>10. \A g \in Flows : excess'.tls[g] <= excess.tls[g] /\ excess'.tls[g] \in Int
  BY <1>4, <1>8
<1>11. InTheMaps'
  <2>1. ASSUME NEW g \in Flows
        PROVE  excess'.tls[g] <= IF g \in Https /\ tls'[g] = Captured THEN 1 ELSE 0
    <3>1. excess.tls[g] <= IF g \in Https /\ tls[g] = Captured THEN 1 ELSE 0
      BY <1>0 DEF InTheMaps
    <3>2. CASE g = f
      BY <1>4, <1>8, <3>2 DEF Seen, Captured
    <3>3. CASE g # f
      BY <1>4, <3>1, <3>3 DEF Absent, Captured
    <3> QED
      BY <3>2, <3>3
  <2>2. \A g \in Flows : excess'.tracked[g] <= IF g \in tracked' THEN 1 ELSE 0
    BY <1>0, <1>1, <1>4 DEF InTheMaps
  <2>3. ASSUME NEW d \in Cpus, pc'[d] = "mark"
        PROVE  excess'.tls[pkt'[d].flow] <= 0
    <3>1. pc[d] = "mark" /\ pkt'[d] = pkt[d] /\ pkt[d].flow \in Flows
      BY <1>0, <1>9, <2>3, PacketLemma
    <3>2. excess.tls[pkt[d].flow] <= 0
      BY <1>0, <3>1 DEF InTheMaps
    <3> QED
      BY <1>4, <1>10, <3>1, <3>2
  <2>4. ASSUME NEW d \in Cpus, pc'[d] # "idle", pkt'[d].alone
        PROVE  /\ \A b \in Cpus : b # d => ~ (pc'[b] # "idle" /\ pkt'[b].flow = pkt'[d].flow)
               /\ pc'[d] \in {"output", "capture"} => tls'[pkt'[d].flow] # Captured
               /\ pc'[d] = "insert" => pkt'[d].flow \notin tracked'
    <3>1. pc[d] # "idle" /\ pkt'[d] = pkt[d] /\ pkt[d].flow \in Flows
      BY <1>0, <1>3, <2>4, PacketLemma
    <3>2. /\ \A b \in Cpus : b # d => ~ (pc[b] # "idle" /\ pkt[b].flow = pkt[d].flow)
          /\ pc[d] \in {"output", "capture"} => tls[pkt[d].flow] # Captured
          /\ pc[d] = "insert" => pkt[d].flow \notin tracked
      BY <1>0, <2>4, <3>1 DEF InTheMaps, SameFlow
    <3>3. \A b \in Cpus : b # d => ~ (pc'[b] # "idle" /\ pkt'[b].flow = pkt'[d].flow)
      BY <1>3, <3>1, <3>2
    <3>4. pc[d] \in {"output", "capture"} => pkt[d].flow \in Https
      BY <1>0 DEF Sampling
    <3>5. CASE pc'[d] \in {"output", "capture", "insert"}
      <4>1. pc[d] = pc'[d]
        BY <1>9, <3>5
      <4> QED
        BY <1>1, <1>4, <3>1, <3>2, <3>3, <3>4, <3>5, <4>1 DEF Absent, Captured, Seen
    <3> QED
      BY <3>3, <3>5
  <2> QED
    BY <2>1, <2>2, <2>3, <2>4 DEF InTheMaps, SameFlow
<1> QED
  BY <1>5, <1>6, <1>7, <1>11 DEF Inductive

LEMMA TrackLemma ==
  ASSUME Inductive, NEW c \in Cpus, Track(c)
  PROVE  Inductive'
<1> DEFINE step == IF pkt[c].flow \in tracked THEN "idle" ELSE "insert"
<1>0. TypeOK /\ WithinLimits /\ Sampling /\ InTheMaps /\ RingsInOrder /\ NewestOfItsRing
  BY DEF Inductive
<1>1. /\ UNCHANGED <<tls, tracked, ring, reader, stopping, cache, newest, arrived, taken, excess>>
      /\ pc[c] = "track" /\ Goto(c, step)
  BY DEF Track, maps, readVars
<1>2. step \in {"idle", "insert"} /\ (step = "insert" => pkt[c].flow \notin tracked)
  OBVIOUS
<1> HIDE DEF step
<1>3. /\ pc' \in [Cpus -> {"idle", "output", "capture", "mark", "track", "insert"}]
      /\ pkt' \in [Cpus -> Packets \cup {NoPacket}]
      /\ \A d \in Cpus : IF pc'[d] = "idle" THEN pkt'[d] = NoPacket ELSE pkt'[d] \in Packets
      /\ pc'[c] = step /\ \A d \in Cpus \ {c} : pc'[d] = pc[d]
      /\ \A d \in Cpus : pc'[d] # "idle" => pc[d] # "idle" /\ pkt'[d] = pkt[d]
  BY <1>0, <1>1, <1>2, GotoLemma
<1>4. TypeOK'
  BY <1>0, <1>1, <1>3 DEF TypeOK
<1>5. WithinLimits' /\ RingsInOrder' /\ NewestOfItsRing'
  BY <1>0, <1>1 DEF WithinLimits, KeysOfTls, RingsInOrder, NewestOfItsRing
<1>6. Sampling'
  BY <1>0, <1>1, <1>2, <1>3 DEF Sampling
<1>7. InTheMaps'
  <2>1. ASSUME NEW d \in Cpus, pc'[d] = "mark"
        PROVE  excess'.tls[pkt'[d].flow] <= 0
    BY <1>0, <1>1, <1>2, <1>3, <2>1 DEF InTheMaps
  <2>2. ASSUME NEW d \in Cpus, pc'[d] # "idle", pkt'[d].alone
        PROVE  /\ \A b \in Cpus : b # d => ~ (pc'[b] # "idle" /\ pkt'[b].flow = pkt'[d].flow)
               /\ pc'[d] \in {"output", "capture"} => tls'[pkt'[d].flow] # Captured
               /\ pc'[d] = "insert" => pkt'[d].flow \notin tracked'
    <3>1. pc[d] # "idle" /\ pkt'[d] = pkt[d]
      BY <1>3, <2>2
    <3>2. /\ \A b \in Cpus : b # d => ~ (pc[b] # "idle" /\ pkt[b].flow = pkt[d].flow)
          /\ pc[d] \in {"output", "capture"} => tls[pkt[d].flow] # Captured
          /\ pc[d] = "insert" => pkt[d].flow \notin tracked
      BY <1>0, <2>2, <3>1 DEF InTheMaps, SameFlow
    <3> QED
      BY <1>1, <1>2, <1>3, <3>1, <3>2
  <2> QED
    BY <1>0, <1>1, <2>1, <2>2 DEF InTheMaps, SameFlow
<1> QED
  BY <1>4, <1>5, <1>6, <1>7 DEF Inductive

LEMMA InsertLemma ==
  ASSUME Inductive, NEW c \in Cpus, Insert(c)
  PROVE  Inductive'
<1> DEFINE f == pkt[c].flow
<1>0. TypeOK /\ WithinLimits /\ Sampling /\ InTheMaps /\ RingsInOrder /\ NewestOfItsRing
  BY DEF Inductive
<1>1. /\ UNCHANGED <<tls, ring, reader, stopping, cache, newest, arrived, taken>>
      /\ pc[c] = "insert" /\ Goto(c, "idle")
      /\ \E victims \in Evictable(tracked, f) :
           tracked' = (tracked \ victims) \cup {f} /\ Note("tracked", Alone(c), victims)
  BY DEF Insert, readVars
<1>2. f \in Flows /\ (f \in Alone(c) <=> pkt[c].alone) /\ Alone(c) \subseteq {f}
  BY <1>0, <1>1, PacketLemma DEF Alone
<1>3. pkt[c].alone => f \notin tracked /\ \A d \in Cpus : d # c /\ pc[d] # "idle" => pkt[d].flow # f
  BY <1>0, <1>1 DEF InTheMaps, SameFlow
<1> HIDE DEF f
<1>4. PICK victims \in Evictable(tracked, f) :
        tracked' = (tracked \ victims) \cup {f} /\ Note("tracked", Alone(c), victims)
  BY <1>1
<1>5. victims \subseteq tracked \ {f} /\ tracked \in SUBSET Flows /\ Cardinality(tracked) <= MaxFlows
  BY <1>0 DEF Evictable, TypeOK, WithinLimits, Flows
<1>6. Cardinality(tracked') <= MaxFlows /\ tracked' \subseteq Tcp \cup Udp \cup Https
  BY <1>2, <1>4, <1>5, EvictLemma DEF Flows
<1>7. /\ excess' \in [tls : [Flows -> Int], tracked : [Flows -> Int]]
      /\ excess'.tls = excess.tls
      /\ \A g \in Flows : excess'.tracked[g] = excess.tracked[g] + (IF g \in Alone(c) THEN 1 ELSE 0)
                                                                 - (IF g \in victims THEN 1 ELSE 0)
      /\ \A g \in Flows : excess.tls[g] \in Int /\ excess.tracked[g] \in Int
  <2> DEFINE m == "tracked"
  <2>1. m \in {"tls", "tracked"} /\ Note(m, Alone(c), victims)
    BY <1>4
  <2> QED
    BY <1>0, <2>1, NoteLemma
<1>8. /\ pc' \in [Cpus -> {"idle", "output", "capture", "mark", "track", "insert"}]
      /\ pkt' \in [Cpus -> Packets \cup {NoPacket}]
      /\ \A d \in Cpus : IF pc'[d] = "idle" THEN pkt'[d] = NoPacket ELSE pkt'[d] \in Packets
      /\ pc'[c] = "idle" /\ \A d \in Cpus \ {c} : pc'[d] = pc[d]
      /\ \A d \in Cpus : pc'[d] # "idle" => pc[d] # "idle" /\ pkt'[d] = pkt[d]
  BY <1>0, <1>1, GotoLemma
<1>9. TypeOK'
  BY <1>0, <1>1, <1>6, <1>7, <1>8 DEF TypeOK
<1>10. WithinLimits' /\ RingsInOrder' /\ NewestOfItsRing'
  BY <1>0, <1>1, <1>6 DEF WithinLimits, KeysOfTls, RingsInOrder, NewestOfItsRing
<1>11. Sampling'
  BY <1>0, <1>1, <1>8 DEF Sampling
<1>12. InTheMaps'
  <2>1. ASSUME NEW g \in Flows
        PROVE  excess'.tracked[g] <= IF g \in tracked' THEN 1 ELSE 0
    <3>1. excess.tracked[g] <= IF g \in tracked THEN 1 ELSE 0
      BY <1>0 DEF InTheMaps
    <3>2. CASE g = f
      BY <1>2, <1>3, <1>4, <1>5, <1>7, <3>1, <3>2
    <3>3. CASE g # f
      BY <1>2, <1>4, <1>5, <1>7, <3>1, <3>3
    <3> QED
      BY <3>2, <3>3
  <2>2. \A g \in Flows : excess'.tls[g] <= IF g \in Https /\ tls'[g] = Captured THEN 1 ELSE 0
    BY <1>0, <1>1, <1>7 DEF InTheMaps
  <2>3. \A d \in Cpus : pc'[d] # "idle" => d # c /\ pc'[d] = pc[d] /\ pkt'[d] = pkt[d]
    BY <1>8
  <2>4. ASSUME NEW d \in Cpus, pc'[d] = "mark"
        PROVE  excess'.tls[pkt'[d].flow] <= 0
    BY <1>0, <1>7, <2>3, <2>4 DEF InTheMaps
  <2>5. ASSUME NEW d \in Cpus, pc'[d] # "idle", pkt'[d].alone
        PROVE  /\ \A b \in Cpus : b # d => ~ (pc'[b] # "idle" /\ pkt'[b].flow = pkt'[d].flow)
               /\ pc'[d] \in {"output", "capture"} => tls'[pkt'[d].flow] # Captured
               /\ pc'[d] = "insert" => pkt'[d].flow \notin tracked'
    <3>1. d # c /\ pc'[d] = pc[d] /\ pkt'[d] = pkt[d]
      BY <2>3, <2>5
    <3>2. /\ \A b \in Cpus : b # d => ~ (pc[b] # "idle" /\ pkt[b].flow = pkt[d].flow)
          /\ pc[d] \in {"output", "capture"} => tls[pkt[d].flow] # Captured
          /\ pc[d] = "insert" => pkt[d].flow \notin tracked
      BY <1>0, <2>5, <3>1 DEF InTheMaps, SameFlow
    <3>3. pkt[d].flow # f
      BY <1>1, <3>1, <3>2 DEF f
    <3> QED
      BY <1>1, <1>4, <2>3, <3>1, <3>2, <3>3
  <2> QED
    BY <2>1, <2>2, <2>4, <2>5 DEF InTheMaps, SameFlow
<1> QED
  BY <1>9, <1>10, <1>11, <1>12 DEF Inductive

(***************************************************************************)
(* readLoop.                                                               *)
(***************************************************************************)
LEMMA CheckLemma == Inductive /\ (Check \/ Stop \/ UNCHANGED vars) => Inductive'
<1> SUFFICES ASSUME Inductive, Check \/ Stop \/ UNCHANGED vars
             PROVE  Inductive'
  OBVIOUS
<1>0. TypeOK /\ WithinLimits /\ Sampling /\ InTheMaps /\ RingsInOrder /\ NewestOfItsRing
  BY DEF Inductive
<1>1. UNCHANGED <<tls, tracked, pc, pkt, ring, cache, newest, arrived, taken, excess>>
  BY DEF Check, Stop, vars, maps, cpuVars, readVars
<1>2. reader' \in {"check", "read", "done"}
  BY <1>0 DEF Check, Stop, vars, readVars, TypeOK
<1>3. stopping' \in BOOLEAN
  BY <1>0 DEF Check, Stop, vars, readVars, TypeOK
<1>4. TypeOK'
  BY <1>0, <1>1, <1>2, <1>3 DEF TypeOK
<1>5. WithinLimits' /\ Sampling' /\ RingsInOrder' /\ NewestOfItsRing'
  BY <1>0, <1>1 DEF WithinLimits, KeysOfTls, Sampling, RingsInOrder, NewestOfItsRing
<1>6. InTheMaps'
  BY <1>0, <1>1 DEF InTheMaps, SameFlow
<1> QED
  BY <1>4, <1>5, <1>6 DEF Inductive

\* The head of a ring is the oldest of its samples.
LEMMA ReadLemma ==
  ASSUME Inductive, NEW c \in Cpus, Read(c)
  PROVE  Inductive'
<1> DEFINE sample == Head(ring[c])
           owner == UeOf[sample.flow]
<1>0. TypeOK /\ WithinLimits /\ Sampling /\ InTheMaps /\ RingsInOrder /\ NewestOfItsRing
  BY DEF Inductive
<1>1. /\ UNCHANGED <<tls, tracked, pc, pkt, stopping, arrived, taken, excess>>
      /\ ring[c] # <<>> /\ reader' = "check"
      /\ cache' = [cache EXCEPT ![owner] = sample]
      /\ newest' = [newest EXCEPT ![c][owner] = Larger(newest[c][owner], sample.n)]
      /\ ring' = [ring EXCEPT ![c] = Tail(ring[c])]
  BY DEF Read, Add, maps, cpuVars
<1>2. ring \in [Cpus -> Seq(Samples)] /\ ring[c] \in Seq(Samples)
  BY <1>0 DEF TypeOK
<1> DEFINE k == Len(ring[c])
<1>3. /\ k \in Nat /\ k > 0 /\ DOMAIN ring[c] = 1..k /\ sample = ring[c][1]
      /\ Tail(ring[c]) \in Seq(Samples) /\ Len(Tail(ring[c])) = k - 1
      /\ DOMAIN Tail(ring[c]) = 1..(k - 1)
      /\ \A i \in 1..(k - 1) : Tail(ring[c])[i] = ring[c][i + 1]
  BY <1>1, <1>2, HeadTailProperties
<1>4. sample \in Samples
  BY <1>2, <1>3, ElementOfSeq
<1>5. owner \in Ues /\ sample \in Samples \cup {NoSample} /\ sample # NoSample
      /\ sample.n \in Nat
  BY <1>4, ConstantsLemma DEF Samples, NoSample
<1>6. sample.cpu = c /\ sample.n <= taken[c]
      /\ \A j \in DOMAIN ring[c] : 1 < j => sample.n < ring[c][j].n
  BY <1>0, <1>3 DEF RingsInOrder
<1> HIDE DEF sample, owner
<1>7. cache' \in [Ues -> Samples \cup {NoSample}]
      /\ \A u \in Ues : cache'[u] = IF u = owner THEN sample ELSE cache[u]
  BY <1>0, <1>1, <1>5 DEF TypeOK
<1>a. /\ newest \in [Cpus -> [Ues -> 0..MaxPackets]] /\ sample.n \in 0..MaxPackets
      /\ \A d \in Cpus, u \in Ues : newest[d][u] \in Nat
  BY <1>0, <1>4, ConstantsLemma DEF TypeOK, Samples
<1>b. newest[c][owner] < sample.n
  BY <1>0, <1>3, <1>5 DEF NewestOfItsRing
<1>c. Larger(newest[c][owner], sample.n) = sample.n
  BY <1>5, <1>a, <1>b DEF Larger
<1>d. /\ newest' \in [Cpus -> [Ues -> 0..MaxPackets]]
      /\ newest'[c][owner] = sample.n
      /\ \A d \in Cpus, u \in Ues : d # c \/ u # owner => newest'[d][u] = newest[d][u]
  BY <1>1, <1>5, <1>a, <1>c
<1>8. ring' \in [Cpus -> Seq(Samples)] /\ ring'[c] = Tail(ring[c])
      /\ \A d \in Cpus \ {c} : ring'[d] = ring[d]
  BY <1>1, <1>2, <1>3
<1>9. DOMAIN ring'[c] = 1..(k - 1) /\ Len(ring'[c]) = k - 1
      /\ \A i \in 1..(k - 1) : ring'[c][i] = ring[c][i + 1] /\ i + 1 \in DOMAIN ring[c] /\ 1 < i + 1
  BY <1>3, <1>8
<1> HIDE DEF k
<1>10. TypeOK'
  BY <1>0, <1>1, <1>7, <1>8, <1>d DEF TypeOK
<1>11. WithinLimits'
  <2>1. \A d \in Cpus : Len(ring'[d]) <= RingSize
    <3>1. Len(ring'[c]) <= RingSize
      BY <1>0, <1>3, <1>9, ConstantsLemma DEF WithinLimits, k
    <3> QED
      BY <1>0, <1>8, <3>1 DEF WithinLimits
  <2> QED
    BY <1>0, <1>1, <2>1 DEF WithinLimits, KeysOfTls
<1>12. Sampling' /\ InTheMaps'
  BY <1>0, <1>1 DEF Sampling, InTheMaps, SameFlow
<1>13. RingsInOrder'
  <2>1. ASSUME NEW i \in 1..(k - 1)
        PROVE  /\ ring'[c][i].cpu = c /\ ring'[c][i].n <= taken[c]
               /\ \A j \in 1..(k - 1) : i < j => ring'[c][i].n < ring'[c][j].n
    <3>1. \A j \in 1..(k - 1) : i < j => i + 1 < j + 1
      BY <1>3
    <3> QED
      BY <1>0, <1>9, <3>1 DEF RingsInOrder
  <2>2. ASSUME NEW d \in Cpus, d # c, NEW i \in DOMAIN ring[d]
        PROVE  /\ ring[d][i].cpu = d /\ ring[d][i].n <= taken[d]
               /\ \A j \in DOMAIN ring[d] : i < j => ring[d][i].n < ring[d][j].n
    BY <1>0 DEF RingsInOrder
  <2>3. \A d \in Cpus, u \in Ues : newest'[d][u] <= taken[d]
    BY <1>0, <1>6, <1>d DEF RingsInOrder
  <2>4. ASSUME NEW d \in Cpus, NEW i \in DOMAIN ring'[d]
        PROVE  /\ ring'[d][i].cpu = d /\ ring'[d][i].n <= taken[d]
               /\ \A j \in DOMAIN ring'[d] : i < j => ring'[d][i].n < ring'[d][j].n
    <3>1. CASE d = c
      BY <1>9, <2>1, <2>4, <3>1
    <3>2. CASE d # c
      BY <1>8, <2>2, <2>4, <3>2
    <3> QED
      BY <3>1, <3>2
  <2> QED
    BY <1>1, <2>3, <2>4 DEF RingsInOrder
<1>14. NewestOfItsRing'
  <2>1. ASSUME NEW u \in Ues, NEW d \in Cpus, NEW i \in DOMAIN ring'[d]
        PROVE  ring'[d][i].n > newest'[d][u]
    <3>1. PICK i2 \in DOMAIN ring[d] : ring'[d][i] = ring[d][i2] /\ (d = c => 1 < i2)
      BY <1>8, <1>9, <2>1
    <3>2. CASE d = c /\ u = owner
      <4>1. sample.n < ring[c][i2].n
        BY <1>6, <3>1, <3>2
      <4>2. ring[c][i2].n \in Nat
        <5>1. i2 \in 1..Len(ring[c])
          BY <1>3, <3>1, <3>2 DEF k
        <5>2. ring[c][i2] \in Samples
          BY <1>2, <5>1, ElementOfSeq
        <5> QED
          BY <5>2, ConstantsLemma DEF Samples
      <4> QED
        BY <1>5, <1>d, <3>1, <3>2, <4>1, <4>2
    <3>3. CASE d # c \/ u # owner
      BY <1>0, <1>d, <3>1, <3>3 DEF NewestOfItsRing
    <3> QED
      BY <3>2, <3>3
  <2>2. ASSUME NEW u \in Ues, cache'[u] # NoSample
        PROVE  cache'[u].n = newest'[cache'[u].cpu][u]
    <3>1. CASE u = owner
      BY <1>6, <1>7, <1>d, <3>1
    <3>2. CASE u # owner
      <4>1. cache[u] # NoSample /\ cache[u].cpu \in Cpus
        BY <1>0, <1>7, <2>2, <3>2 DEF TypeOK, Samples
      <4> QED
        BY <1>0, <1>7, <1>d, <3>2, <4>1 DEF NewestOfItsRing
    <3> QED
      BY <3>1, <3>2
  <2>3. ASSUME NEW u \in Ues, NEW d \in Cpus, newest'[d][u] > 0
        PROVE  cache'[u] # NoSample
    <3>1. CASE u = owner
      BY <1>5, <1>7, <3>1
    <3>2. CASE u # owner
      BY <1>0, <1>7, <1>d, <2>3, <3>2 DEF NewestOfItsRing
    <3> QED
      BY <3>1, <3>2
  <2> QED
    BY <2>1, <2>2, <2>3 DEF NewestOfItsRing
<1> QED
  BY <1>10, <1>11, <1>12, <1>13, <1>14 DEF Inductive

LEMMA StepLemma == Inductive /\ [Next]_vars => Inductive'
<1> SUFFICES ASSUME Inductive, [Next]_vars
             PROVE  Inductive'
  OBVIOUS
<1>1. CASE Check \/ Stop \/ UNCHANGED vars
  BY <1>1, CheckLemma
<1>2. ASSUME NEW c \in Cpus, Read(c)
      PROVE  Inductive'
  BY <1>2, ReadLemma
<1>3. ASSUME NEW c \in Cpus, NEW f \in Flows, NEW kind \in Kinds(f), Arrive(c, f, kind)
      PROVE  Inductive'
  BY <1>3, ArriveLemma
<1>4. ASSUME NEW c \in Cpus, Output(c) \/ Capture(c) \/ Mark(c) \/ Track(c) \/ Insert(c)
      PROVE  Inductive'
  BY <1>4, OutputLemma, CaptureLemma, MarkLemma, TrackLemma, InsertLemma
<1> QED
  BY <1>1, <1>2, <1>3, <1>4 DEF Next, Reader, Cpu

\* The type of the state, the limits of the maps and the rings, and what the
\* history, the packets under way and the samples say about them, always hold.
THEOREM InductiveHolds == Spec => []Inductive
<1>1. Init => Inductive
  BY InitLemma
<1>2. Inductive /\ [Next]_vars => Inductive'
  BY StepLemma
<1> QED
  BY <1>1, <1>2, PTL DEF Spec

\* However many CPUs process its packets, a flow is sampled and counted as new
\* once more only for a packet that met another of the flow, or an eviction.
THEOREM OncePerFlowHolds == Spec => []OncePerFlow
<1>1. Inductive => OncePerFlow
  <2> SUFFICES ASSUME Inductive, NEW m \in {"tls", "tracked"}, NEW f \in Flows
               PROVE  excess[m][f] <= 1
    BY DEF OncePerFlow
  <2>1. excess \in [tls : [Flows -> Int], tracked : [Flows -> Int]]
    BY DEF Inductive, TypeOK
  <2>2. excess.tls[f] \in Int /\ excess.tracked[f] \in Int
    BY <2>1
  <2>3. excess.tls[f] <= 1
    BY <2>2 DEF Inductive, InTheMaps
  <2>4. excess.tracked[f] <= 1
    BY <2>2 DEF Inductive, InTheMaps
  <2> QED
    BY <2>3, <2>4
<1> QED
  BY <1>1, InductiveHolds, PTL

\* A UE's sample in the cache is the newest of those that were read from the
\* ring of its CPU, and what is still in that ring is newer, for any number of
\* rings read in any order.
THEOREM NewestOfItsRingHolds == Spec => []NewestOfItsRing
<1>1. Inductive => NewestOfItsRing
  BY DEF Inductive
<1> QED
  BY <1>1, InductiveHolds, PTL

=============================================================================
