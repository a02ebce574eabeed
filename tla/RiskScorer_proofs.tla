------------------------- MODULE RiskScorer_proofs -------------------------
(***************************************************************************)
(* Proofs about RiskScorer, for any number of workers and UEs, any batches *)
(* and any configuration the code accepts, misordered thresholds included. *)
(***************************************************************************)
EXTENDS RiskScorer, FiniteSetTheorems, SequenceTheorems, TLAPS

\* The two steps are natural numbers.
LEMMA StepsLemma == AttackStep \in Nat /\ DecayStep \in Nat
  BY RiskAssumption DEF AttackStep, DecayStep

(***************************************************************************)
(* The configuration: the steps are natural numbers, and the block         *)
(* threshold is within reach of the score.                                 *)
(***************************************************************************)
LEMMA ConfigLemma ==
  ASSUME conf \in Configurations
  PROVE  /\ AttackStep \in Nat /\ DecayStep \in Nat
         /\ BlockThreshold \in 1..MaxScore
         /\ UnblockThreshold \in Nat \ {0}
<1>0. conf.block \in Int /\ conf.unblock \in Int
  BY RiskAssumption
<1>1. AttackStep \in Nat /\ DecayStep \in Nat
  BY StepsLemma
<1>2. BlockThreshold \in 1..MaxScore
  BY <1>0, RiskAssumption DEF BlockThreshold
<1>3. UnblockThreshold \in Nat \ {0}
  BY <1>0, RiskAssumption DEF UnblockThreshold
<1> QED
  BY <1>1, <1>2, <1>3

(***************************************************************************)
(* Thresholds that are not misordered are in order.                        *)
(***************************************************************************)
LEMMA OrderLemma ==
  ASSUME conf \in Configurations, ~ Misordered
  PROVE  UnblockThreshold <= BlockThreshold
<1>1. conf.block \in Int /\ conf.unblock \in Int
  BY RiskAssumption
<1>2. BlockThreshold \in 1..MaxScore
  BY ConfigLemma
<1>3. CASE conf.unblock \in 1..BlockThreshold - 1
  BY <1>1, <1>2, <1>3, RiskAssumption DEF UnblockThreshold
<1>4. CASE conf.unblock \notin 1..BlockThreshold - 1
  <2>1. UnblockThreshold = DefaultUnblock
    BY <1>1, <1>2, <1>4, RiskAssumption DEF UnblockThreshold
  <2>2. ~ (BlockThreshold < DefaultUnblock)
    BY <1>4 DEF Misordered
  <2> QED
    BY <1>2, <2>1, <2>2, RiskAssumption
<1> QED
  BY <1>3, <1>4

\* The thresholds are those the program was started with.
LEMMA SameThresholds ==
  ASSUME conf' = conf
  PROVE  /\ BlockThreshold' = BlockThreshold /\ UnblockThreshold' = UnblockThreshold
         /\ (Misordered' <=> Misordered)
  BY DEF BlockThreshold, UnblockThreshold, Misordered

(***************************************************************************)
(* The passing of time never raises a score, whatever the two clocks say.  *)
(***************************************************************************)
LEMMA LeakLemma ==
  ASSUME NEW s \in 0..MaxScore, NEW delta \in Int
  PROVE  Leak(s, delta) \in 0..s
<1>1. MaxScore \in Nat /\ DecayStep \in Nat
  BY StepsLemma, RiskAssumption
<1>2. CASE delta > 0
  <2> DEFINE d == DecayStep * delta
  <2>1. d \in Int /\ d >= 0
    BY <1>1, <1>2
  <2>2. Leak(s, delta) = IF s > d THEN s - d ELSE 0
    BY <1>2 DEF Leak
  <2> HIDE DEF d
  <2> QED
    BY <1>1, <2>1, <2>2
<1>3. CASE ~ (delta > 0)
  BY <1>1, <1>3 DEF Leak
<1> QED
  BY <1>2, <1>3

(***************************************************************************)
(* An attack adds at most one step and keeps the score below its maximum.  *)
(***************************************************************************)
LEMMA ChargeLemma ==
  ASSUME NEW s \in 0..MaxScore, NEW attack \in BOOLEAN
  PROVE  /\ Charge(s, attack) \in 0..MaxScore
         /\ Charge(s, attack) <= s + AttackStep
         /\ ~ attack => Charge(s, attack) = s
  BY StepsLemma, RiskAssumption DEF Charge

\* One more attack is one more step of credit.
LEMMA OneMoreStep ==
  ASSUME NEW n \in Nat
  PROVE  (n + 1) * AttackStep = n * AttackStep + AttackStep
  BY StepsLemma

-----------------------------------------------------------------------------
\* No UE is known yet, so no score needs to be earned.
LEMMA InitLemma == Init => Inductive
  BY ConfigLemma, RiskAssumption
     DEF Init, Inductive, TypeOK, StatusFitsScore, RiskIsEarned

\* What is left of a work list when its first result is done.
LEMMA TailLemma ==
  ASSUME NEW q \in Seq(Results), Len(q) > 0
  PROVE  /\ Tail(q) \in Seq(Results)
         /\ IF Len(q) = 1 THEN Tail(q) = <<>> ELSE Len(Tail(q)) > 0
<1>1. Len(q) \in Nat /\ q # <<>>
  OBVIOUS
<1>2. Tail(q) \in Seq(Results) /\ Len(Tail(q)) = Len(q) - 1
  BY <1>1
<1> DEFINE n == Len(q)
           m == Len(Tail(q))
<1>3. n \in Nat /\ m = n - 1 /\ n > 0
  BY <1>1, <1>2
<1>5. n = 1 => Tail(q) = <<>>
  <2>1. n = 1 => m = 0
    BY <1>3
  <2>2. m = 0 => Tail(q) = <<>>
    BY <1>2, EmptySeq
  <2> QED
    BY <2>1, <2>2
<1> HIDE DEF n, m
<1>4. n # 1 => m > 0
  BY <1>3
<1> QED
  BY <1>2, <1>4, <1>5 DEF n, m

\* The attack verdicts of a batch are finitely many.
LEMMA AttacksLemma ==
  ASSUME NEW results \in Seq(Results), NEW u
  PROVE  IsFiniteSet(Attacks(results, u)) /\ Cardinality(Attacks(results, u)) \in Nat
<1>1. Len(results) \in Nat
  OBVIOUS
<1>2. IsFiniteSet(0..Len(results) - 1)
  BY <1>1, FS_Interval
<1>3. IsFiniteSet(Attacks(results, u))
  BY <1>2, FS_Subset DEF Attacks
<1> QED
  BY <1>3, FS_CardinalityType

\* Taking a batch moves the clock and the work list of a worker only.
LEMMA BeginStep ==
  ASSUME Inductive, NEW w \in Workers, NEW batch \in Batches, Begin(w, batch)
  PROVE  Inductive'
<1>1. UNCHANGED <<conf, now, known, score, blocked, lastUpdate, attackCount, erased>>
  BY DEF Begin, ueVars
<1>6. /\ BlockThreshold' = BlockThreshold /\ UnblockThreshold' = UnblockThreshold
      /\ (Misordered' <=> Misordered)
  BY <1>1, SameThresholds
<1>2. batch \in Seq(Results) /\ batch # <<>>
  BY RiskAssumption DEF Begin
<1>3. offered' \in [UEs -> Nat]
  BY <1>2, AttacksLemma DEF Begin, Inductive, TypeOK
<1>4. /\ stamp' \in [Workers -> Nat] /\ todo' \in [Workers -> Seq(Results)]
      /\ pc' \in [Workers -> {"idle", "find", "update"}] /\ polls' \in Nat
      /\ \A v \in Workers : IF pc'[v] = "idle" THEN todo'[v] = <<>> ELSE Len(todo'[v]) > 0
  BY <1>2 DEF Begin, Inductive, TypeOK
<1>5. \A v \in Workers : pc'[v] = "update" => Result(v)'.supi \in known'
  BY <1>1 DEF Begin, Inductive, TypeOK, Result
<1> QED
  BY <1>1, <1>3, <1>4, <1>5, <1>6 DEF Inductive, TypeOK, StatusFitsScore, RiskIsEarned

\* The result a busy worker is about to apply.
LEMMA ResultLemma ==
  ASSUME Inductive, NEW w \in Workers, pc[w] # "idle"
  PROVE  /\ Result(w).supi \in UEs /\ Result(w).attack \in BOOLEAN
         /\ stamp[w] \in Nat
<1>1. todo[w] \in Seq(Results) /\ Len(todo[w]) > 0
  BY DEF Inductive, TypeOK
<1>2. Head(todo[w]) \in Results
  BY <1>1
<1> QED
  BY <1>2 DEF Result, Results, Inductive, TypeOK

\* Finding a UE changes nothing; creating one starts it with an empty bucket.
LEMMA FindStep ==
  ASSUME Inductive, NEW w \in Workers, Find(w)
  PROVE  Inductive'
<1> DEFINE u == Result(w).supi
<1>1. /\ pc[w] = "find" /\ pc' = [pc EXCEPT ![w] = "update"]
      /\ UNCHANGED <<conf, now, stamp, todo, polls, offered, erased>>
      /\ FindOrCreate(w)
  BY DEF Find
<1>6. /\ BlockThreshold' = BlockThreshold /\ UnblockThreshold' = UnblockThreshold
      /\ (Misordered' <=> Misordered)
  BY <1>1, SameThresholds
<1>7. conf \in Configurations
  BY DEF Inductive, TypeOK
<1>2. u \in UEs /\ stamp[w] \in Nat
  BY <1>1, ResultLemma
<1>5. ASSUME u \in known'
      PROVE  \A v \in Workers : pc'[v] = "update" => Result(v)'.supi \in known'
  <2>1. known \subseteq known'
    BY <1>1 DEF FindOrCreate, Create, ueVars
  <2> QED
    BY <1>1, <1>5, <2>1 DEF Inductive, TypeOK, Result
<1>3. CASE u \in known
  <2>1. UNCHANGED ueVars
    BY <1>1, <1>3 DEF FindOrCreate
  <2>2. \A v \in Workers : pc'[v] = "update" => Result(v)'.supi \in known'
    BY <1>3, <1>5, <2>1 DEF ueVars
  <2>3. (\A v \in Workers : IF pc[v] = "idle" THEN todo[v] = <<>> ELSE Len(todo[v]) > 0)'
    BY <1>1 DEF Inductive, TypeOK
  <2>4. TypeOK' /\ StatusFitsScore' /\ RiskIsEarned' /\ (\A x \in UEs \ known : attackCount[x] = 0)'
    BY <1>1, <1>6, <2>1 DEF ueVars, Inductive, TypeOK, StatusFitsScore, RiskIsEarned
  <2> QED
    BY <2>2, <2>3, <2>4 DEF Inductive
<1>4. CASE u \notin known
  <2>1. Create(w)
    BY <1>1, <1>4 DEF FindOrCreate
  <2>2. TypeOK'
    BY <1>1, <1>2, <2>1, RiskAssumption DEF Create, Inductive, TypeOK
  <2>3. /\ (\A v \in Workers : IF pc[v] = "idle" THEN todo[v] = <<>> ELSE Len(todo[v]) > 0)'
        /\ (\A x \in UEs \ known : attackCount[x] = 0)'
    BY <1>1, <1>2, <2>1 DEF Create, Inductive, TypeOK
  <2>4. StatusFitsScore'
    BY <1>2, <1>6, <1>7, <2>1, ConfigLemma DEF Create, Inductive, TypeOK, StatusFitsScore
  <2>5. ASSUME NEW x \in UEs
        PROVE  /\ score'[x] <= attackCount'[x] * AttackStep
               /\ blocked'[x] => attackCount'[x] * AttackStep >= BlockThreshold
    BY <1>2, <1>7, <2>1, ConfigLemma DEF Create, Inductive, TypeOK, RiskIsEarned
  <2> QED
    BY <1>5, <1>6, <2>1, <2>2, <2>3, <2>4, <2>5 DEF Create, Inductive, RiskIsEarned
<1> QED
  BY <1>3, <1>4

\* An update keeps the score within what its attacks have charged.
LEMMA UpdateStep ==
  ASSUME Inductive, NEW w \in Workers, Update(w)
  PROVE  Inductive'
<1> DEFINE u == Result(w).supi
           attack == Result(w).attack
           delta == stamp[w] - lastUpdate[u]
           l == Leak(score[u], delta)
           s == Charge(l, attack)
<1>1. /\ pc[w] = "update"
      /\ score' = [score EXCEPT ![u] = s]
      /\ attackCount' = [attackCount EXCEPT ![u] = IF attack THEN @ + 1 ELSE @]
      /\ blocked' = [blocked EXCEPT ![u] = Decide(@, s)]
      /\ lastUpdate' = [lastUpdate EXCEPT ![u] = stamp[w]]
      /\ todo' = [todo EXCEPT ![w] = Tail(@)]
      /\ pc' = [pc EXCEPT ![w] = IF Len(todo[w]) = 1 THEN "idle" ELSE "find"]
      /\ UNCHANGED <<conf, now, known, stamp, polls, offered, erased>>
  BY DEF Update
<1>14. /\ BlockThreshold' = BlockThreshold /\ UnblockThreshold' = UnblockThreshold
       /\ (Misordered' <=> Misordered)
  BY <1>1, SameThresholds
<1>15. conf \in Configurations
  BY DEF Inductive, TypeOK
<1>2. u \in UEs /\ attack \in BOOLEAN /\ stamp[w] \in Nat
  BY <1>1, ResultLemma
<1>3. /\ score[u] \in 0..MaxScore /\ delta \in Int
      /\ attackCount[u] \in Nat /\ blocked[u] \in BOOLEAN
  BY <1>2 DEF Inductive, TypeOK
<1>4. l \in 0..score[u] /\ l \in 0..MaxScore
  <2>1. Leak(score[u], delta) \in 0..score[u]
    BY <1>3, LeakLemma
  <2> HIDE DEF delta, u
  <2> QED
    BY <1>3, <2>1, RiskAssumption
<1>5. /\ s \in 0..MaxScore /\ s <= l + AttackStep
      /\ ~ attack => s = l
  BY <1>2, <1>4, ChargeLemma
<1>6. todo[w] \in Seq(Results) /\ Len(todo[w]) > 0
  BY <1>1 DEF Inductive, TypeOK
<1> HIDE DEF l, s, u, attack, delta
<1>7. Decide(blocked[u], s) \in BOOLEAN
  BY DEF Decide
<1>8. TypeOK'
  <2>1. score' \in [UEs -> 0..MaxScore] /\ blocked' \in [UEs -> BOOLEAN]
    BY <1>1, <1>2, <1>5, <1>7 DEF Inductive, TypeOK
  <2>2. attackCount' \in [UEs -> Nat] /\ lastUpdate' \in [UEs -> Nat]
    BY <1>1, <1>2, <1>3 DEF Inductive, TypeOK
  <2>4. todo' \in [Workers -> Seq(Results)]
    BY <1>1, <1>6, TailLemma DEF Inductive, TypeOK
  <2>5. pc' \in [Workers -> {"idle", "find", "update"}]
    BY <1>1 DEF Inductive, TypeOK
  <2> QED
    BY <1>1, <2>1, <2>2, <2>4, <2>5 DEF Inductive, TypeOK
<1>9. ASSUME NEW v \in Workers
      PROVE  IF pc'[v] = "idle" THEN todo'[v] = <<>> ELSE Len(todo'[v]) > 0
  <2>1. CASE v = w
    <3>1. todo'[w] = Tail(todo[w]) /\ pc'[w] = IF Len(todo[w]) = 1 THEN "idle" ELSE "find"
      BY <1>1 DEF Inductive, TypeOK
    <3>2. IF Len(todo[w]) = 1 THEN Tail(todo[w]) = <<>> ELSE Len(Tail(todo[w])) > 0
      BY <1>6, TailLemma
    <3> QED
      BY <2>1, <3>1, <3>2
  <2>2. CASE v # w
    BY <1>1, <2>2 DEF Inductive, TypeOK
  <2> QED
    BY <2>1, <2>2
<1>10. StatusFitsScore'
  <2> SUFFICES ASSUME ~ Misordered, NEW x \in UEs
               PROVE  IF blocked'[x] THEN score'[x] >= UnblockThreshold
                                     ELSE score'[x] < BlockThreshold
    BY <1>14 DEF StatusFitsScore
  <2>1. IF Decide(blocked[u], s) THEN s >= UnblockThreshold ELSE s < BlockThreshold
    <3>1. UnblockThreshold <= BlockThreshold
      BY <1>15, OrderLemma
    <3> QED
      BY <1>3, <1>5, <1>15, <3>1, ConfigLemma, RiskAssumption DEF Decide
  <2>2. x # u => score'[x] = score[x] /\ blocked'[x] = blocked[x]
    BY <1>1 DEF Inductive, TypeOK
  <2>3. score'[u] = s /\ blocked'[u] = Decide(blocked[u], s)
    BY <1>1, <1>2 DEF Inductive, TypeOK
  <2>4. CASE x = u
    BY <2>1, <2>3, <2>4
  <2>5. CASE x # u
    BY <2>2, <2>5 DEF Inductive, StatusFitsScore
  <2> QED
    BY <2>4, <2>5
<1>11. RiskIsEarned'
  <2> DEFINE n == attackCount[u]
             m == attackCount'[u]
  <2>1. m = IF attack THEN n + 1 ELSE n
    BY <1>1, <1>2 DEF Inductive, TypeOK
  <2>2. score[u] <= n * AttackStep /\ (blocked[u] => n * AttackStep >= BlockThreshold)
    BY <1>2 DEF Inductive, RiskIsEarned
  <2>3. (n + 1) * AttackStep = n * AttackStep + AttackStep
    BY <1>3, OneMoreStep
  <2>4. n * AttackStep \in Nat /\ m * AttackStep \in Nat
    BY <1>3, <1>15, <2>1, ConfigLemma
  <2>5. s <= m * AttackStep /\ n * AttackStep <= m * AttackStep
    <3>1. PICK a \in Nat, b \in Nat : a = n * AttackStep /\ b = m * AttackStep
      BY <2>4
    <3>2. b = IF attack THEN a + AttackStep ELSE a
      BY <2>1, <2>3, <3>1
    <3>3. score[u] <= a
      BY <2>2, <3>1
    <3>4. s <= b /\ a <= b
      <4>1. /\ s \in Nat /\ l \in Nat /\ AttackStep \in Nat /\ score[u] \in Nat
            /\ l <= score[u] /\ s <= l + AttackStep /\ (~ attack => s = l)
        BY <1>3, <1>4, <1>5, StepsLemma, RiskAssumption
      <4>2. l <= a
        BY <3>1, <3>3, <4>1
      <4>3. CASE attack
        BY <3>1, <3>2, <4>1, <4>2, <4>3
      <4>4. CASE ~ attack
        BY <3>1, <3>2, <4>1, <4>2, <4>4
      <4> QED
        BY <4>3, <4>4
    <3> QED
      BY <3>1, <3>4
  <2>6. Decide(blocked[u], s) => m * AttackStep >= BlockThreshold
    <3>1. PICK a \in Nat, b \in Nat : a = n * AttackStep /\ b = m * AttackStep
      BY <2>4
    <3>2. a <= b /\ s <= b /\ (blocked[u] => a >= BlockThreshold)
      BY <2>2, <2>5, <3>1
    <3>3. s \in Nat /\ BlockThreshold \in Nat
      BY <1>5, <1>15, ConfigLemma, RiskAssumption
    <3>4. Decide(blocked[u], s) => b >= BlockThreshold
      BY <3>2, <3>3 DEF Decide
    <3> QED
      BY <3>1, <3>4
  <2>7. score'[u] = s /\ blocked'[u] = Decide(blocked[u], s)
    BY <1>1, <1>2 DEF Inductive, TypeOK
  <2>8. \A x \in UEs : x # u => /\ score'[x] = score[x] /\ blocked'[x] = blocked[x]
                                /\ attackCount'[x] = attackCount[x]
    BY <1>1 DEF Inductive, TypeOK
  <2>9. \A x \in UEs : x # u =>
           /\ score'[x] <= attackCount'[x] * AttackStep
           /\ blocked'[x] => attackCount'[x] * AttackStep >= BlockThreshold
    BY <2>8 DEF Inductive, RiskIsEarned
  <2> QED
    BY <1>14, <2>5, <2>6, <2>7, <2>9 DEF RiskIsEarned
<1>12. \A v \in Workers : pc'[v] = "update" => Result(v)'.supi \in known'
  BY <1>1 DEF Inductive, TypeOK, Result
<1>13. u \in known /\ \A x \in UEs \ known' : attackCount'[x] = 0
  BY <1>1, <1>2 DEF Inductive, TypeOK, u
<1> QED
  BY <1>8, <1>9, <1>10, <1>11, <1>12, <1>13 DEF Inductive

\* A reset UE has an empty bucket.
LEMMA ResetStep ==
  ASSUME Inductive, NEW u \in UEs, Reset(u)
  PROVE  Inductive'
<1>1. UNCHANGED <<conf, now, known, pc, stamp, todo, polls, offered>>
  BY DEF Reset, workVars
<1>6. /\ BlockThreshold' = BlockThreshold /\ UnblockThreshold' = UnblockThreshold
      /\ (Misordered' <=> Misordered)
  BY <1>1, SameThresholds
<1>7. conf \in Configurations
  BY DEF Inductive, TypeOK
<1>2. TypeOK'
  <2>1. 0 \in 0..MaxScore
    BY RiskAssumption
  <2>2. score' \in [UEs -> 0..MaxScore] /\ blocked' \in [UEs -> BOOLEAN]
    BY <2>1 DEF Reset, Inductive, TypeOK
  <2>3. lastUpdate' \in [UEs -> Nat] /\ attackCount' \in [UEs -> Nat]
    BY DEF Reset, Inductive, TypeOK
  <2>4. erased[u] + attackCount[u] \in Nat
    BY DEF Inductive, TypeOK
  <2>5. erased' \in [UEs -> Nat]
    BY <2>4 DEF Reset, Inductive, TypeOK
  <2> QED
    BY <1>1, <2>2, <2>3, <2>5 DEF Inductive, TypeOK
<1>3. StatusFitsScore'
  BY <1>6, <1>7, ConfigLemma DEF Reset, Inductive, TypeOK, StatusFitsScore
<1>4. ASSUME NEW x \in UEs
      PROVE  /\ score'[x] <= attackCount'[x] * AttackStep
             /\ blocked'[x] => attackCount'[x] * AttackStep >= BlockThreshold
  BY <1>7, ConfigLemma DEF Reset, Inductive, TypeOK, RiskIsEarned
<1>5. /\ \A v \in Workers : pc'[v] = "update" => Result(v)'.supi \in known'
      /\ \A x \in UEs \ known' : attackCount'[x] = 0
  BY <1>1 DEF Reset, Inductive, TypeOK, Result
<1> QED
  BY <1>1, <1>2, <1>3, <1>4, <1>5, <1>6 DEF Inductive, RiskIsEarned

\* The clock, and steps that change nothing.
LEMMA TickStep == Inductive /\ (Tick \/ UNCHANGED vars) => Inductive'
<1> SUFFICES ASSUME Inductive, Tick \/ UNCHANGED vars
             PROVE  Inductive'
  OBVIOUS
<1>1. /\ UNCHANGED <<conf, ueVars, workVars, erased>>
      /\ now' \in Nat
  BY DEF Tick, vars, Inductive, TypeOK
<1>2. /\ BlockThreshold' = BlockThreshold /\ UnblockThreshold' = UnblockThreshold
      /\ (Misordered' <=> Misordered)
  BY <1>1, SameThresholds
<1> QED
  BY <1>1, <1>2 DEF ueVars, workVars, Inductive, TypeOK, StatusFitsScore, RiskIsEarned, Result

(***************************************************************************)
(* In every reachable state the risk of each UE is earned and, unless the  *)
(* thresholds are misordered, its status fits its score.                   *)
(***************************************************************************)
THEOREM InductiveHolds == Spec => []Inductive
<1>1. Inductive /\ [Next]_vars => Inductive'
  BY BeginStep, FindStep, UpdateStep, ResetStep, TickStep DEF Next
<1> QED
  BY InitLemma, <1>1, PTL DEF Spec

(***************************************************************************)
(* No UE is BLOCKED on fewer attacks than fill its bucket to the block     *)
(* threshold, whatever the interleaving of the batches.                    *)
(***************************************************************************)
THEOREM RiskIsEarnedHolds == Spec => []RiskIsEarned
<1>1. Inductive => RiskIsEarned
  BY DEF Inductive
<1> QED
  BY <1>1, InductiveHolds, PTL

(***************************************************************************)
(* There is no flapping unless the thresholds are misordered: what Decide  *)
(* keeps, it keeps again for the same score, because the status fitted the *)
(* score before.                                                           *)
(***************************************************************************)
THEOREM NoFlappingHolds == Spec => NoFlapping
<1> DEFINE Kept == ~ Misordered =>
             \A u \in UEs : score'[u] = score[u] /\ attackCount'[u] = attackCount[u]
                               => blocked'[u] = blocked[u]
<1>1. Inductive /\ [Next]_vars => [Kept]_vars
  <2> SUFFICES ASSUME Inductive, Next, ~ Misordered, NEW u \in UEs,
                      score'[u] = score[u], attackCount'[u] = attackCount[u]
               PROVE  blocked'[u] = blocked[u]
    OBVIOUS
  <2>0. /\ IF blocked[u] THEN score[u] >= UnblockThreshold ELSE score[u] < BlockThreshold
        /\ blocked[u] \in BOOLEAN /\ score[u] \in 0..MaxScore /\ conf \in Configurations
    BY DEF Inductive, StatusFitsScore, TypeOK
  <2>1. CASE Tick
    BY <2>1 DEF Tick, ueVars
  <2>2. ASSUME NEW w \in Workers, NEW batch \in Batches, Begin(w, batch)
        PROVE  blocked'[u] = blocked[u]
    BY <2>2 DEF Begin, ueVars
  <2>3. ASSUME NEW w \in Workers, Find(w)
        PROVE  blocked'[u] = blocked[u]
    <3>1. CASE UNCHANGED ueVars
      BY <3>1 DEF ueVars
    <3>2. CASE Create(w)
      <4>1. CASE u # Result(w).supi
        BY <3>2, <4>1 DEF Create, Inductive, TypeOK
      <4>2. CASE u = Result(w).supi
        <5>1. score[u] = 0 /\ blocked'[u] = FALSE
          BY <3>2, <4>2 DEF Create, Inductive, TypeOK
        <5>2. ~ blocked[u]
          BY <2>0, <5>1, ConfigLemma
        <5> QED
          BY <2>0, <5>1, <5>2
      <4> QED
        BY <4>1, <4>2
    <3> QED
      BY <2>3, <3>1, <3>2 DEF Find, FindOrCreate
  <2>4. ASSUME NEW w \in Workers, Update(w)
        PROVE  blocked'[u] = blocked[u]
    <3>1. CASE u # Result(w).supi
      BY <2>4, <3>1 DEF Update, Inductive, TypeOK
    <3>2. CASE u = Result(w).supi
      <4>1. blocked'[u] = Decide(blocked[u], score'[u])
        BY <2>4, <3>2 DEF Update, Inductive, TypeOK
      <4>2. CASE blocked[u] = TRUE
        <5>1. score'[u] >= UnblockThreshold
          BY <2>0, <4>2
        <5>2. Decide(TRUE, score'[u])
          BY <2>0, <5>1, ConfigLemma DEF Decide
        <5>3. Decide(TRUE, score'[u]) \in BOOLEAN
          BY DEF Decide
        <5> QED
          BY <4>1, <4>2, <5>2, <5>3
      <4>3. CASE blocked[u] = FALSE
        <5>1. score'[u] < BlockThreshold
          BY <2>0, <4>3
        <5>2. ~ Decide(FALSE, score'[u])
          BY <2>0, <5>1, ConfigLemma DEF Decide
        <5>3. Decide(FALSE, score'[u]) \in BOOLEAN
          BY DEF Decide
        <5> QED
          BY <4>1, <4>3, <5>2, <5>3
      <4> QED
        BY <2>0, <4>2, <4>3
    <3> QED
      BY <3>1, <3>2
  <2>5. ASSUME NEW x \in UEs, Reset(x)
        PROVE  blocked'[u] = blocked[u]
    <3>1. CASE u # x
      BY <2>5, <3>1 DEF Reset, Inductive, TypeOK
    <3>2. CASE u = x
      <4>1. score[u] = 0 /\ blocked'[u] = FALSE
        BY <2>5, <3>2 DEF Reset, Inductive, TypeOK
      <4>2. ~ blocked[u]
        BY <2>0, <4>1, ConfigLemma
      <4> QED
        BY <2>0, <4>1, <4>2
    <3> QED
      BY <3>1, <3>2
  <2> QED
    BY <2>1, <2>2, <2>3, <2>4, <2>5 DEF Next
<1> QED
  BY <1>1, InductiveHolds, PTL DEF Spec, NoFlapping

(***************************************************************************)
(* Every attack counts.  This does not depend on the thresholds, so it is  *)
(* proved from an invariant of its own.                                    *)
(***************************************************************************)
Counting ==
  /\ known \subseteq UEs
  /\ attackCount \in [UEs -> Nat] /\ offered \in [UEs -> Nat] /\ erased \in [UEs -> Nat]
  /\ pc \in [Workers -> {"idle", "find", "update"}]
  /\ todo \in [Workers -> Seq(Results)]
  /\ \A w \in Workers : IF pc[w] = "idle" THEN todo[w] = <<>> ELSE Len(todo[w]) > 0
  /\ \A w \in Workers : pc[w] = "update" => Result(w).supi \in known
  /\ \A u \in UEs \ known : attackCount[u] = 0
  /\ EveryAttackCounts

\* Finitely many results wait, whatever the workers' lists.
LEMMA WaitingFinite ==
  ASSUME NEW lists \in [Workers -> Seq(Results)], NEW u
  PROVE  LET all == UNION {{w} \X Attacks(lists[w], u) : w \in Workers}
         IN  IsFiniteSet(all) /\ Cardinality(all) \in Nat
<1> DEFINE parts == {{w} \X Attacks(lists[w], u) : w \in Workers}
           f == [w \in Workers |-> {w} \X Attacks(lists[w], u)]
<1>1. IsFiniteSet(parts)
  <2>1. f \in Surjection(Workers, parts)
    BY DEF Surjection
  <2> QED
    BY <2>1, RiskAssumption, FS_Surjection
<1>2. \A p \in parts : IsFiniteSet(p)
  <2> SUFFICES ASSUME NEW w \in Workers
               PROVE  IsFiniteSet({w} \X Attacks(lists[w], u))
    OBVIOUS
  <2>1. IsFiniteSet({w}) /\ IsFiniteSet(Attacks(lists[w], u))
    BY AttacksLemma, FS_Singleton
  <2> QED
    BY <2>1, FS_Product
<1>3. IsFiniteSet(UNION parts)
  BY <1>1, <1>2, FS_UNION
<1> QED
  BY <1>3, FS_CardinalityType

LEMMA UnappliedFinite ==
  ASSUME todo \in [Workers -> Seq(Results)], NEW u \in UEs
  PROVE  IsFiniteSet(Unapplied(u)) /\ Cardinality(Unapplied(u)) \in Nat
  BY WaitingFinite DEF Unapplied

\* A batch that an idle worker takes adds its attacks.
LEMMA UnappliedBegin ==
  ASSUME Counting, NEW w \in Workers, NEW batch \in Batches, Begin(w, batch), NEW u \in UEs
  PROVE  Cardinality(Unapplied(u)') = Cardinality(Unapplied(u)) + Cardinality(Attacks(batch, u))
<1> DEFINE new == {w} \X Attacks(batch, u)
<1>1. batch \in Seq(Results)
  BY RiskAssumption
<1>2. todo[w] = <<>> /\ todo' = [todo EXCEPT ![w] = batch] /\ todo \in [Workers -> Seq(Results)]
  BY DEF Counting, Begin
<1>3. Attacks(todo[w], u) = {}
  <2>1. Len(todo[w]) = 0
    BY <1>2
  <2> QED
    BY <2>1 DEF Attacks
<1>4. todo'[w] = batch /\ \A v \in Workers \ {w} : todo'[v] = todo[v]
  BY <1>2
<1>5. Unapplied(u)' = Unapplied(u) \cup new
  <2>1. Unapplied(u)' = UNION {{v} \X Attacks(todo'[v], u) : v \in Workers}
    BY DEF Unapplied
  <2> QED
    BY <1>3, <1>4, <2>1 DEF Unapplied
<1>6. Unapplied(u) \cap new = {}
  BY <1>3 DEF Unapplied
<1>7. IsFiniteSet(new) /\ Cardinality(new) = Cardinality(Attacks(batch, u))
  <2>1. IsFiniteSet({w}) /\ Cardinality({w}) = 1
    BY FS_Singleton
  <2>2. Cardinality(new) = Cardinality({w}) * Cardinality(Attacks(batch, u)) /\ IsFiniteSet(new)
    BY <1>1, <2>1, AttacksLemma, FS_Product
  <2>3. 1 * Cardinality(Attacks(batch, u)) = Cardinality(Attacks(batch, u))
    BY <1>1, AttacksLemma
  <2> QED
    BY <2>1, <2>2, <2>3
<1>8. Cardinality(Unapplied(u) \cap new) = 0
  BY <1>6, FS_EmptySet
<1>9. IsFiniteSet(Unapplied(u)) /\ Cardinality(Unapplied(u)) \in Nat
  BY <1>2, UnappliedFinite
<1> HIDE DEF new
<1>10. Cardinality(Unapplied(u) \cup new)
         = Cardinality(Unapplied(u)) + Cardinality(new) - Cardinality(Unapplied(u) \cap new)
  BY <1>7, <1>9, FS_Union
<1> QED
  BY <1>1, <1>5, <1>7, <1>8, <1>9, <1>10, AttacksLemma

\* An update applies the first result of its worker, and no other.
LEMMA UnappliedUpdate ==
  ASSUME Counting, NEW w \in Workers, Update(w), NEW u \in UEs
  PROVE  Cardinality(Unapplied(u))
           = Cardinality(Unapplied(u)') + IF Result(w).supi = u /\ Result(w).attack THEN 1 ELSE 0
<1> DEFINE q == todo[w]
           n == Len(todo[w])
           first == <<w, n - 1>>
           verdict == [supi |-> u, attack |-> TRUE]
<1>1. q \in Seq(Results) /\ n \in Nat /\ n > 0 /\ todo' = [todo EXCEPT ![w] = Tail(q)]
      /\ todo \in [Workers -> Seq(Results)]
  BY DEF Counting, Update
<1>2. todo'[w] = Tail(q) /\ \A v \in Workers \ {w} : todo'[v] = todo[v]
  BY <1>1
<1>3. Len(Tail(q)) = n - 1 /\ \A i \in 1..n - 1 : Tail(q)[i] = q[i + 1]
  BY <1>1, HeadTailProperties
<1>4. q[1] = Result(w) /\ Result(w) \in Results
  BY <1>1 DEF Result
<1>5. Attacks(Tail(q), u) = Attacks(q, u) \ {n - 1}
  <2>1. \A k \in 0..n - 2 : Tail(q)[n - 1 - k] = q[n - k]
    BY <1>1, <1>3
  <2> HIDE DEF q, n
  <2>2. Attacks(q, u) = {k \in 0..n - 1 : q[n - k] = verdict}
    BY DEF Attacks, q, n
  <2>3. Attacks(Tail(q), u) = {k \in 0..n - 2 : Tail(q)[n - 1 - k] = verdict}
    BY <1>1, <1>3 DEF Attacks
  <2>4. 0..n - 2 = (0..n - 1) \ {n - 1}
    BY <1>1
  <2> QED
    BY <2>1, <2>2, <2>3, <2>4
<1>6. n - 1 \in Attacks(q, u) <=> Result(w) = verdict
  <2>1. n - (n - 1) = 1 /\ n - 1 \in 0..n - 1
    BY <1>1
  <2> QED
    BY <1>4, <2>1 DEF Attacks
<1>7. Result(w) = verdict <=> Result(w).supi = u /\ Result(w).attack
  <2>1. \A r \in Results : r.supi = u /\ r.attack => r = verdict
    BY DEF Results
  <2> QED
    BY <1>4, <2>1
<1> HIDE DEF q, n, verdict
<1>8. Unapplied(u)' = Unapplied(u) \ {first}
  <2>1. Unapplied(u)' = UNION {{v} \X Attacks(todo'[v], u) : v \in Workers}
    BY DEF Unapplied
  <2>2. Unapplied(u) = UNION {{v} \X Attacks(todo[v], u) : v \in Workers}
    BY DEF Unapplied
  <2> QED
    BY <1>2, <1>5, <2>1, <2>2 DEF q
<1>9. first \in Unapplied(u) <=> n - 1 \in Attacks(q, u)
  BY DEF Unapplied, q
<1>10. IsFiniteSet(Unapplied(u)) /\ Cardinality(Unapplied(u)) \in Nat
  BY <1>1, UnappliedFinite
<1> HIDE DEF first
<1>11. CASE first \in Unapplied(u)
  <2>1. Cardinality(Unapplied(u)') = Cardinality(Unapplied(u)) - 1
    BY <1>8, <1>10, <1>11, FS_RemoveElement
  <2> QED
    BY <1>6, <1>7, <1>9, <1>10, <1>11, <2>1
<1>12. CASE first \notin Unapplied(u)
  <2>1. Unapplied(u)' = Unapplied(u)
    BY <1>8, <1>12
  <2> QED
    BY <1>6, <1>7, <1>9, <1>10, <1>12, <2>1
<1> QED
  BY <1>11, <1>12

LEMMA CountingInit == Init => Counting
<1> SUFFICES ASSUME Init
             PROVE  Counting
  OBVIOUS
<1> USE DEF Init
<1>1. ASSUME NEW u \in UEs
      PROVE  Cardinality(Unapplied(u)) = 0
  <2>1. \A w \in Workers : Attacks(todo[w], u) = {}
    <3>1. Len(<<>>) = 0
      BY EmptySeq
    <3> QED
      BY <3>1 DEF Attacks
  <2>2. Unapplied(u) = {}
    BY <2>1 DEF Unapplied
  <2> QED
    BY <2>2, FS_EmptySet
<1>2. EveryAttackCounts
  BY <1>1 DEF EveryAttackCounts
<1> QED
  BY <1>2 DEF Counting

LEMMA CountingStep == Counting /\ [Next]_vars => Counting'
<1> SUFFICES ASSUME Counting, [Next]_vars
             PROVE  Counting'
  OBVIOUS
<1>0. \A u \in UEs : /\ attackCount[u] \in Nat /\ erased[u] \in Nat /\ offered[u] \in Nat
                     /\ Cardinality(Unapplied(u)) \in Nat
                     /\ attackCount[u] + erased[u] + Cardinality(Unapplied(u)) = offered[u]
  BY UnappliedFinite DEF Counting, EveryAttackCounts
<1>1. CASE Tick \/ UNCHANGED vars
  <2>1. UNCHANGED <<known, attackCount, offered, erased, pc, todo>>
    BY <1>1 DEF Tick, vars, ueVars, workVars
  <2>2. \A u \in UEs : Unapplied(u)' = Unapplied(u)
    BY <2>1 DEF Unapplied
  <2> QED
    BY <2>1, <2>2 DEF Counting, EveryAttackCounts, Result
<1>2. ASSUME NEW w \in Workers, NEW batch \in Batches, Begin(w, batch)
      PROVE  Counting'
  <2>1. /\ UNCHANGED <<known, attackCount, erased>>
        /\ pc' = [pc EXCEPT ![w] = "find"] /\ todo' = [todo EXCEPT ![w] = batch]
        /\ offered' = [u \in UEs |-> offered[u] + Cardinality(Attacks(batch, u))]
        /\ batch \in Seq(Results) /\ batch # <<>>
    BY <1>2, RiskAssumption DEF Begin, ueVars
  <2>2. \A u \in UEs : Cardinality(Attacks(batch, u)) \in Nat
    BY <2>1, AttacksLemma
  <2>3. \A u \in UEs : Cardinality(Unapplied(u)') = Cardinality(Unapplied(u)) + Cardinality(Attacks(batch, u))
    BY <1>2, UnappliedBegin
  <2>4. EveryAttackCounts'
    BY <1>0, <2>1, <2>2, <2>3 DEF EveryAttackCounts
  <2>5. offered' \in [UEs -> Nat]
    BY <1>0, <2>1, <2>2
  <2>6. /\ pc' \in [Workers -> {"idle", "find", "update"}] /\ todo' \in [Workers -> Seq(Results)]
        /\ \A v \in Workers : IF pc'[v] = "idle" THEN todo'[v] = <<>> ELSE Len(todo'[v]) > 0
        /\ \A v \in Workers : pc'[v] = "update" => Result(v)'.supi \in known'
    BY <2>1 DEF Counting, Result
  <2> QED
    BY <2>1, <2>4, <2>5, <2>6 DEF Counting
<1>3. ASSUME NEW w \in Workers, Find(w)
      PROVE  Counting'
  <2> DEFINE x == Result(w).supi
  <2>1. /\ UNCHANGED <<todo, offered, erased>> /\ pc[w] = "find"
        /\ pc' = [pc EXCEPT ![w] = "update"] /\ FindOrCreate(w)
    BY <1>3 DEF Find
  <2>2. x \in UEs
    <3>1. todo[w] \in Seq(Results) /\ Len(todo[w]) > 0
      BY <2>1 DEF Counting
    <3>2. Head(todo[w]) \in Results
      BY <3>1
    <3> QED
      BY <3>2 DEF Result, Results
  <2> HIDE DEF x
  <2>3. attackCount' = attackCount /\ known' = known \cup {x}
    <3>1. CASE x \in known
      BY <2>1, <3>1 DEF FindOrCreate, ueVars, x
    <3>2. CASE x \notin known
      <4>1. attackCount' = [attackCount EXCEPT ![x] = 0] /\ known' = known \cup {x}
        BY <2>1, <3>2 DEF FindOrCreate, Create, x
      <4>2. attackCount[x] = 0 /\ attackCount \in [UEs -> Nat]
        BY <2>2, <3>2 DEF Counting
      <4> QED
        BY <4>1, <4>2
    <3> QED
      BY <3>1, <3>2
  <2>4. \A u \in UEs : Unapplied(u)' = Unapplied(u)
    BY <2>1 DEF Unapplied
  <2>5. EveryAttackCounts'
    BY <2>1, <2>3, <2>4 DEF Counting, EveryAttackCounts
  <2>6. /\ pc' \in [Workers -> {"idle", "find", "update"}]
        /\ \A v \in Workers : IF pc'[v] = "idle" THEN todo'[v] = <<>> ELSE Len(todo'[v]) > 0
    BY <2>1 DEF Counting
  <2>7. \A v \in Workers : pc'[v] = "update" => Result(v)'.supi \in known'
    BY <2>1, <2>3 DEF Counting, Result, x
  <2> QED
    BY <2>1, <2>2, <2>3, <2>5, <2>6, <2>7 DEF Counting
<1>4. ASSUME NEW w \in Workers, Update(w)
      PROVE  Counting'
  <2> DEFINE x == Result(w).supi
             attack == Result(w).attack
  <2>1. /\ UNCHANGED <<known, offered, erased>> /\ pc[w] = "update"
        /\ pc' = [pc EXCEPT ![w] = IF Len(todo[w]) = 1 THEN "idle" ELSE "find"]
        /\ todo' = [todo EXCEPT ![w] = Tail(@)]
        /\ attackCount' = [attackCount EXCEPT ![x] = IF attack THEN @ + 1 ELSE @]
    BY <1>4 DEF Update
  <2>2. todo[w] \in Seq(Results) /\ Len(todo[w]) > 0
    BY <2>1 DEF Counting
  <2>3. x \in UEs /\ x \in known
    <3>1. Head(todo[w]) \in Results
      BY <2>2
    <3> QED
      BY <2>1, <3>1 DEF Result, Results, Counting
  <2>4. ASSUME NEW u \in UEs
        PROVE  attackCount'[u] + erased'[u] + Cardinality(Unapplied(u)') = offered'[u]
    <3>1. Cardinality(Unapplied(u)) = Cardinality(Unapplied(u)') + IF x = u /\ attack THEN 1 ELSE 0
      BY <1>4, UnappliedUpdate
    <3>2. attackCount'[u] = attackCount[u] + IF x = u /\ attack THEN 1 ELSE 0
      BY <1>0, <2>1 DEF Counting
    <3>3. Cardinality(Unapplied(u)') \in Nat
      <4>1. todo' \in [Workers -> Seq(Results)]
        BY <2>1, <2>2, TailLemma DEF Counting
      <4> QED
        BY <4>1, WaitingFinite DEF Unapplied
    <3>4. erased'[u] = erased[u] /\ offered'[u] = offered[u]
      BY <2>1
    <3> HIDE DEF x, attack
    <3>5. CASE x = u /\ attack
      BY <1>0, <3>1, <3>2, <3>3, <3>4, <3>5
    <3>6. CASE ~ (x = u /\ attack)
      BY <1>0, <3>1, <3>2, <3>3, <3>4, <3>6
    <3> QED
      BY <3>5, <3>6
  <2>5. EveryAttackCounts'
    BY <2>4 DEF EveryAttackCounts
  <2>6. attackCount' \in [UEs -> Nat] /\ \A u \in UEs \ known' : attackCount'[u] = 0
    BY <2>1, <2>3 DEF Counting
  <2>7. /\ pc' \in [Workers -> {"idle", "find", "update"}] /\ todo' \in [Workers -> Seq(Results)]
        /\ \A v \in Workers : IF pc'[v] = "idle" THEN todo'[v] = <<>> ELSE Len(todo'[v]) > 0
    BY <2>1, <2>2, TailLemma DEF Counting
  <2>8. \A v \in Workers : pc'[v] = "update" => Result(v)'.supi \in known'
    BY <2>1 DEF Counting, Result
  <2> QED
    BY <2>1, <2>5, <2>6, <2>7, <2>8 DEF Counting
<1>5. ASSUME NEW x \in UEs, Reset(x)
      PROVE  Counting'
  <2>1. /\ UNCHANGED <<known, pc, todo, offered>> /\ x \in known
        /\ attackCount' = [attackCount EXCEPT ![x] = 0]
        /\ erased' = [erased EXCEPT ![x] = @ + attackCount[x]]
    BY <1>5 DEF Reset, workVars
  <2>2. \A u \in UEs : Unapplied(u)' = Unapplied(u)
    BY <2>1 DEF Unapplied
  <2>3. EveryAttackCounts'
    BY <1>0, <2>1, <2>2 DEF Counting, EveryAttackCounts
  <2> QED
    BY <2>1, <2>3 DEF Counting, Result
<1> QED
  BY <1>1, <1>2, <1>3, <1>4, <1>5 DEF Next

\* Whatever the interleaving of the batches, every attack verdict handed to
\* the scorer is counted once: none is lost when two workers meet a new UE
\* at once, and none is counted twice.
THEOREM EveryAttackCountsHolds == Spec => []EveryAttackCounts
<1>1. Counting => EveryAttackCounts
  BY DEF Counting
<1> QED
  BY <1>1, CountingInit, CountingStep, PTL DEF Spec

=============================================================================
