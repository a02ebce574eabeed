----------------------- MODULE AnomalyDetector_proofs -----------------------
(***************************************************************************)
(* Proofs about AnomalyDetector, for any number of workers, any batches,   *)
(* any size of the semaphore and any scores.                               *)
(***************************************************************************)
EXTENDS AnomalyDetector, FiniteSetTheorems, SequenceTheorems, TLAPS

(***************************************************************************)
(* Counting.                                                               *)
(***************************************************************************)
One(b) == IF b THEN 1 ELSE 0

\* Two sets that differ at most in one element.
LEMMA CountLemma ==
  ASSUME NEW S, IsFiniteSet(S), NEW A \in SUBSET S, NEW B \in SUBSET S, NEW x \in S,
         A \ {x} = B \ {x}
  PROVE  /\ Cardinality(A) \in Nat /\ Cardinality(B) \in Nat
         /\ Cardinality(A) + One(x \in B) = Cardinality(B) + One(x \in A)
<1>1. IsFiniteSet(A) /\ IsFiniteSet(B)
  BY FS_Subset
<1>2. Cardinality(A \ {x}) = IF x \in A THEN Cardinality(A) - 1 ELSE Cardinality(A)
  BY <1>1, FS_RemoveElement
<1>3. Cardinality(B \ {x}) = IF x \in B THEN Cardinality(B) - 1 ELSE Cardinality(B)
  BY <1>1, FS_RemoveElement
<1>4. Cardinality(A) \in Nat /\ Cardinality(B) \in Nat
  BY <1>1, FS_CardinalityType
<1> QED
  BY <1>2, <1>3, <1>4 DEF One

\* Two sets in which x and y have changed places.
LEMMA ExchangeLemma ==
  ASSUME NEW S, IsFiniteSet(S), NEW A \in SUBSET S, NEW B \in SUBSET S, NEW x \in S, NEW y \in S,
         A \ {x, y} = B \ {x, y}, x \in A <=> y \in B, y \in A <=> x \in B
  PROVE  Cardinality(A) = Cardinality(B)
<1> DEFINE C == (A \ {x}) \cup (B \cap {x})
<1>1. C \in SUBSET S /\ A \ {x} = C \ {x} /\ C \ {y} = B \ {y} /\ (x \in C <=> x \in B)
  OBVIOUS
<1>2. y \in C <=> IF y = x THEN x \in B ELSE y \in A
  OBVIOUS
<1> HIDE DEF C
<1>3. /\ Cardinality(A) \in Nat /\ Cardinality(C) \in Nat
      /\ Cardinality(A) + One(x \in C) = Cardinality(C) + One(x \in A)
  BY <1>1, CountLemma
<1>4. /\ Cardinality(B) \in Nat
      /\ Cardinality(C) + One(y \in B) = Cardinality(B) + One(y \in C)
  BY <1>1, CountLemma
<1> QED
  BY <1>1, <1>2, <1>3, <1>4 DEF One

(***************************************************************************)
(* The workers do not touch each other's batches.                          *)
(***************************************************************************)
Good(w) == SlotsAreHeld(w) /\ Collecting(w) /\ Sorting(w) /\ InOrder(w)

Untouched(w) ==
  /\ pc'[w] = pc[w] /\ batch'[w] = batch[w] /\ launched'[w] = launched[w]
  /\ sem'[w] = sem[w] /\ task'[w] = task[w] /\ answer'[w] = answer[w]
  /\ results'[w] = results[w] /\ pair'[w] = pair[w]

LEMMA UntouchedLemma ==
  ASSUME NEW w, Good(w), Untouched(w)
  PROVE  Good(w)'
<1>1. Indices(w)' = Indices(w) /\ \A u : RecordsOf(w, u)' = RecordsOf(w, u)
  BY DEF Untouched, Indices, RecordsOf
<1>2. Holders(w)' = Holders(w) /\ \A u : ResultsOf(w, u)' = ResultsOf(w, u)
  BY <1>1 DEF Untouched, Holders, ResultsOf
<1>3. \A u : Collected(w, u)' = Collected(w, u)
  BY <1>1 DEF Untouched, Collected
<1>4. SlotsAreHeld(w)'
  BY <1>1, <1>2 DEF Good, Untouched, SlotsAreHeld
<1>5. Collecting(w)'
  BY <1>1, <1>2, <1>3 DEF Good, Untouched, Collecting
<1>6. Sorting(w)' /\ InOrder(w)'
  BY DEF Good, Untouched, Sorting, InOrder
<1> QED
  BY <1>4, <1>5, <1>6 DEF Good

\* So a step of worker w preserves the invariant if it does so for w.
LEMMA OneWorkerLemma ==
  ASSUME Inductive, NEW w \in Workers, TypeOK', Good(w)',
         \A v \in Workers : v # w => Untouched(v)
  PROVE  Inductive'
<1>1. ASSUME NEW v \in Workers
      PROVE  Good(v)'
  <2>1. CASE v = w
    BY <2>1
  <2>2. CASE v # w
    BY <2>2, UntouchedLemma DEF Inductive, Good
  <2> QED
    BY <2>1, <2>2
<1> QED
  BY <1>1 DEF Inductive, Good

LEMMA InitLemma == Init => Inductive
<1> SUFFICES ASSUME Init
             PROVE  Inductive
  OBVIOUS
<1>1. TypeOK
  <2>1. <<>> \in Seq(Records) /\ <<>> \in Seq(Results) /\ 0 \in 0..MaxConcurrent
    BY DetectorAssumption, EmptySeq
  <2>2. /\ batch \in [Workers -> Seq(Records)] /\ results \in [Workers -> Seq(Results)]
        /\ sem \in [Workers -> 0..MaxConcurrent]
    BY <2>1 DEF Init
  <2>3. ASSUME NEW w \in Workers
        PROVE  task[w] \in [Indices(w) -> Tasks] /\ answer[w] \in [Indices(w) -> Results]
    BY DEF Init, Indices
  <2>4. pair \in [Workers -> Nat \X Nat]
    BY DEF Init
  <2> QED
    BY <2>2, <2>3, <2>4 DEF Init, TypeOK
<1>2. ASSUME NEW w \in Workers
      PROVE  SlotsAreHeld(w) /\ Collecting(w) /\ Sorting(w) /\ InOrder(w)
  <2>1. /\ pc[w] = "idle" /\ sem[w] = 0 /\ Indices(w) = {} /\ DOMAIN results[w] = {}
    BY DEF Init, Indices
  <2>2. Holders(w) = {} /\ Cardinality({}) = 0
    BY <2>1, FS_EmptySet DEF Holders
  <2> QED
    BY <2>1, <2>2 DEF SlotsAreHeld, Collecting, Sorting, InOrder
<1> QED
  BY <1>1, <1>2 DEF Inductive

LEMMA TakeLemma ==
  ASSUME Inductive, NEW w \in Workers, NEW b \in Batches, Take(w, b)
  PROVE  Inductive'
<1> DEFINE n == Len(b)
           I == 1..n
<1>1. /\ pc' = [pc EXCEPT ![w] = "launch"] /\ batch' = [batch EXCEPT ![w] = b]
      /\ launched' = [launched EXCEPT ![w] = 0] /\ sem' = [sem EXCEPT ![w] = 0]
      /\ task' = [task EXCEPT ![w] = [i \in I |-> "none"]]
      /\ answer' = [answer EXCEPT ![w] = [i \in I |-> NoAnswer]]
      /\ results' = [results EXCEPT ![w] = <<>>] /\ pair' = pair
      /\ next' = [next EXCEPT ![w] = 1] /\ taken' = taken + 1
  BY DEF Take
<1>2. TypeOK /\ b \in Seq(Records) /\ n \in Nat /\ 0 \in 0..MaxConcurrent /\ MaxConcurrent \in Nat
  BY DetectorAssumption, LenProperties DEF Inductive
<1>3. /\ pc'[w] = "launch" /\ batch'[w] = b /\ launched'[w] = 0 /\ sem'[w] = 0
      /\ task'[w] = [i \in I |-> "none"] /\ answer'[w] = [i \in I |-> NoAnswer]
      /\ results'[w] = <<>> /\ Indices(w)' = I
  BY <1>1, <1>2 DEF TypeOK, Indices
<1>4. \A v \in Workers : v # w => Untouched(v) /\ Indices(v)' = Indices(v)
  BY <1>1, <1>2 DEF TypeOK, Untouched, Indices
<1>5. TypeOK'
  <2>1. /\ pc' \in [Workers -> {"idle", "launch", "wait", "sort", "export"}]
        /\ batch' \in [Workers -> Seq(Records)] /\ launched' \in [Workers -> Nat]
        /\ sem' \in [Workers -> 0..MaxConcurrent] /\ results' \in [Workers -> Seq(Results)]
        /\ next' \in [Workers -> Nat] /\ taken' \in Nat
    BY <1>1, <1>2, EmptySeq DEF TypeOK
  <2>2. pair' \in [Workers -> Nat \X Nat]
    BY <1>1, <1>2 DEF TypeOK
  <2>3. DOMAIN task' = Workers /\ DOMAIN answer' = Workers
    BY <1>1, <1>2 DEF TypeOK
  <2>4. ASSUME NEW v \in Workers
        PROVE  task'[v] \in [Indices(v)' -> Tasks] /\ answer'[v] \in [Indices(v)' -> Results]
    <3>1. CASE v = w
      <4>1. "none" \in Tasks /\ NoAnswer \in Results
        BY DEF Tasks, NoAnswer, Results, Scores
      <4> QED
        BY <1>3, <3>1, <4>1
    <3>2. CASE v # w
      BY <1>2, <1>4, <3>2 DEF TypeOK, Untouched
    <3> QED
      BY <3>1, <3>2
  <2> QED
    BY <2>1, <2>2, <2>3, <2>4 DEF TypeOK
<1>6. SlotsAreHeld(w)'
  <2>1. \A i \in I : task'[w][i] = "none" /\ i > 0
    BY <1>2, <1>3
  <2>2. Holders(w)' = {} /\ Cardinality({}) = 0
    BY <1>3, <2>1, FS_EmptySet DEF Holders, Busy
  <2> QED
    BY <1>3, <2>1, <2>2 DEF SlotsAreHeld
<1>7. Collecting(w)'
  <2>1. \A i \in I : task'[w][i] = "none"
    BY <1>3
  <2>2. DOMAIN results'[w] = {}
    BY <1>3
  <2>3. \A u : Collected(w, u)' = {} /\ ResultsOf(w, u)' = {}
    BY <1>3, <2>1, <2>2 DEF Collected, RecordsOf, ResultsOf
  <2> QED
    BY <1>3, <2>1, <2>2, <2>3 DEF Collecting
<1>8. Sorting(w)' /\ InOrder(w)'
  BY <1>3 DEF Sorting, InOrder
<1> QED
  BY <1>4, <1>5, <1>6, <1>7, <1>8, OneWorkerLemma DEF Good

\* One goroutine moves on.
Moved(w, i, to) == task' = [task EXCEPT ![w][i] = to]

LEMMA AdvanceLemma ==
  ASSUME Inductive, NEW w \in Workers, NEW i \in Indices(w), NEW from, NEW to \in Tasks,
         task[w][i] = from, Moved(w, i, to), batch' = batch
  PROVE  /\ Indices(w)' = Indices(w) /\ task'[w][i] = to
         /\ task'[w] \in [Indices(w) -> Tasks]
         /\ \A k \in Indices(w) : k # i => task'[w][k] = task[w][k]
         /\ \A v \in Workers : v # w => task'[v] = task[v]
         /\ \A v \in Workers : Indices(v)' = Indices(v) /\ task'[v] \in [Indices(v) -> Tasks]
         /\ DOMAIN task' = Workers
         /\ Cardinality(Holders(w)) \in Nat /\ Cardinality(Holders(w)') \in Nat
         /\ Cardinality(Holders(w)') + One(from \in Busy) = Cardinality(Holders(w)) + One(to \in Busy)
         /\ \A u : /\ Cardinality(Collected(w, u)) \in Nat /\ Cardinality(Collected(w, u)') \in Nat
                   /\ Cardinality(Collected(w, u)') + One(from \in {"leaving", "done"} /\ batch[w][i].supi = u)
                        = Cardinality(Collected(w, u)) + One(to \in {"leaving", "done"} /\ batch[w][i].supi = u)
<1>1. task' = [task EXCEPT ![w] = [task[w] EXCEPT ![i] = to]]
  BY DEF Moved
<1>2. /\ TypeOK /\ DOMAIN task = Workers /\ task[w] \in [Indices(w) -> Tasks]
      /\ batch \in [Workers -> Seq(Records)]
  BY DEF Inductive, TypeOK
<1>3. \A v \in Workers : Indices(v)' = Indices(v)
  BY <1>1 DEF Indices
<1>4. /\ task'[w][i] = to /\ task'[w] \in [Indices(w) -> Tasks] /\ DOMAIN task' = Workers
      /\ \A k \in Indices(w) : k # i => task'[w][k] = task[w][k]
      /\ \A v \in Workers : v # w => task'[v] = task[v]
  BY <1>1, <1>2
<1>5. \A v \in Workers : task'[v] \in [Indices(v) -> Tasks]
  BY <1>2, <1>4 DEF TypeOK
<1>6. IsFiniteSet(Indices(w))
  <2>1. Len(batch[w]) \in Nat
    BY <1>2, LenProperties
  <2> QED
    BY <2>1, FS_Interval DEF Indices
<1>7. /\ Cardinality(Holders(w)) \in Nat /\ Cardinality(Holders(w)') \in Nat
      /\ Cardinality(Holders(w)') + One(from \in Busy) = Cardinality(Holders(w)) + One(to \in Busy)
  <2> DEFINE A == {k \in Indices(w) : task'[w][k] \in Busy}
             B == {k \in Indices(w) : task[w][k] \in Busy}
  <2>1. A \in SUBSET Indices(w) /\ B \in SUBSET Indices(w) /\ A \ {i} = B \ {i}
        /\ (i \in A <=> to \in Busy) /\ (i \in B <=> from \in Busy)
    BY <1>1, <1>4
  <2>2. Holders(w) = B /\ Holders(w)' = A
    BY <1>3 DEF Holders
  <2> HIDE DEF A, B
  <2>3. /\ Cardinality(A) \in Nat /\ Cardinality(B) \in Nat
        /\ Cardinality(A) + One(i \in B) = Cardinality(B) + One(i \in A)
    BY <1>1, <1>6, <2>1, CountLemma
  <2> QED
    BY <2>1, <2>2, <2>3 DEF One
<1>8. ASSUME NEW u
      PROVE  /\ Cardinality(Collected(w, u)) \in Nat /\ Cardinality(Collected(w, u)') \in Nat
             /\ Cardinality(Collected(w, u)') + One(from \in {"leaving", "done"} /\ batch[w][i].supi = u)
                  = Cardinality(Collected(w, u)) + One(to \in {"leaving", "done"} /\ batch[w][i].supi = u)
  <2> DEFINE A == {k \in RecordsOf(w, u) : task'[w][k] \in {"leaving", "done"}}
             B == {k \in RecordsOf(w, u) : task[w][k] \in {"leaving", "done"}}
  <2>1. /\ RecordsOf(w, u) \subseteq Indices(w) /\ RecordsOf(w, u)' = RecordsOf(w, u)
        /\ i \in RecordsOf(w, u) <=> batch[w][i].supi = u
    BY <1>1, <1>3 DEF RecordsOf
  <2>2. A \in SUBSET Indices(w) /\ B \in SUBSET Indices(w) /\ A \ {i} = B \ {i}
        /\ (i \in A <=> to \in {"leaving", "done"} /\ batch[w][i].supi = u)
        /\ (i \in B <=> from \in {"leaving", "done"} /\ batch[w][i].supi = u)
    BY <1>1, <1>4, <2>1
  <2>3. Collected(w, u) = B /\ Collected(w, u)' = A
    BY <2>1 DEF Collected
  <2> HIDE DEF A, B
  <2>4. /\ Cardinality(A) \in Nat /\ Cardinality(B) \in Nat
        /\ Cardinality(A) + One(i \in B) = Cardinality(B) + One(i \in A)
    BY <1>1, <1>6, <2>2, CountLemma
  <2> QED
    BY <2>2, <2>3, <2>4 DEF One
<1> QED
  BY <1>1, <1>3, <1>4, <1>5, <1>7, <1>8


\* A step that changes only where worker w is.
LEMMA PhaseLemma ==
  ASSUME Inductive, NEW w \in Workers, LoopEnds(w) \/ AllDone(w) \/ Offer(w) \/ Finish(w)
  PROVE  Inductive'
<1>1. /\ UNCHANGED <<batch, launched, sem, task, answer, results, taken>>
      /\ \/ pc' = [pc EXCEPT ![w] = "wait"] /\ UNCHANGED <<pair, next>>
         \/ /\ pc' = [pc EXCEPT ![w] = "sort"] /\ pair' = [pair EXCEPT ![w] = <<1, 2>>]
            /\ next' = next /\ \A i \in Indices(w) : task[w][i] = "done"
         \/ next' = [next EXCEPT ![w] = @ + 1] /\ UNCHANGED <<pc, pair>>
         \/ pc' = [pc EXCEPT ![w] = "idle"] /\ UNCHANGED <<pair, next>>
  BY DEF LoopEnds, AllDone, Offer, Finish
<1>2. TypeOK /\ Good(w)
  BY DEF Inductive, Good
<1>3. \A v \in Workers : v # w => pc'[v] = pc[v] /\ pair'[v] = pair[v]
  BY <1>1, <1>2 DEF TypeOK
<1>4. \/ pc'[w] = pc[w] /\ pair'[w] = pair[w]
      \/ pc'[w] \in {"wait", "idle"}
      \/ pc'[w] = "sort" /\ pair'[w] = <<1, 2>> /\ \A i \in Indices(w) : task[w][i] = "done"
  BY <1>1, <1>2 DEF TypeOK
<1>5. TypeOK'
  <2>1. /\ pc' \in [Workers -> {"idle", "launch", "wait", "sort", "export"}]
        /\ next' \in [Workers -> Nat]
    <3>1. pc' \in [Workers -> {"idle", "launch", "wait", "sort", "export"}]
      BY <1>1, <1>2 DEF TypeOK
    <3>2. next \in [Workers -> Nat] /\ [next EXCEPT ![w] = @ + 1] \in [Workers -> Nat]
      BY <1>2 DEF TypeOK
    <3>3. next' = next \/ next' = [next EXCEPT ![w] = @ + 1]
      BY <1>1
    <3> QED
      BY <3>1, <3>2, <3>3
  <2>2. pair' \in [Workers -> Nat \X Nat]
    <3>1. <<1, 2>> \in Nat \X Nat /\ pair \in [Workers -> Nat \X Nat]
      BY <1>2 DEF TypeOK
    <3> QED
      BY <1>1, <3>1
  <2> QED
    BY <1>1, <1>2, <2>1, <2>2 DEF TypeOK, Indices
<1>6. Indices(w)' = Indices(w) /\ \A u : RecordsOf(w, u)' = RecordsOf(w, u)
  BY <1>1 DEF Indices, RecordsOf
<1>7. Holders(w)' = Holders(w) /\ \A u : ResultsOf(w, u)' = ResultsOf(w, u)
  BY <1>1, <1>6 DEF Holders, ResultsOf
<1>8. \A u : Collected(w, u)' = Collected(w, u)
  BY <1>1, <1>6 DEF Collected
<1>9. SlotsAreHeld(w)'
  BY <1>1, <1>2, <1>6, <1>7 DEF Good, SlotsAreHeld
<1>10. Collecting(w)'
  BY <1>1, <1>2, <1>4, <1>6, <1>7, <1>8 DEF Good, Collecting
<1>11. InOrder(w)'
  BY <1>1, <1>2, <1>4 DEF Good, InOrder
<1>12. Sorting(w)'
  <2>1. Len(results[w]) \in Nat /\ DOMAIN results[w] = 1..Len(results[w])
    BY <1>2, LenProperties DEF TypeOK
  <2> QED
    BY <1>1, <1>2, <1>4, <2>1 DEF Good, Sorting
<1> QED
  BY <1>1, <1>3, <1>5, <1>9, <1>10, <1>11, <1>12, OneWorkerLemma DEF Good, Untouched

LEMMA LaunchLemma ==
  ASSUME Inductive, NEW w \in Workers, Launch(w)
  PROVE  Inductive'
<1> DEFINE i == launched[w] + 1
<1>1. /\ UNCHANGED <<pc, batch, answer, results, pair, next, taken>>
      /\ pc[w] = "launch" /\ launched[w] < Len(batch[w]) /\ sem[w] < MaxConcurrent
      /\ sem' = [sem EXCEPT ![w] = @ + 1] /\ launched' = [launched EXCEPT ![w] = @ + 1]
      /\ task' = [task EXCEPT ![w][i] = "launched"]
  BY DEF Launch
<1>2. TypeOK /\ Good(w)
  BY DEF Inductive, Good
<1>3. /\ launched[w] \in Nat /\ sem[w] \in 0..MaxConcurrent /\ MaxConcurrent \in Nat
      /\ Len(batch[w]) \in Nat
  BY <1>2, LenProperties, DetectorAssumption DEF TypeOK
<1>4. i \in Indices(w) /\ task[w][i] = "none" /\ "launched" \in Tasks
  <2>1. i \in 1..Len(batch[w]) /\ i > launched[w]
    BY <1>1, <1>3
  <2> QED
    BY <1>2, <2>1 DEF Good, SlotsAreHeld, Indices, Tasks
<1> HIDE DEF i
<1>5. /\ Indices(w)' = Indices(w) /\ task'[w][i] = "launched"
      /\ \A k \in Indices(w) : k # i => task'[w][k] = task[w][k]
      /\ \A v \in Workers : v # w => task'[v] = task[v]
      /\ \A v \in Workers : Indices(v)' = Indices(v) /\ task'[v] \in [Indices(v) -> Tasks]
      /\ DOMAIN task' = Workers
      /\ Cardinality(Holders(w)) \in Nat /\ Cardinality(Holders(w)') \in Nat
      /\ Cardinality(Holders(w)') + One("none" \in Busy) = Cardinality(Holders(w)) + One("launched" \in Busy)
      /\ \A u : /\ Cardinality(Collected(w, u)) \in Nat /\ Cardinality(Collected(w, u)') \in Nat
                /\ Cardinality(Collected(w, u)') + One("none" \in {"leaving", "done"} /\ batch[w][i].supi = u)
                     = Cardinality(Collected(w, u)) + One("launched" \in {"leaving", "done"} /\ batch[w][i].supi = u)
  <2>1. Moved(w, i, "launched") /\ batch' = batch
    BY <1>1 DEF Moved
  <2> QED
    BY <1>4, <2>1, AdvanceLemma
<1>6. /\ Cardinality(Holders(w)') = Cardinality(Holders(w)) + 1
      /\ \A u : Cardinality(Collected(w, u)') = Cardinality(Collected(w, u))
  BY <1>5 DEF One, Busy
<1>7. \A v \in Workers : v # w => launched'[v] = launched[v] /\ sem'[v] = sem[v]
  BY <1>1, <1>2 DEF TypeOK
<1>8. launched'[w] = i /\ sem'[w] = sem[w] + 1
  BY <1>1, <1>2 DEF TypeOK, i
<1>9. TypeOK'
  <2>1. sem' \in [Workers -> 0..MaxConcurrent] /\ launched' \in [Workers -> Nat]
    <3>1. sem[w] + 1 \in 0..MaxConcurrent /\ launched[w] + 1 \in Nat
      BY <1>1, <1>3
    <3> QED
      BY <1>1, <1>2, <3>1 DEF TypeOK
  <2> QED
    BY <1>1, <1>2, <1>5, <2>1 DEF TypeOK
<1>10. SlotsAreHeld(w)'
  <2>1. \A k \in Indices(w) : task'[w][k] = "none" <=> k > i
    <3>1. ASSUME NEW k \in Indices(w), k # i
          PROVE  task'[w][k] = "none" <=> k > i
      <4>1. k \in Nat /\ (task[w][k] = "none" <=> k > launched[w])
        BY <1>2 DEF Good, SlotsAreHeld, Indices
      <4>2. k > launched[w] <=> k > i
        BY <1>3, <3>1, <4>1 DEF i
      <4> QED
        BY <1>5, <3>1, <4>1, <4>2
    <3>2. ~ i > i
      BY <1>3 DEF i
    <3> QED
      BY <1>5, <3>1, <3>2
  <2> QED
    BY <1>2, <1>5, <1>6, <1>8, <2>1 DEF Good, SlotsAreHeld
<1>11. \A u : ResultsOf(w, u)' = ResultsOf(w, u)
  BY <1>1 DEF ResultsOf
<1>12. Collecting(w)'
  BY <1>1, <1>2, <1>4, <1>5, <1>6, <1>11 DEF Good, Collecting
<1>13. Sorting(w)' /\ InOrder(w)'
  BY <1>1, <1>2 DEF Good, Sorting, InOrder
<1> QED
  BY <1>1, <1>5, <1>7, <1>9, <1>10, <1>12, <1>13, OneWorkerLemma DEF Good, Untouched


(***************************************************************************)
(* The goroutines.                                                         *)
(***************************************************************************)
\* What an append changes in the counts.
LEMMA AppendLemma ==
  ASSUME TypeOK, NEW w \in Workers, NEW r \in Results,
         results' = [results EXCEPT ![w] = Append(@, r)]
  PROVE  /\ results' \in [Workers -> Seq(Results)]
         /\ \A v \in Workers : v # w => results'[v] = results[v]
         /\ \A j \in DOMAIN results'[w] :
              results'[w][j] = r \/ (j \in DOMAIN results[w] /\ results'[w][j] = results[w][j])
         /\ \A u : /\ Cardinality(ResultsOf(w, u)) \in Nat
                   /\ Cardinality(ResultsOf(w, u)') = Cardinality(ResultsOf(w, u)) + One(r.supi = u)
<1> DEFINE s == results[w]
           t == Append(s, r)
           n == Len(s)
<1>1. s \in Seq(Results) /\ results \in [Workers -> Seq(Results)] /\ n \in Nat /\ DOMAIN s = 1..n
  BY LenProperties DEF TypeOK
<1>2. /\ t \in Seq(Results) /\ Len(t) = n + 1 /\ DOMAIN t = 1..(n + 1)
      /\ t[n + 1] = r /\ \A j \in 1..n : t[j] = s[j]
  BY <1>1, AppendProperties
<1>3. results'[w] = t /\ \A v \in Workers : v # w => results'[v] = results[v]
  BY <1>1
<1>4. results' \in [Workers -> Seq(Results)]
  BY <1>1, <1>2
<1> HIDE DEF s, t, n
<1>5. \A j \in 1..(n + 1) : j \in 1..n \/ j = n + 1
  BY <1>1
<1>6. \A j \in DOMAIN results'[w] :
        results'[w][j] = r \/ (j \in DOMAIN results[w] /\ results'[w][j] = results[w][j])
  BY <1>1, <1>2, <1>3, <1>5 DEF s
<1>7. ASSUME NEW u
      PROVE  /\ Cardinality(ResultsOf(w, u)) \in Nat
             /\ Cardinality(ResultsOf(w, u)') = Cardinality(ResultsOf(w, u)) + One(r.supi = u)
  <2> DEFINE I == 1..(n + 1)
             A == {j \in 1..(n + 1) : t[j].supi = u}
             B == {j \in 1..n : s[j].supi = u}
  <2>1. ResultsOf(w, u)' = A /\ ResultsOf(w, u) = B
    BY <1>1, <1>2, <1>3 DEF ResultsOf, s
  <2>2. n + 1 \in I /\ IsFiniteSet(I) /\ 1..n \subseteq I /\ n + 1 \notin 1..n
    BY <1>1, FS_Interval
  <2>3. A \in SUBSET I /\ B \in SUBSET I /\ A \ {n + 1} = B \ {n + 1}
        /\ (n + 1 \in A <=> r.supi = u) /\ n + 1 \notin B
    BY <1>1, <1>2, <1>5, <2>2
  <2> HIDE DEF A, B, I
  <2>4. /\ Cardinality(A) \in Nat /\ Cardinality(B) \in Nat
        /\ Cardinality(A) + One(n + 1 \in B) = Cardinality(B) + One(n + 1 \in A)
    BY <2>2, <2>3, CountLemma
  <2> QED
    BY <2>1, <2>3, <2>4 DEF One
<1> QED
  BY <1>3, <1>4, <1>6, <1>7


\* What every step of a goroutine does: it holds its slot until it is done,
\* and until then its worker waits for it.
Moves(w, i, from, to) ==
  /\ UNCHANGED <<pc, batch, launched, pair, next, taken>>
  /\ i \in Indices(w) /\ task[w][i] = from /\ task'[w][i] = to
  /\ \A k \in Indices(w) : k # i => task'[w][k] = task[w][k]
  /\ DOMAIN task' = Workers /\ \A v \in Workers : v # w => task'[v] = task[v]
  /\ \A v \in Workers : Indices(v)' = Indices(v) /\ task'[v] \in [Indices(v) -> Tasks]
  /\ Cardinality(Holders(w)) \in Nat /\ Cardinality(Holders(w)') \in Nat
  /\ Cardinality(Holders(w)') + 1 = Cardinality(Holders(w)) + One(to \in Busy)
  /\ \A k \in Indices(w) : task'[w][k] = "none" <=> k > launched[w]
  /\ \A u : Cardinality(Collected(w, u)) \in Nat /\ Cardinality(Collected(w, u)') \in Nat
  /\ from # "leaving" =>
       \A u : Cardinality(Collected(w, u)')
                = Cardinality(Collected(w, u)) + One(to \in {"leaving", "done"} /\ batch[w][i].supi = u)
  /\ from = "leaving" /\ to = "done" =>
       \A u : Cardinality(Collected(w, u)') = Cardinality(Collected(w, u))
  /\ pc[w] \notin {"sort", "export"} /\ Sorting(w)' /\ InOrder(w)'

LEMMA MovesLemma ==
  ASSUME Inductive, NEW w \in Workers, NEW i, NEW from \in Busy, NEW to \in Tasks \ {"none"},
         Advance(w, i, from, to)
  PROVE  Moves(w, i, from, to)
<1>1. /\ UNCHANGED <<pc, batch, launched, pair, next, taken>>
      /\ i \in Indices(w) /\ task[w][i] = from /\ Moved(w, i, to)
  BY DEF Advance, Moved
<1>2. Good(w) /\ to \in Tasks /\ from # "done" /\ from # "none" /\ to # "none"
  BY DEF Inductive, Good, Busy
<1>3. /\ task'[w][i] = to
      /\ \A k \in Indices(w) : k # i => task'[w][k] = task[w][k]
      /\ \A v \in Workers : v # w => task'[v] = task[v]
      /\ \A v \in Workers : Indices(v)' = Indices(v) /\ task'[v] \in [Indices(v) -> Tasks]
      /\ DOMAIN task' = Workers
      /\ Cardinality(Holders(w)) \in Nat /\ Cardinality(Holders(w)') \in Nat
      /\ Cardinality(Holders(w)') + One(from \in Busy) = Cardinality(Holders(w)) + One(to \in Busy)
      /\ \A u : /\ Cardinality(Collected(w, u)) \in Nat /\ Cardinality(Collected(w, u)') \in Nat
                /\ Cardinality(Collected(w, u)') + One(from \in {"leaving", "done"} /\ batch[w][i].supi = u)
                     = Cardinality(Collected(w, u)) + One(to \in {"leaving", "done"} /\ batch[w][i].supi = u)
  BY <1>1, <1>2, AdvanceLemma
<1>4. Cardinality(Holders(w)') + 1 = Cardinality(Holders(w)) + One(to \in Busy)
  <2>1. One(from \in Busy) = 1
    BY DEF One
  <2> QED
    BY <1>3, <2>1
<1>5. \A k \in Indices(w) : task'[w][k] = "none" <=> k > launched[w]
  BY <1>1, <1>2, <1>3 DEF Good, SlotsAreHeld
<1>6. from # "leaving" =>
        \A u : Cardinality(Collected(w, u)')
                 = Cardinality(Collected(w, u)) + One(to \in {"leaving", "done"} /\ batch[w][i].supi = u)
  BY <1>2, <1>3 DEF One
<1>7. from = "leaving" /\ to = "done" =>
        \A u : Cardinality(Collected(w, u)') = Cardinality(Collected(w, u))
  BY <1>3 DEF One
<1>8. pc[w] \notin {"sort", "export"}
  BY <1>1, <1>2 DEF Good, Collecting
<1>9. Sorting(w)' /\ InOrder(w)'
  BY <1>1, <1>8 DEF Sorting, InOrder
<1> QED
  BY <1>1, <1>3, <1>4, <1>5, <1>6, <1>7, <1>8, <1>9 DEF Moves

\* So a step of a goroutine preserves the invariant if it does so for what
\* was collected.
LEMMA GoroutineLemma ==
  ASSUME Inductive, NEW w \in Workers, NEW i, NEW from \in Busy, NEW to \in Tasks \ {"none"},
         Advance(w, i, from, to),
         sem' \in [Workers -> 0..MaxConcurrent], results' \in [Workers -> Seq(Results)],
         DOMAIN answer' = Workers, \A v \in Workers : answer'[v] \in [Indices(v) -> Results],
         \A v \in Workers : v # w => sem'[v] = sem[v] /\ answer'[v] = answer[v] /\ results'[v] = results[v],
         sem'[w] + 1 = sem[w] + One(to \in Busy),
         Collecting(w)'
  PROVE  Inductive'
<1>1. /\ UNCHANGED <<pc, batch, launched, pair, next, taken>>
      /\ DOMAIN task' = Workers /\ \A v \in Workers : v # w => task'[v] = task[v]
      /\ \A v \in Workers : Indices(v)' = Indices(v) /\ task'[v] \in [Indices(v) -> Tasks]
      /\ Cardinality(Holders(w)) \in Nat /\ Cardinality(Holders(w)') \in Nat
      /\ Cardinality(Holders(w)') + 1 = Cardinality(Holders(w)) + One(to \in Busy)
      /\ \A k \in Indices(w) : task'[w][k] = "none" <=> k > launched[w]
      /\ Sorting(w)' /\ InOrder(w)'
  <2>1. Moves(w, i, from, to)
    BY MovesLemma
  <2> QED
    BY <2>1 DEF Moves
<1>2. TypeOK /\ Good(w)
  BY DEF Inductive, Good
<1>3. TypeOK'
  BY <1>1, <1>2 DEF TypeOK
<1>4. SlotsAreHeld(w)'
  <2>1. sem'[w] \in Int /\ sem[w] \in Int
    BY <1>2, DetectorAssumption DEF TypeOK
  <2>2. sem[w] = Cardinality(Holders(w))
    BY <1>2 DEF Good, SlotsAreHeld
  <2>3. sem'[w] = Cardinality(Holders(w)')
    BY <1>1, <2>1, <2>2
  <2> QED
    BY <1>1, <2>3 DEF SlotsAreHeld
<1> QED
  BY <1>1, <1>3, <1>4, OneWorkerLemma DEF Good, Untouched

LEMMA AskLemma ==
  ASSUME Inductive, NEW w \in Workers, NEW i, Ask(w, i)
  PROVE  Inductive'
<1>1. Advance(w, i, "launched", "asking") /\ UNCHANGED <<sem, answer, results>>
  BY DEF Ask
<1>2. "launched" \in Busy /\ "asking" \in Busy /\ "asking" \in Tasks \ {"none"}
  BY DEF Busy, Tasks
<1>3. Moves(w, i, "launched", "asking")
  BY <1>1, <1>2, MovesLemma
<1>4. /\ UNCHANGED <<pc, batch>>
      /\ i \in Indices(w) /\ task'[w][i] = "asking" /\ Indices(w)' = Indices(w)
      /\ \A k \in Indices(w) : k # i => task'[w][k] = task[w][k]
      /\ \A u : Cardinality(Collected(w, u)) \in Nat /\ Cardinality(Collected(w, u)') \in Nat
      /\ \A u : Cardinality(Collected(w, u)') = Cardinality(Collected(w, u))
      /\ pc[w] \notin {"sort", "export"}
  BY <1>3 DEF Moves, One
<1>5. TypeOK /\ Collecting(w)
  BY DEF Inductive
<1>6. \A u : ResultsOf(w, u)' = ResultsOf(w, u)
  BY <1>1 DEF ResultsOf
<1>7. Collecting(w)'
  BY <1>1, <1>4, <1>5, <1>6 DEF Collecting
<1>8. sem'[w] + 1 = sem[w] + One("asking" \in Busy)
  BY <1>1, <1>2 DEF One
<1> QED
  BY <1>1, <1>2, <1>5, <1>7, <1>8, GoroutineLemma DEF TypeOK

\* A goroutine that appends the result r of its record.
LEMMA CollectedLemma ==
  ASSUME Inductive, NEW w \in Workers, NEW i, NEW from \in Busy \ {"leaving"}, NEW r \in Results,
         Advance(w, i, from, "leaving"), UNCHANGED <<sem, answer>>,
         results' = [results EXCEPT ![w] = Append(@, r)],
         r.supi = batch[w][i].supi, Genuine(r), ~ r.attack
  PROVE  Inductive'
<1>1. "leaving" \in Busy /\ "leaving" \in Tasks \ {"none"} /\ from \in Busy /\ from # "leaving"
  BY DEF Busy, Tasks
<1>2. Moves(w, i, from, "leaving")
  BY <1>1, MovesLemma
<1>3. /\ UNCHANGED <<pc, batch>>
      /\ i \in Indices(w) /\ task'[w][i] = "leaving" /\ Indices(w)' = Indices(w)
      /\ \A k \in Indices(w) : k # i => task'[w][k] = task[w][k]
      /\ pc[w] \notin {"sort", "export"}
  BY <1>2 DEF Moves
<1>4. \A u : /\ Cardinality(Collected(w, u)) \in Nat
             /\ Cardinality(Collected(w, u)') = Cardinality(Collected(w, u)) + One(r.supi = u)
  BY <1>1, <1>2 DEF Moves, One
<1>5. TypeOK /\ Collecting(w)
  BY DEF Inductive
<1>6. /\ results' \in [Workers -> Seq(Results)]
      /\ \A v \in Workers : v # w => results'[v] = results[v]
      /\ \A j \in DOMAIN results'[w] :
           results'[w][j] = r \/ (j \in DOMAIN results[w] /\ results'[w][j] = results[w][j])
      /\ \A u : /\ Cardinality(ResultsOf(w, u)) \in Nat
                /\ Cardinality(ResultsOf(w, u)') = Cardinality(ResultsOf(w, u)) + One(r.supi = u)
  <2>1. TypeOK
    BY <1>5
  <2> QED
    BY <2>1, AppendLemma, ZenonT(40)
<1>7. ASSUME NEW k \in Indices(w), NEW u, u = batch[w][k].supi
      PROVE  Cardinality(Collected(w, u)') = Cardinality(ResultsOf(w, u)')
  <2>1. Cardinality(Collected(w, u)) = Cardinality(ResultsOf(w, u))
    BY <1>5, <1>7 DEF Collecting
  <2> QED
    BY <1>4, <1>6, <2>1
<1>8. \A j \in DOMAIN results'[w] :
        Genuine(results'[w][j]) /\ (results'[w][j].attack => results'[w][j].score >= Cutoff)
  BY <1>5, <1>6 DEF Collecting
<1>9. \A k \in Indices(w) : task'[w][k] = "answered" =>
        /\ answer'[w][k].supi = batch'[w][k].supi
        /\ Genuine(answer'[w][k]) /\ ~ answer'[w][k].attack
  BY <1>3, <1>5 DEF Collecting
<1>10. Collecting(w)'
  BY <1>3, <1>7, <1>8, <1>9 DEF Collecting, Genuine
<1>11. sem'[w] + 1 = sem[w] + One("leaving" \in Busy)
  BY <1>1 DEF One
<1> QED
  BY <1>1, <1>5, <1>6, <1>10, <1>11, GoroutineLemma DEF TypeOK

LEMMA SkipEmptyLemma ==
  ASSUME Inductive, NEW w \in Workers, NEW i, SkipEmpty(w, i)
  PROVE  Inductive'
<1> DEFINE r == Result(w, i, 0, "empty")
<1>1. /\ Advance(w, i, "launched", "leaving") /\ UNCHANGED <<sem, answer>>
      /\ results' = [results EXCEPT ![w] = Append(@, r)]
      /\ i \in Indices(w) /\ "launched" \in Busy \ {"leaving"}
  BY DEF SkipEmpty, Advance, Busy
<1>2. batch[w][i] \in Records
  BY <1>1, ElementOfSeq DEF Inductive, TypeOK, Indices
<1>3. r \in Results /\ r.supi = batch[w][i].supi /\ Genuine(r) /\ ~ r.attack
  BY <1>2 DEF Result, Results, Records, Scores, Genuine, FailOpen
<1> HIDE DEF r
<1> QED
  BY <1>1, <1>3, CollectedLemma

LEMMA CollectLemma ==
  ASSUME Inductive, NEW w \in Workers, NEW i, Collect(w, i)
  PROVE  Inductive'
<1>1. /\ Advance(w, i, "answered", "leaving") /\ UNCHANGED <<sem, answer>>
      /\ results' = [results EXCEPT ![w] = Append(@, answer[w][i])]
      /\ i \in Indices(w) /\ task[w][i] = "answered" /\ "answered" \in Busy \ {"leaving"}
  BY DEF Collect, Advance, Busy
<1>2. /\ answer[w][i] \in Results /\ answer[w][i].supi = batch[w][i].supi
      /\ Genuine(answer[w][i]) /\ ~ answer[w][i].attack
  BY <1>1 DEF Inductive, TypeOK, Collecting
<1> QED
  BY <1>1, <1>2, CollectedLemma

LEMMA ReceiveLemma ==
  ASSUME Inductive, NEW w \in Workers, NEW i, NEW r \in Results, Receive(w, i, r),
         r.supi = batch[w][i].supi, Genuine(r), ~ r.attack
  PROVE  Inductive'
<1>1. /\ Advance(w, i, "asking", "answered") /\ UNCHANGED <<sem, results>>
      /\ answer' = [answer EXCEPT ![w][i] = r]
  BY DEF Receive
<1>2. "asking" \in Busy /\ "answered" \in Busy /\ "answered" \in Tasks \ {"none"}
  BY DEF Busy, Tasks
<1>3. Moves(w, i, "asking", "answered")
  BY <1>1, <1>2, MovesLemma
<1>4. /\ UNCHANGED <<pc, batch>>
      /\ i \in Indices(w) /\ \A v \in Workers : Indices(v)' = Indices(v)
      /\ \A k \in Indices(w) : k # i => task'[w][k] = task[w][k]
      /\ \A u : Cardinality(Collected(w, u)) \in Nat /\ Cardinality(Collected(w, u)') \in Nat
      /\ \A u : Cardinality(Collected(w, u)') = Cardinality(Collected(w, u))
      /\ pc[w] \notin {"sort", "export"}
  BY <1>3 DEF Moves, One
<1>5. TypeOK /\ Collecting(w)
  BY DEF Inductive
<1>6. /\ DOMAIN answer' = Workers /\ \A v \in Workers : v # w => answer'[v] = answer[v]
      /\ answer'[w] = [answer[w] EXCEPT ![i] = r]
  BY <1>1, <1>5 DEF TypeOK
<1>7. answer'[w] \in [Indices(w) -> Results] /\ answer'[w][i] = r
      /\ \A k \in Indices(w) : k # i => answer'[w][k] = answer[w][k]
  BY <1>4, <1>5, <1>6 DEF TypeOK
<1>8. \A v \in Workers : answer'[v] \in [Indices(v) -> Results]
  BY <1>5, <1>6, <1>7 DEF TypeOK
<1>9. \A u : ResultsOf(w, u)' = ResultsOf(w, u)
  BY <1>1 DEF ResultsOf
<1>10. \A k \in Indices(w) : task'[w][k] = "answered" =>
        /\ answer'[w][k].supi = batch[w][k].supi
        /\ Genuine(answer'[w][k]) /\ ~ answer'[w][k].attack
  BY <1>4, <1>5, <1>7 DEF Collecting
<1>11. Collecting(w)'
  BY <1>1, <1>4, <1>5, <1>9, <1>10 DEF Collecting, Genuine
<1>12. sem'[w] + 1 = sem[w] + One("answered" \in Busy)
  BY <1>1, <1>2 DEF One
<1> QED
  BY <1>1, <1>2, <1>4, <1>5, <1>6, <1>8, <1>11, <1>12, GoroutineLemma DEF TypeOK

LEMMA RequestLemma ==
  ASSUME Inductive, NEW w \in Workers, NEW i, Request(w, i)
  PROVE  Inductive'
<1>1. PICK s \in Scores, by \in {"llm", "failopen"} :
        Receive(w, i, Result(w, i, s, by)) /\ (by = "failopen" => s = FailOpen)
  <2>1. FailOpen \in Scores
    BY DEF FailOpen, Scores
  <2> QED
    BY <2>1, DetectorAssumption DEF Request, Answer, Unparsable, Fail
<1> DEFINE r == Result(w, i, s, by)
<1>2. batch[w][i] \in Records
  <2>1. i \in Indices(w)
    BY <1>1 DEF Receive, Advance
  <2> QED
    BY <2>1, ElementOfSeq DEF Inductive, TypeOK, Indices
<1>3. r \in Results /\ r.supi = batch[w][i].supi /\ Genuine(r) /\ ~ r.attack
  BY <1>1, <1>2 DEF Result, Results, Records, Scores, Genuine, FailOpen
<1> HIDE DEF r
<1> QED
  BY <1>1, <1>3, ReceiveLemma DEF r

LEMMA LeaveLemma ==
  ASSUME Inductive, NEW w \in Workers, NEW i, Leave(w, i)
  PROVE  Inductive'
<1>1. /\ Advance(w, i, "leaving", "done") /\ UNCHANGED <<answer, results>>
      /\ sem' = [sem EXCEPT ![w] = @ - 1]
  BY DEF Leave
<1>2. "leaving" \in Busy /\ "done" \notin Busy /\ "done" \in Tasks \ {"none"}
  BY DEF Busy, Tasks
<1>3. Moves(w, i, "leaving", "done")
  BY <1>1, <1>2, MovesLemma
<1>4. /\ UNCHANGED <<pc, batch>>
      /\ i \in Indices(w) /\ task'[w][i] = "done" /\ Indices(w)' = Indices(w)
      /\ \A k \in Indices(w) : k # i => task'[w][k] = task[w][k]
      /\ \A u : Cardinality(Collected(w, u)') = Cardinality(Collected(w, u))
      /\ Cardinality(Holders(w)) \in Nat /\ Cardinality(Holders(w)') \in Nat
      /\ Cardinality(Holders(w)') + 1 = Cardinality(Holders(w)) + One("done" \in Busy)
      /\ pc[w] \notin {"sort", "export"}
  BY <1>3 DEF Moves
<1>5. TypeOK /\ Collecting(w) /\ SlotsAreHeld(w)
  BY DEF Inductive
<1>6. sem[w] \in 0..MaxConcurrent /\ sem[w] >= 1 /\ MaxConcurrent \in Nat
  <2>1. One("done" \in Busy) = 0
    BY <1>2 DEF One
  <2> QED
    BY <1>4, <1>5, <2>1, DetectorAssumption DEF TypeOK, SlotsAreHeld
<1>7. sem[w] - 1 \in 0..MaxConcurrent
  BY <1>6
<1>8. /\ sem' \in [Workers -> 0..MaxConcurrent] /\ sem'[w] = sem[w] - 1
      /\ \A v \in Workers : v # w => sem'[v] = sem[v]
  BY <1>1, <1>5, <1>7 DEF TypeOK
<1>9. \A u : ResultsOf(w, u)' = ResultsOf(w, u)
  BY <1>1 DEF ResultsOf
<1>10. Collecting(w)'
  BY <1>1, <1>4, <1>5, <1>9 DEF Collecting
<1>11. sem'[w] + 1 = sem[w] + One("done" \in Busy)
  BY <1>2, <1>6, <1>8 DEF One
<1> QED
  BY <1>1, <1>2, <1>5, <1>8, <1>10, <1>11, GoroutineLemma DEF TypeOK

(***************************************************************************)
(* The sort.                                                               *)
(***************************************************************************)
\* The pairs compared before <<i, j>> are in order in s.
OrderedUpTo(s, i, j) ==
  \A a, b \in DOMAIN s : a < b /\ (a < i \/ (a = i /\ b < j)) => s[a].supi <= s[b].supi

\* Where u's results are.
PlacesOf(s, u) == {k \in DOMAIN s : s[k].supi = u}

\* What one comparison does to s.
Exchanges(s, t, i, j) ==
  /\ t \in Seq(Results) /\ Len(t) = Len(s) /\ DOMAIN t = DOMAIN s
  /\ \A k \in DOMAIN s : \E m \in DOMAIN s : t[k] = s[m]
  /\ \A u : Cardinality(PlacesOf(t, u)) = Cardinality(PlacesOf(s, u))
  /\ OrderedUpTo(s, i, j) => OrderedUpTo(t, i, j + 1)

LEMMA ExchangedLemma ==
  ASSUME NEW s \in Seq(Results), NEW i \in Nat, NEW j \in Nat,
         0 < i, i < j, j <= Len(s), NEW t, t = Exchanged(s, i, j)
  PROVE  Exchanges(s, t, i, j)
<1> DEFINE D == DOMAIN s
<1>1. Len(s) \in Nat /\ D = 1..Len(s)
  BY LenProperties
<1>2. \A k \in D : s[k] \in Results /\ s[k].supi \in Int
  <2>1. \A k \in D : s[k] \in Results
    BY <1>1, ElementOfSeq
  <2> QED
    BY <2>1 DEF Results
<1>3. i \in D /\ j \in D
  BY <1>1
<1>4. \/ /\ s[i].supi > s[j].supi /\ t = [s EXCEPT ![i] = s[j], ![j] = s[i]]
      \/ s[i].supi <= s[j].supi /\ t = s
  BY <1>2, <1>3 DEF Exchanged
<1>5. CASE s[i].supi <= s[j].supi /\ t = s
  <2>1. OrderedUpTo(s, i, j) => OrderedUpTo(t, i, j + 1)
    <3> SUFFICES ASSUME OrderedUpTo(s, i, j), NEW a \in D, NEW b \in D, a < b,
                        a < i \/ (a = i /\ b < j + 1)
                 PROVE  s[a].supi <= s[b].supi
      BY <1>5 DEF OrderedUpTo
    <3>1. a < i \/ (a = i /\ b < j) \/ (a = i /\ b = j)
      BY <1>1
    <3> QED
      BY <1>5, <3>1 DEF OrderedUpTo
  <2> QED
    BY <1>5, <2>1 DEF Exchanges
<1>6. CASE s[i].supi > s[j].supi /\ t = [s EXCEPT ![i] = s[j], ![j] = s[i]]
  <2>1. /\ DOMAIN t = D /\ t[i] = s[j] /\ t[j] = s[i]
        /\ \A k \in D : k # i /\ k # j => t[k] = s[k]
    BY <1>3, <1>6
  <2>2. \A k \in D : \E m \in D : t[k] = s[m] /\ (k > i => m >= i) /\ (k = i => m = j) /\ (k < i => m = k)
                                  /\ (k > i /\ k < j => m = k) /\ (k = j => m = i)
    <3> TAKE k \in D
    <3>1. CASE k = i
      BY <1>1, <1>3, <2>1, <3>1
    <3>2. CASE k = j
      BY <1>1, <1>3, <2>1, <3>2
    <3>3. CASE k # i /\ k # j
      <4>1. t[k] = s[k] /\ (k > i => k >= i)
        BY <1>1, <2>1, <3>3
      <4> QED
        BY <3>3, <4>1
    <3> QED
      BY <3>1, <3>2, <3>3
  <2>3. t \in Seq(Results) /\ Len(t) = Len(s)
    <3>1. t \in [1..Len(s) -> Results]
      BY <1>1, <1>2, <1>3, <1>6
    <3> QED
      BY <1>1, <3>1, SeqDef, LenProperties
  <2>4. ASSUME NEW u
        PROVE  Cardinality(PlacesOf(t, u)) = Cardinality(PlacesOf(s, u))
    <3> DEFINE A == PlacesOf(t, u)
               B == PlacesOf(s, u)
    <3>1. /\ A \in SUBSET D /\ B \in SUBSET D /\ A \ {i, j} = B \ {i, j}
          /\ (i \in A <=> j \in B) /\ (j \in A <=> i \in B)
      BY <1>3, <2>1 DEF PlacesOf
    <3>2. IsFiniteSet(D)
      BY <1>1, FS_Interval
    <3> HIDE DEF A, B, D
    <3>3. Cardinality(A) = Cardinality(B)
      BY <1>3, <3>1, <3>2, ExchangeLemma
    <3> QED
      BY <3>3 DEF A, B
  <2>5. OrderedUpTo(s, i, j) => OrderedUpTo(t, i, j + 1)
    <3> SUFFICES ASSUME OrderedUpTo(s, i, j), NEW a \in D, NEW b \in D, a < b,
                        a < i \/ (a = i /\ b < j + 1)
                 PROVE  t[a].supi <= t[b].supi
      BY <2>1 DEF OrderedUpTo
    <3>1. CASE a < i
      <4>1. t[a] = s[a]
        BY <1>1, <2>1, <3>1
      <4>2. PICK m \in D : t[b] = s[m] /\ (b > i => m >= i) /\ (b = i => m = j) /\ (b < i => m = b)
        BY <2>2
      <4>3. a < m
        BY <1>1, <3>1, <4>2
      <4> QED
        BY <3>1, <4>1, <4>2, <4>3 DEF OrderedUpTo
    <3>2. CASE a = i /\ b = j
      BY <1>2, <1>3, <1>6, <2>1, <3>2
    <3>3. CASE a = i /\ b < j
      <4>1. t[b] = s[b] /\ t[a] = s[j]
        BY <1>1, <2>1, <3>3
      <4>2. s[i].supi <= s[b].supi
        BY <3>3 DEF OrderedUpTo
      <4> QED
        BY <1>2, <1>3, <1>6, <4>1, <4>2
    <3> QED
      BY <1>1, <3>1, <3>2, <3>3
  <2> QED
    BY <2>1, <2>2, <2>3, <2>4, <2>5 DEF Exchanges
<1> QED
  BY <1>4, <1>5, <1>6

\* The facts the sort and the scorer keep, which the results alone decide.
LEMMA ResultsLemma ==
  ASSUME Inductive, NEW w \in Workers, pc[w] = "sort",
         UNCHANGED <<batch, launched, sem, task, answer, next, taken>>,
         pc' \in [Workers -> {"idle", "launch", "wait", "sort", "export"}], pc'[w] \in {"sort", "export"},
         pair' \in [Workers -> Nat \X Nat], results' \in [Workers -> Seq(Results)],
         \A v \in Workers : v # w => pc'[v] = pc[v] /\ pair'[v] = pair[v] /\ results'[v] = results[v],
         \A u : Cardinality(ResultsOf(w, u)') = Cardinality(ResultsOf(w, u)),
         \A k \in DOMAIN results'[w] :
           Genuine(results'[w][k]) /\ (results'[w][k].attack => results'[w][k].score >= Cutoff),
         Sorting(w)', InOrder(w)'
  PROVE  Inductive'
<1>1. TypeOK /\ Good(w)
  BY DEF Inductive, Good
<1>2. TypeOK'
  BY <1>1 DEF TypeOK, Indices
<1>3. Indices(w)' = Indices(w) /\ \A u : RecordsOf(w, u)' = RecordsOf(w, u)
  BY DEF Indices, RecordsOf
<1>4. Holders(w)' = Holders(w) /\ \A u : Collected(w, u)' = Collected(w, u)
  BY <1>3 DEF Holders, Collected
<1>5. SlotsAreHeld(w)'
  BY <1>1, <1>3, <1>4 DEF Good, SlotsAreHeld
<1>6. \A i \in Indices(w) : task[w][i] = "done"
  BY <1>1 DEF Good, Collecting
<1>7. ASSUME NEW k \in Indices(w), NEW u, u = batch[w][k].supi
      PROVE  Cardinality(Collected(w, u)') = Cardinality(ResultsOf(w, u)')
  BY <1>1, <1>4, <1>7 DEF Good, Collecting
<1>8. Collecting(w)'
  BY <1>3, <1>6, <1>7 DEF Collecting, Genuine
<1> QED
  BY <1>2, <1>5, <1>8, OneWorkerLemma DEF Good, Untouched

LEMMA CompareLemma ==
  ASSUME Inductive, NEW w \in Workers, Compare(w)
  PROVE  Inductive'
<1>1. PICK i \in Nat, j \in Nat : pair[w] = <<i, j>>
  <2>1. pair[w] \in Nat \X Nat
    BY DEF Inductive, TypeOK
  <2> QED
    BY <2>1
<1>2. PICK s \in Seq(Results) : results[w] = s
  BY DEF Inductive, TypeOK
<1>3. PICK t : t = Exchanged(s, i, j)
  OBVIOUS
<1>4. PICK p : p = IF j < Len(s) THEN <<i, j + 1>> ELSE <<i + 1, i + 2>>
  OBVIOUS
<1>5. /\ UNCHANGED <<pc, batch, launched, sem, task, answer, next, taken>>
      /\ pc[w] = "sort" /\ i < Len(s)
      /\ results' = [results EXCEPT ![w] = t] /\ pair' = [pair EXCEPT ![w] = p]
  <2>1. pair[w][1] = i /\ pair[w][2] = j
    BY <1>1
  <2> QED
    BY <1>2, <1>3, <1>4, <2>1 DEF Compare
<1>6. TypeOK /\ Collecting(w) /\ Sorting(w)
  BY DEF Inductive
<1>7. /\ 0 < i /\ i < j /\ j <= Len(s) /\ OrderedUpTo(s, i, j)
      /\ Len(s) \in Nat /\ DOMAIN s = 1..Len(s)
  <2>1. 0 < i /\ i < j /\ j <= Len(s)
    BY <1>1, <1>2, <1>5, <1>6 DEF Sorting
  <2>2. OrderedUpTo(s, i, j)
    BY <1>1, <1>2, <1>5, <1>6 DEF Sorting, OrderedUpTo
  <2> QED
    BY <2>1, <2>2, LenProperties
<1>8. /\ t \in Seq(Results) /\ Len(t) = Len(s) /\ DOMAIN t = DOMAIN s
      /\ \A k \in DOMAIN s : \E m \in DOMAIN s : t[k] = s[m]
      /\ \A u : Cardinality(PlacesOf(t, u)) = Cardinality(PlacesOf(s, u))
      /\ OrderedUpTo(t, i, j + 1)
  <2>1. Exchanges(s, t, i, j)
    BY <1>3, <1>7, ExchangedLemma
  <2> QED
    BY <1>7, <2>1 DEF Exchanges
<1>9. /\ results' \in [Workers -> Seq(Results)] /\ results'[w] = t
      /\ \A v \in Workers : v # w => results'[v] = results[v]
  BY <1>5, <1>6, <1>8 DEF TypeOK
<1>10. /\ pair' \in [Workers -> Nat \X Nat] /\ pair'[w] = p
       /\ \A v \in Workers : v # w => pair'[v] = pair[v]
  <2>1. p \in Nat \X Nat /\ pair \in [Workers -> Nat \X Nat]
    BY <1>4, <1>6 DEF TypeOK
  <2> QED
    BY <1>5, <2>1
<1>11. \A u : Cardinality(ResultsOf(w, u)') = Cardinality(ResultsOf(w, u))
  <2>1. \A u : ResultsOf(w, u)' = PlacesOf(t, u) /\ ResultsOf(w, u) = PlacesOf(s, u)
    BY <1>2, <1>9 DEF ResultsOf, PlacesOf
  <2> QED
    BY <1>8, <2>1
<1>12. \A k \in DOMAIN results'[w] :
         Genuine(results'[w][k]) /\ (results'[w][k].attack => results'[w][k].score >= Cutoff)
  BY <1>2, <1>6, <1>8, <1>9 DEF Collecting
<1>13. Sorting(w)'
  <2>1. CASE j < Len(s)
    <3>1. p = <<i, j + 1>> /\ 0 < i /\ i < j + 1 /\ (i < Len(t) => j + 1 <= Len(t))
      BY <1>4, <1>7, <1>8, <2>1
    <3>2. \A a, b \in DOMAIN t :
            a < b /\ (a < i \/ (a = i /\ b < j + 1)) => t[a].supi <= t[b].supi
      BY <1>8 DEF OrderedUpTo
    <3> QED
      BY <1>9, <1>10, <3>1, <3>2 DEF Sorting
  <2>2. CASE ~ (j < Len(s))
    <3>1. p = <<i + 1, i + 2>> /\ 0 < i + 1 /\ i + 1 < i + 2 /\ (i + 1 < Len(t) => i + 2 <= Len(t))
      BY <1>4, <1>7, <1>8, <2>2
    <3>2. ASSUME NEW a \in DOMAIN t, NEW b \in DOMAIN t, a < b, a < i + 1 \/ (a = i + 1 /\ b < i + 2)
          PROVE  t[a].supi <= t[b].supi
      <4>1. a \in Nat /\ b \in Nat /\ b <= Len(s) /\ Len(s) \in Nat /\ Len(s) <= j
        <5>1. DOMAIN t = 1..Len(s) /\ Len(s) \in Nat /\ j <= Len(s)
          BY <1>7, <1>8
        <5>2. a \in 1..Len(s) /\ b \in 1..Len(s)
          BY <5>1
        <5>3. Len(s) <= j
          BY <2>2, <5>1
        <5> QED
          BY <5>1, <5>2, <5>3
      <4>2. a < i \/ (a = i /\ b < j + 1)
        BY <3>2, <4>1
      <4> QED
        BY <1>8, <3>2, <4>2 DEF OrderedUpTo
    <3> QED
      BY <1>9, <1>10, <3>1, <3>2 DEF Sorting
  <2> QED
    BY <2>1, <2>2
<1>14. InOrder(w)'
  BY <1>5 DEF InOrder
<1>15. /\ pc' \in [Workers -> {"idle", "launch", "wait", "sort", "export"}] /\ pc'[w] \in {"sort", "export"}
       /\ \A v \in Workers : v # w => pc'[v] = pc[v]
  BY <1>5, <1>6 DEF TypeOK
<1> QED
  BY <1>5, <1>9, <1>10, <1>11, <1>12, <1>13, <1>14, <1>15, ResultsLemma

LEMMA ScoreLemma ==
  ASSUME Inductive, NEW w \in Workers, Score(w)
  PROVE  Inductive'
<1>1. PICK i \in Nat, j \in Nat : pair[w] = <<i, j>>
  <2>1. pair[w] \in Nat \X Nat
    BY DEF Inductive, TypeOK
  <2> QED
    BY <2>1
<1>2. PICK s \in Seq(Results) : results[w] = s
  BY DEF Inductive, TypeOK
<1>3. PICK t : t = [k \in DOMAIN s |-> Judge(s[k])]
  OBVIOUS
<1>4. /\ UNCHANGED <<batch, launched, sem, task, answer, pair, next, taken>>
      /\ pc[w] = "sort" /\ i >= Len(s) /\ pc' = [pc EXCEPT ![w] = "export"]
      /\ results' = [results EXCEPT ![w] = t]
  BY <1>1, <1>2, <1>3 DEF Score
<1>5. TypeOK /\ Collecting(w) /\ Sorting(w)
  BY DEF Inductive
<1>6. Len(s) \in Nat /\ DOMAIN s = 1..Len(s) /\ \A k \in DOMAIN s : s[k] \in Results
  BY LenProperties, ElementOfSeq
<1>7. ASSUME NEW k \in DOMAIN s
      PROVE  /\ t[k] \in Results /\ t[k].supi = s[k].supi /\ t[k].by = s[k].by
             /\ t[k].score = s[k].score /\ (t[k].attack => t[k].score >= Cutoff)
  <2>1. t[k] = [s[k] EXCEPT !.attack = RiskScoring /\ s[k].score >= Cutoff]
    BY <1>3 DEF Judge
  <2>2. s[k] \in Results /\ (RiskScoring /\ s[k].score >= Cutoff) \in BOOLEAN
    BY <1>6
  <2> HIDE DEF Results
  <2>3. s[k] \in [supi : Int, score : Scores, by : {"nobody", "llm", "failopen", "empty"}, attack : BOOLEAN]
    BY <2>2 DEF Results
  <2> QED
    BY <2>1, <2>2, <2>3 DEF Results
<1>8. t \in Seq(Results) /\ Len(t) = Len(s) /\ DOMAIN t = DOMAIN s
  <2>1. t \in [1..Len(s) -> Results]
    BY <1>3, <1>6, <1>7
  <2> QED
    BY <1>6, <2>1, SeqDef, LenProperties
<1>9. /\ results' \in [Workers -> Seq(Results)] /\ results'[w] = t
      /\ \A v \in Workers : v # w => results'[v] = results[v] /\ pair'[v] = pair[v]
  BY <1>4, <1>5, <1>8 DEF TypeOK
<1>10. \A u : Cardinality(ResultsOf(w, u)') = Cardinality(ResultsOf(w, u))
  <2>1. \A u : ResultsOf(w, u)' = ResultsOf(w, u)
    BY <1>2, <1>7, <1>8, <1>9 DEF ResultsOf
  <2> QED
    BY <2>1
<1>11. \A k \in DOMAIN results'[w] :
         Genuine(results'[w][k]) /\ (results'[w][k].attack => results'[w][k].score >= Cutoff)
  BY <1>2, <1>5, <1>7, <1>8, <1>9 DEF Collecting, Genuine
<1>12. InOrder(w)'
  <2>1. ASSUME NEW a \in DOMAIN s, NEW b \in DOMAIN s, a < b
        PROVE  s[a].supi <= s[b].supi
    <3>1. a < i
      BY <1>4, <1>6, <2>1
    <3> QED
      BY <1>1, <1>2, <1>4, <1>5, <2>1, <3>1 DEF Sorting
  <2> QED
    BY <1>7, <1>8, <1>9, <2>1 DEF InOrder
<1>13. /\ pc' \in [Workers -> {"idle", "launch", "wait", "sort", "export"}]
       /\ pc'[w] = "export" /\ \A v \in Workers : v # w => pc'[v] = pc[v]
       /\ pair' \in [Workers -> Nat \X Nat]
  BY <1>4, <1>5 DEF TypeOK
<1>14. Sorting(w)'
  BY <1>13 DEF Sorting
<1> QED
  BY <1>4, <1>9, <1>10, <1>11, <1>12, <1>13, <1>14, ResultsLemma

LEMMA StepLemma == Inductive /\ [Next]_vars => Inductive'
<1> SUFFICES ASSUME Inductive, [Next]_vars
             PROVE  Inductive'
  OBVIOUS
<1>1. CASE UNCHANGED vars
  <2>1. TypeOK'
    BY <1>1 DEF Inductive, TypeOK, vars, Indices
  <2>2. \A w \in Workers : Good(w)'
    BY <1>1, UntouchedLemma DEF Inductive, Good, Untouched, vars
  <2> QED
    BY <2>1, <2>2 DEF Inductive, Good
<1>2. ASSUME NEW w \in Workers, NEW b \in Batches, Take(w, b)
      PROVE  Inductive'
  BY <1>2, TakeLemma
<1>3. ASSUME NEW w \in Workers, Batch(w)
      PROVE  Inductive'
  BY <1>3, LaunchLemma, PhaseLemma, CompareLemma, ScoreLemma DEF Batch
<1>4. ASSUME NEW w \in Workers, NEW i, Task(w, i)
      PROVE  Inductive'
  BY <1>4, SkipEmptyLemma, AskLemma, RequestLemma, CollectLemma, LeaveLemma DEF Task
<1> QED
  BY <1>1, <1>2, <1>3, <1>4 DEF Next

----------------------------------------------------------------------------
\* Slots are neither leaked nor released twice, every goroutine's result is
\* kept and the sort is never undone, whatever the requests of a batch do.
THEOREM InductiveHolds == Spec => []Inductive
<1> QED
  BY InitLemma, StepLemma, PTL DEF Spec

\* The results of a batch leave HandleBatch sorted by SUPI: the exchange sort
\* of sortResultsBySUPI sorts, however the goroutines were interleaved.
THEOREM ExportedInOrderHolds == Spec => []ExportedInOrder
<1>1. Inductive => ExportedInOrder
  BY DEF Inductive, ExportedInOrder
<1> QED
  BY <1>1, InductiveHolds, PTL

\* A UE has as many results in the exported slice as it has records in the
\* batch, and with a cutoff above the 0.1 of a failed request only an answer
\* of the server makes one an attack.
THEOREM OneResultPerRecordHolds ==
  ASSUME FailOpen < Cutoff
  PROVE  Spec => []OneResultPerRecord
<1>1. Inductive => OneResultPerRecord
  <2> SUFFICES ASSUME Inductive, NEW w \in Workers, pc[w] = "export"
               PROVE  /\ \A i \in Indices(w) : Cardinality(RecordsOf(w, batch[w][i].supi))
                                                 = Cardinality(ResultsOf(w, batch[w][i].supi))
                      /\ \A i \in DOMAIN results[w] : results[w][i].attack => results[w][i].by = "llm"
    BY DEF OneResultPerRecord
  <2>1. TypeOK /\ Collecting(w) /\ \A i \in Indices(w) : task[w][i] = "done"
    BY DEF Inductive, Collecting
  <2>2. \A u : Collected(w, u) = RecordsOf(w, u)
    BY <2>1 DEF Collected, RecordsOf
  <2>3. ASSUME NEW i \in DOMAIN results[w], results[w][i].attack
        PROVE  results[w][i].by = "llm"
    <3>1. results[w][i] \in Results
      BY <2>1, <2>3, ElementOfSeq, LenProperties DEF TypeOK
    <3>2. results[w][i].score \in Int /\ Cutoff \in Int /\ FailOpen \in Int
      BY <3>1, DetectorAssumption DEF Results, Scores, FailOpen
    <3>3. results[w][i].score >= Cutoff /\ Genuine(results[w][i])
      BY <2>1, <2>3 DEF Collecting
    <3> QED
      BY <3>2, <3>3 DEF Genuine
  <2> QED
    BY <2>1, <2>2, <2>3 DEF Collecting
<1> QED
  BY <1>1, InductiveHolds, PTL

=============================================================================
