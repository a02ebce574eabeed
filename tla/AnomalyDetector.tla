-------------------------- MODULE AnomalyDetector --------------------------
(***************************************************************************)
(* HandleBatch of internal/analyzer/detector/anomaly_detector.go, run by   *)
(* the workers of the inference queue, each with a batch of its own.       *)
(*                                                                         *)
(* A worker launches one goroutine per record, no more at a time than its  *)
(* semaphore has slots; each goroutine skips an empty record or asks the   *)
(* LLM server (PredictSingleUE), which answers, answers what no pattern    *)
(* matches, fails, or times out; the goroutines append their results to    *)
(* one slice under a mutex; when all are done the worker sorts the slice,  *)
(* runs the risk scorer over it and offers each result to the export       *)
(* queue.  The score and status the risk scorer adds are in RiskScorer;    *)
(* here it only tells an attack from the rest.  The queues around the      *)
(* detector are BaseQueue.                                                 *)
(*                                                                         *)
(* Scores are in tenths.  A result also carries "by", where it comes from, *)
(* which the code does not record.                                         *)
(***************************************************************************)
EXTENDS Integers, FiniteSets, Sequences

CONSTANTS Workers,        \* the workers of the inference queue
          Batches,        \* the batches a worker may be given
          MaxConcurrent,  \* slots of a semaphore
          LLMScores,      \* scores the server answers
          Cutoff,         \* LLMConfidenceCutoff
          RiskScoring,    \* is a risk scorer configured?
          MaxRecords, MaxBatches \* bounds of the model

\* A record: whose it is, and is there uplink traffic in it?
Records == [supi : Int, ul : BOOLEAN]
Scores == 0..10

ASSUME DetectorAssumption ==
  /\ Batches \subseteq Seq(Records)
  /\ MaxConcurrent \in Nat \ {0}
  /\ LLMScores \subseteq Scores
  /\ Cutoff \in Scores \ {0}
  /\ RiskScoring \in BOOLEAN
  /\ MaxBatches \in Nat /\ MaxRecords \in Nat
  /\ \A b \in Batches : Len(b) <= MaxRecords

VARIABLES pc,        \* each worker: where it is in HandleBatch
          batch,     \* the records of its batch
          launched,  \* how many goroutines the loop has launched
          sem,       \* slots of its semaphore that are taken
          task,      \* where the goroutine of each record is
          answer,    \* what PredictSingleUE made of each record
          results,   \* allResults
          pair,      \* i and j of the sort's loops
          next,      \* the next result to offer to the export queue
          taken      \* batches taken so far

vars == <<pc, batch, launched, sem, task, answer, results, pair, next, taken>>

Tasks == {"none", "launched", "asking", "answered", "leaving", "done"}
Busy == {"launched", "asking", "answered", "leaving"}   \* holds a slot

Results == [supi : Int, score : Scores,
            by : {"nobody", "llm", "failopen", "empty"}, attack : BOOLEAN]
NoAnswer == [supi |-> 0, score |-> 0, by |-> "nobody", attack |-> FALSE]

Init ==
  /\ pc = [w \in Workers |-> "idle"]
  /\ batch = [w \in Workers |-> <<>>]
  /\ launched = [w \in Workers |-> 0]
  /\ sem = [w \in Workers |-> 0]
  /\ task = [w \in Workers |-> <<>>]
  /\ answer = [w \in Workers |-> <<>>]
  /\ results = [w \in Workers |-> <<>>]
  /\ pair = [w \in Workers |-> <<1, 2>>]
  /\ next = [w \in Workers |-> 1]
  /\ taken = 0

Indices(w) == 1..Len(batch[w])

\* isEmptyRecord: only the uplink features are looked at.
IsEmptyRecord(record) == ~ record.ul

----------------------------------------------------------------------------
\* HandleBatch is called; an empty batch returns at once.
Take(w, b) ==
  /\ pc[w] = "idle"
  /\ taken < MaxBatches
  /\ taken' = taken + 1
  /\ b # <<>>
  /\ batch' = [batch EXCEPT ![w] = b]
  /\ launched' = [launched EXCEPT ![w] = 0]
  /\ sem' = [sem EXCEPT ![w] = 0]
  /\ task' = [task EXCEPT ![w] = [i \in 1..Len(b) |-> "none"]]
  /\ answer' = [answer EXCEPT ![w] = [i \in 1..Len(b) |-> NoAnswer]]
  /\ results' = [results EXCEPT ![w] = <<>>]
  /\ next' = [next EXCEPT ![w] = 1]
  /\ pc' = [pc EXCEPT ![w] = "launch"]
  /\ UNCHANGED pair

\* Mutant: no semaphore.
LaunchFreely(w) ==
  /\ pc[w] = "launch"
  /\ launched[w] < Len(batch[w])
  /\ sem' = [sem EXCEPT ![w] = @ + 1]
  /\ launched' = [launched EXCEPT ![w] = @ + 1]
  /\ task' = [task EXCEPT ![w][launched[w] + 1] = "launched"]
  /\ UNCHANGED <<pc, batch, answer, results, pair, next, taken>>

\* One turn of the loop: take a slot, which may block, and launch.
Launch(w) ==
  /\ pc[w] = "launch"
  /\ launched[w] < Len(batch[w])
  /\ sem[w] < MaxConcurrent
  /\ sem' = [sem EXCEPT ![w] = @ + 1]
  /\ launched' = [launched EXCEPT ![w] = @ + 1]
  /\ task' = [task EXCEPT ![w][launched[w] + 1] = "launched"]
  /\ UNCHANGED <<pc, batch, answer, results, pair, next, taken>>

LoopEnds(w) ==
  /\ pc[w] = "launch"
  /\ launched[w] = Len(batch[w])
  /\ pc' = [pc EXCEPT ![w] = "wait"]
  /\ UNCHANGED <<batch, launched, sem, task, answer, results, pair, next, taken>>

----------------------------------------------------------------------------
(***************************************************************************)
(* The goroutine of record i.                                              *)
(***************************************************************************)
Advance(w, i, from, to) ==
  /\ i \in Indices(w)
  /\ task[w][i] = from
  /\ task' = [task EXCEPT ![w][i] = to]
  /\ UNCHANGED <<pc, batch, launched, pair, next, taken>>

Result(w, i, score, by) ==
  [supi |-> batch[w][i].supi, score |-> score, by |-> by, attack |-> FALSE]

\* An empty record: no request, a score of zero.
SkipEmpty(w, i) ==
  /\ Advance(w, i, "launched", "leaving")
  /\ IsEmptyRecord(batch[w][i])
  /\ results' = [results EXCEPT ![w] = Append(@, Result(w, i, 0, "empty"))]
  /\ UNCHANGED <<sem, answer>>

Ask(w, i) ==
  /\ Advance(w, i, "launched", "asking")
  /\ ~ IsEmptyRecord(batch[w][i])
  /\ UNCHANGED <<sem, answer, results>>

Receive(w, i, result) ==
  /\ Advance(w, i, "asking", "answered")
  /\ answer' = [answer EXCEPT ![w][i] = result]
  /\ UNCHANGED <<sem, results>>

FailOpen == 1

Answer(w, i) == \E s \in LLMScores : Receive(w, i, Result(w, i, s, "llm"))

\* No pattern matches the answer.
Unparsable(w, i) == Receive(w, i, Result(w, i, FailOpen, "failopen"))

\* A timeout, a refused connection, a status other than 200, bad JSON.
Fail(w, i) == Receive(w, i, Result(w, i, FailOpen, "failopen"))

\* Mutant: append without the mutex, two appends may overwrite each other.
CollectUnlocked(w, i) ==
  /\ Advance(w, i, "answered", "leaving")
  /\ \/ results' = [results EXCEPT ![w] = Append(@, answer[w][i])]
     \/ /\ results[w] # <<>>
        /\ results' = [results EXCEPT ![w][Len(results[w])] = answer[w][i]]
  /\ UNCHANGED <<sem, answer>>

Collect(w, i) ==
  /\ Advance(w, i, "answered", "leaving")
  /\ results' = [results EXCEPT ![w] = Append(@, answer[w][i])]
  /\ UNCHANGED <<sem, answer>>

\* Mutant: a request that fails does not release its slot.
LeaveKeepsSlot(w, i) ==
  /\ Advance(w, i, "leaving", "done")
  /\ sem' = IF answer[w][i].by = "failopen" THEN sem ELSE [sem EXCEPT ![w] = @ - 1]
  /\ UNCHANGED <<answer, results>>

\* The deferred release of the slot, and wg.Done.
Leave(w, i) ==
  /\ Advance(w, i, "leaving", "done")
  /\ sem' = [sem EXCEPT ![w] = @ - 1]
  /\ UNCHANGED <<answer, results>>

Request(w, i) == Answer(w, i) \/ Unparsable(w, i) \/ Fail(w, i)
Task(w, i) == SkipEmpty(w, i) \/ Ask(w, i) \/ Request(w, i) \/ Collect(w, i) \/ Leave(w, i)

----------------------------------------------------------------------------
\* wg.Wait, and the sort begins.
AllDone(w) ==
  /\ pc[w] = "wait"
  /\ \A i \in Indices(w) : task[w][i] = "done"
  /\ pc' = [pc EXCEPT ![w] = "sort"]
  /\ pair' = [pair EXCEPT ![w] = <<1, 2>>]
  /\ UNCHANGED <<batch, launched, sem, task, answer, results, next, taken>>

(***************************************************************************)
(* sortResultsBySUPI: every pair i < j in turn, exchanged if out of order. *)
(***************************************************************************)
Exchanged(s, i, j) ==
  IF s[i].supi > s[j].supi THEN [s EXCEPT ![i] = s[j], ![j] = s[i]] ELSE s

\* Mutant: only neighbours are compared, once.
CompareNeighbours(w) ==
  LET i == pair[w][1] j == pair[w][2] IN
  /\ pc[w] = "sort"
  /\ i < Len(results[w])
  /\ results' = [results EXCEPT ![w] = Exchanged(@, i, j)]
  /\ pair' = [pair EXCEPT ![w] = <<i + 1, i + 2>>]
  /\ UNCHANGED <<pc, batch, launched, sem, task, answer, next, taken>>

Compare(w) ==
  LET i == pair[w][1] j == pair[w][2] IN
  /\ pc[w] = "sort"
  /\ i < Len(results[w])
  /\ results' = [results EXCEPT ![w] = Exchanged(@, i, j)]
  /\ pair' = [pair EXCEPT ![w] = IF j < Len(results[w]) THEN <<i, j + 1>>
                                                        ELSE <<i + 1, i + 2>>]
  /\ UNCHANGED <<pc, batch, launched, sem, task, answer, next, taken>>

\* The risk scorer's verdict; without it no result is an attack.
Judge(result) ==
  [result EXCEPT !.attack = RiskScoring /\ result.score >= Cutoff]

\* The sort is done: the risk scorer, once over all of them.
Score(w) ==
  /\ pc[w] = "sort"
  /\ pair[w][1] >= Len(results[w])
  /\ pc' = [pc EXCEPT ![w] = "export"]
  /\ results' = [results EXCEPT ![w] = [i \in DOMAIN @ |-> Judge(@[i])]]
  /\ UNCHANGED <<batch, launched, sem, task, answer, pair, next, taken>>

\* EnqueueExport; a result the queue refuses is logged and forgotten.
Offer(w) ==
  /\ pc[w] = "export"
  /\ next[w] <= Len(results[w])
  /\ next' = [next EXCEPT ![w] = @ + 1]
  /\ UNCHANGED <<pc, batch, launched, sem, task, answer, results, pair, taken>>

Finish(w) ==
  /\ pc[w] = "export"
  /\ next[w] > Len(results[w])
  /\ pc' = [pc EXCEPT ![w] = "idle"]
  /\ UNCHANGED <<batch, launched, sem, task, answer, results, pair, next, taken>>

Batch(w) ==
  \/ Launch(w) \/ LoopEnds(w) \/ AllDone(w)
  \/ Compare(w) \/ Score(w)
  \/ Offer(w) \/ Finish(w)

Next ==
  \E w \in Workers :
    \/ \E b \in Batches : Take(w, b)
    \/ Batch(w)
    \/ \E i \in Indices(w) : Task(w, i)

Spec == Init /\ [][Next]_vars

(***************************************************************************)
(* Goroutines run; a request ends, by its timeout if by nothing else.      *)
(***************************************************************************)
FairSpec ==
  /\ Spec
  /\ \A w \in Workers : WF_vars(Batch(w))
  /\ \A w \in Workers, i \in 1..MaxRecords : WF_vars(Task(w, i))

----------------------------------------------------------------------------
TypeOK ==
  /\ pc \in [Workers -> {"idle", "launch", "wait", "sort", "export"}]
  /\ batch \in [Workers -> Seq(Records)]
  /\ launched \in [Workers -> Nat]
  /\ sem \in [Workers -> 0..MaxConcurrent]
  /\ DOMAIN task = Workers /\ DOMAIN answer = Workers
  /\ \A w \in Workers :
       /\ task[w] \in [Indices(w) -> Tasks]
       /\ answer[w] \in [Indices(w) -> Results]
  /\ results \in [Workers -> Seq(Results)]
  /\ pair \in [Workers -> Nat \X Nat]
  /\ next \in [Workers -> Nat]
  /\ taken \in Nat

(***************************************************************************)
(* A slot of the semaphore is held by each goroutine that was launched and *)
(* has not left, and by nobody else: slots do not leak, so the loop never  *)
(* blocks for good.                                                        *)
(***************************************************************************)
Holders(w) == {i \in Indices(w) : task[w][i] \in Busy}

SlotsAreHeld(w) ==
  /\ sem[w] = Cardinality(Holders(w))
  /\ \A i \in Indices(w) : task[w][i] = "none" <=> i > launched[w]

(***************************************************************************)
(* Every record of a batch has one result when the results are exported,   *)
(* whatever became of its request and in whatever order the goroutines     *)
(* finished: a SUPI has as many results as it has records, and only an     *)
(* answer of the server makes one of them an attack, never a request that  *)
(* failed or was not made (the cutoff being above 0.1).                    *)
(***************************************************************************)
RecordsOf(w, u) == {i \in Indices(w) : batch[w][i].supi = u}
ResultsOf(w, u) == {j \in DOMAIN results[w] : results[w][j].supi = u}

OneResultPerRecord ==
  \A w \in Workers : pc[w] = "export" =>
    /\ \A i \in Indices(w) :
         LET u == batch[w][i].supi IN
         Cardinality(RecordsOf(w, u)) = Cardinality(ResultsOf(w, u))
    /\ \A i \in DOMAIN results[w] : results[w][i].attack => results[w][i].by = "llm"

(***************************************************************************)
(* The results of a batch are exported in the order of their SUPIs.        *)
(***************************************************************************)
InOrder(w) ==
  pc[w] = "export" =>
    \A i, j \in DOMAIN results[w] : i < j => results[w][i].supi <= results[w][j].supi

ExportedInOrder == \A w \in Workers : InOrder(w)

\* There is a result for each record whose goroutine has collected it.  A
\* score above that of a failure is the server's.
Collected(w, u) == {i \in RecordsOf(w, u) : task[w][i] \in {"leaving", "done"}}
Genuine(result) == result.by # "llm" => result.score <= FailOpen

Collecting(w) ==
  /\ \A i \in Indices(w) : task[w][i] = "answered" =>
       /\ answer[w][i].supi = batch[w][i].supi
       /\ Genuine(answer[w][i]) /\ ~ answer[w][i].attack
  /\ \A j \in DOMAIN results[w] :
       /\ Genuine(results[w][j])
       /\ results[w][j].attack => results[w][j].score >= Cutoff
  /\ \A i \in Indices(w) :
       LET u == batch[w][i].supi IN
       Cardinality(Collected(w, u)) = Cardinality(ResultsOf(w, u))
  /\ pc[w] \in {"sort", "export"} => \A i \in Indices(w) : task[w][i] = "done"

\* The pairs the sort has compared are in order, and stay so.
Sorting(w) ==
  LET i == pair[w][1] j == pair[w][2] IN
  pc[w] = "sort" =>
    /\ 0 < i /\ i < j
    /\ i < Len(results[w]) => j <= Len(results[w])
    /\ \A a, b \in DOMAIN results[w] :
         a < b /\ (a < i \/ (a = i /\ b < j)) => results[w][a].supi <= results[w][b].supi

\* The type of the state; and of each worker, who holds its slots, and what
\* was collected and sorted so far.
Inductive ==
  /\ TypeOK
  /\ \A w \in Workers : SlotsAreHeld(w) /\ Collecting(w) /\ Sorting(w) /\ InOrder(w)

(***************************************************************************)
(* HandleBatch returns, even if every request of the batch times out.      *)
(***************************************************************************)
BatchFinishes == \A w \in Workers : pc[w] # "idle" ~> pc[w] = "idle"

=============================================================================
