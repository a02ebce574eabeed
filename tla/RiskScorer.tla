----------------------------- MODULE RiskScorer -----------------------------
(***************************************************************************)
(* The risk scorer of internal/analyzer/scorer/risk_scorer.go: a leaky     *)
(* bucket per UE that an attack verdict fills and time empties, with two   *)
(* thresholds for BLOCKED and NORMAL.                                      *)
(*                                                                         *)
(* The workers of the inference queue call ProcessInferenceResults, each   *)
(* for its own batch, at the same time.  A call reads the clock once,      *)
(* before it takes any lock, and then applies its results one by one; a    *)
(* result is applied in two critical sections, one of rs.mu (find or       *)
(* create the UE) and one of the UE's own mutex (update it).               *)
(*                                                                         *)
(* Scores are integers in units in which the two steps are whole.  The     *)
(* clock is in seconds (Unix()) and never goes back.  BlockedSince, which  *)
(* only a log line reads, is left out.                                     *)
(***************************************************************************)
EXTENDS Integers, Sequences, FiniteSets

CONSTANTS Workers,            \* the workers of the inference queue
          UEs,                \* SUPIs
          Batches,            \* what a poll may bring: sequences of results
          MaxScore,
          HitsToBan, SecondsToForgive,
          Configurations, \* the thresholds a file may set, 0 when absent
          DefaultBlock, DefaultUnblock, \* 80 and 50 percent of MaxScore
          AdminResets,        \* may ResetUE be called?
          MaxTime, MaxBatches \* bounds of the model

Results == [supi : UEs, attack : BOOLEAN]

ASSUME RiskAssumption ==
  /\ MaxScore \in Nat \ {0}
  /\ HitsToBan \in Nat \ {0} /\ SecondsToForgive \in Nat \ {0}
  /\ Configurations \subseteq [block : Int, unblock : Int]
  /\ DefaultBlock \in 1..MaxScore /\ DefaultUnblock \in 1..DefaultBlock - 1
  /\ IsFiniteSet(Workers)
  /\ Batches \subseteq Seq(Results)
  /\ MaxTime \in Nat /\ MaxBatches \in Nat
  /\ AdminResets \in BOOLEAN

VARIABLES conf,       \* the configuration the program was started with
          now,
          known,      \* the keys of rs.ueStates
          score, blocked, lastUpdate, attackCount,  \* the state of each UE
          pc, stamp, todo,   \* each worker: currentTime, the results to apply
          polls,      \* batches handed to the scorer
          offered,    \* history: attack verdicts in those batches
          erased      \* history: attack counts that ResetUE wiped

(***************************************************************************)
(* The configuration the scorer works with: GetRiskScorerConfig puts the   *)
(* default for an absent threshold, NewRiskScorer replaces what is out of  *)
(* range, but does not look at the result again.                           *)
(***************************************************************************)
AttackStep == MaxScore \div HitsToBan
DecayStep == MaxScore \div SecondsToForgive

BlockThreshold ==
  IF conf.block <= 0 \/ conf.block > MaxScore THEN DefaultBlock ELSE conf.block

\* Mutant: the configured value is taken as it is.
UnblockAsConfigured == IF conf.unblock <= 0 THEN DefaultUnblock ELSE conf.unblock

UnblockThreshold ==
  IF conf.unblock <= 0 \/ conf.unblock >= BlockThreshold
    THEN DefaultUnblock ELSE conf.unblock

\* A block threshold below the default unblock threshold, and no unblock
\* threshold below that: the default is put above the block threshold.
Misordered ==
  /\ BlockThreshold < DefaultUnblock
  /\ conf.unblock \notin 1..BlockThreshold - 1

ueVars == <<known, score, blocked, lastUpdate, attackCount>>
workVars == <<pc, stamp, todo, polls, offered>>
vars == <<conf, now, ueVars, workVars, erased>>

Init ==
  /\ conf \in Configurations
  /\ now = 0
  /\ known = {}
  /\ score = [u \in UEs |-> 0]
  /\ blocked = [u \in UEs |-> FALSE]
  /\ lastUpdate = [u \in UEs |-> 0]
  /\ attackCount = [u \in UEs |-> 0]
  /\ pc = [w \in Workers |-> "idle"]
  /\ stamp = [w \in Workers |-> 0]
  /\ todo = [w \in Workers |-> <<>>]
  /\ polls = 0
  /\ offered = [u \in UEs |-> 0]
  /\ erased = [u \in UEs |-> 0]

\* The attack verdicts on a UE among results.  Each is named by how many
\* results come after it, so that it keeps its name while those before it
\* are applied.
Attacks(results, u) ==
  {k \in 0..Len(results) - 1 : results[Len(results) - k] = [supi |-> u, attack |-> TRUE]}

----------------------------------------------------------------------------
Tick ==
  /\ now < MaxTime
  /\ now' = now + 1
  /\ UNCHANGED <<conf, ueVars, workVars, erased>>

\* ProcessInferenceResults: an empty batch returns before the clock is read.
Begin(w, batch) ==
  /\ pc[w] = "idle"
  /\ polls < MaxBatches
  /\ batch # <<>>
  /\ polls' = polls + 1
  /\ stamp' = [stamp EXCEPT ![w] = now]
  /\ todo' = [todo EXCEPT ![w] = batch]
  /\ pc' = [pc EXCEPT ![w] = "find"]
  /\ offered' = [u \in UEs |-> offered[u] + Cardinality(Attacks(batch, u))]
  /\ UNCHANGED <<conf, now, ueVars, erased>>

Result(w) == Head(todo[w])

\* The part of processOneUE under rs.mu: a UE not seen before gets a state.
Create(w) ==
  LET u == Result(w).supi IN
  /\ known' = known \cup {u}
  /\ score' = [score EXCEPT ![u] = 0]
  /\ blocked' = [blocked EXCEPT ![u] = FALSE]
  /\ lastUpdate' = [lastUpdate EXCEPT ![u] = stamp[w]]
  /\ attackCount' = [attackCount EXCEPT ![u] = 0]

\* Mutant: a state is created without looking whether there is one.
AlwaysCreate(w) == Create(w)

FindOrCreate(w) ==
  IF Result(w).supi \in known THEN UNCHANGED ueVars ELSE Create(w)

Find(w) ==
  /\ pc[w] = "find"
  /\ pc' = [pc EXCEPT ![w] = "update"]
  /\ FindOrCreate(w)
  /\ UNCHANGED <<conf, now, stamp, todo, polls, offered, erased>>

(***************************************************************************)
(* The part under the UE's mutex.  A batch that comes late (the UE was     *)
(* updated with a later clock in the meantime) decays nothing, but sets    *)
(* LastUpdateTs back to its own clock.                                     *)
(***************************************************************************)
\* Mutant: a negative delta is used as it is.
LeakBothWays(s, delta) == IF s > DecayStep * delta THEN s - DecayStep * delta ELSE 0

Leak(s, delta) ==
  IF delta > 0
    THEN IF s > DecayStep * delta THEN s - DecayStep * delta ELSE 0
    ELSE s

\* Mutant: no cap at MaxScore.
ChargeWithoutCap(s, attack) == IF attack THEN s + AttackStep ELSE s

Charge(s, attack) ==
  IF attack
    THEN IF s + AttackStep > MaxScore THEN MaxScore ELSE s + AttackStep
    ELSE s

Decide(isBlocked, s) ==
  \/ isBlocked /\ ~ (s < UnblockThreshold)
  \/ ~ isBlocked /\ s >= BlockThreshold

Update(w) ==
  LET u == Result(w).supi
      attack == Result(w).attack
      delta == stamp[w] - lastUpdate[u]
      s == Charge(Leak(score[u], delta), attack)
  IN
  /\ pc[w] = "update"
  /\ score' = [score EXCEPT ![u] = s]
  /\ attackCount' = [attackCount EXCEPT ![u] = IF attack THEN @ + 1 ELSE @]
  /\ blocked' = [blocked EXCEPT ![u] = Decide(@, s)]
  /\ lastUpdate' = [lastUpdate EXCEPT ![u] = stamp[w]]
  /\ todo' = [todo EXCEPT ![w] = Tail(@)]
  /\ pc' = [pc EXCEPT ![w] = IF Len(todo[w]) = 1 THEN "idle" ELSE "find"]
  /\ UNCHANGED <<conf, now, known, stamp, polls, offered, erased>>

\* ResetUE holds both mutexes.
Reset(u) ==
  /\ AdminResets
  /\ u \in known
  /\ score' = [score EXCEPT ![u] = 0]
  /\ blocked' = [blocked EXCEPT ![u] = FALSE]
  /\ attackCount' = [attackCount EXCEPT ![u] = 0]
  /\ lastUpdate' = [lastUpdate EXCEPT ![u] = now]
  /\ erased' = [erased EXCEPT ![u] = @ + attackCount[u]]
  /\ UNCHANGED <<conf, now, known, workVars>>

Next ==
  \/ Tick
  \/ \E w \in Workers, batch \in Batches : Begin(w, batch)
  \/ \E w \in Workers : Find(w) \/ Update(w)
  \/ \E u \in UEs : Reset(u)

Spec == Init /\ [][Next]_vars

----------------------------------------------------------------------------
TypeOK ==
  /\ conf \in Configurations
  /\ now \in Nat
  /\ known \in SUBSET UEs
  /\ score \in [UEs -> 0..MaxScore]
  /\ blocked \in [UEs -> BOOLEAN]
  /\ lastUpdate \in [UEs -> Nat]
  /\ attackCount \in [UEs -> Nat]
  /\ pc \in [Workers -> {"idle", "find", "update"}]
  /\ stamp \in [Workers -> Nat]
  /\ todo \in [Workers -> Seq(Results)]
  /\ polls \in Nat
  /\ offered \in [UEs -> Nat] /\ erased \in [UEs -> Nat]

(***************************************************************************)
(* What an administrator reads in a status is true of the score: a UE is   *)
(* NORMAL only below the block threshold and BLOCKED only from the unblock *)
(* threshold up, whatever the order in which batches are applied.  Where   *)
(* the thresholds are misordered there are scores that are both.           *)
(***************************************************************************)
StatusFitsScore ==
  ~ Misordered =>
    \A u \in UEs : IF blocked[u] THEN score[u] >= UnblockThreshold
                                 ELSE score[u] < BlockThreshold

(***************************************************************************)
(* Risk is earned: however batches interleave and late as they may be, a   *)
(* score is at most what its attacks charged, and so no UE is BLOCKED on   *)
(* fewer attacks than it takes to fill the bucket to the block threshold.  *)
(***************************************************************************)
RiskIsEarned ==
  \A u \in UEs :
    /\ score[u] <= attackCount[u] * AttackStep
    /\ blocked[u] => attackCount[u] * AttackStep >= BlockThreshold

(***************************************************************************)
(* No flapping, unless the thresholds are misordered: an update that       *)
(* leaves a score as it is leaves the status as it is, so only an attack   *)
(* or the passing of time changes a status.  docs/RISK_SCORING.md promises *)
(* this of any configuration ("uses dual-threshold hysteresis to avoid     *)
(* status jitter"); between misordered thresholds each update of a UE      *)
(* whose score stays there turns its status over.                          *)
(***************************************************************************)
NoFlapping ==
  [][~ Misordered =>
       \A u \in UEs : score'[u] = score[u] /\ attackCount'[u] = attackCount[u]
                         => blocked'[u] = blocked[u]]_vars

(***************************************************************************)
(* Every attack counts once: those of the batches taken so far are in the  *)
(* counters, were wiped by ResetUE, or are still to be applied.            *)
(***************************************************************************)
Unapplied(u) == UNION {{w} \X Attacks(todo[w], u) : w \in Workers}

EveryAttackCounts ==
  \A u \in UEs : attackCount[u] + erased[u] + Cardinality(Unapplied(u)) = offered[u]

(***************************************************************************)
(* What makes the above inductive.                                         *)
(***************************************************************************)
Inductive ==
  /\ TypeOK
  /\ \A w \in Workers : IF pc[w] = "idle" THEN todo[w] = <<>> ELSE Len(todo[w]) > 0
  /\ \A w \in Workers : pc[w] = "update" => Result(w).supi \in known
  /\ \A u \in UEs \ known : attackCount[u] = 0
  /\ StatusFitsScore
  /\ RiskIsEarned
=============================================================================
