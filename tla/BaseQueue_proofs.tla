-------------------------- MODULE BaseQueue_proofs --------------------------
(***************************************************************************)
(* Proofs about BaseQueue, for any number of workers, any messages and any *)
(* channel capacity.  Everything follows from one inductive invariant,     *)
(* Inductive, shown to be kept by each action in a lemma of its own.       *)
(***************************************************************************)
EXTENDS BaseQueue, TLAPS

(***************************************************************************)
(* What sending to and receiving from the channel does to its contents:    *)
(* the two facts about sequences that the actions need.                    *)
(***************************************************************************)
LEMMA SendLemma ==
  ASSUME NEW s \in Seq(Msgs), NEW m \in Msgs
  PROVE  /\ Append(s, m) \in Seq(Msgs)
         /\ Len(Append(s, m)) = Len(s) + 1
         /\ \A i \in 1..Len(s) : Append(s, m)[i] = s[i]
         /\ Append(s, m)[Len(s) + 1] = m
  OBVIOUS

LEMMA ReceiveLemma ==
  ASSUME NEW s \in Seq(Msgs), s # <<>>
  PROVE  /\ Len(s) \in Nat /\ Len(s) >= 1
         /\ Head(s) = s[1] /\ Head(s) \in Msgs
         /\ Tail(s) \in Seq(Msgs)
         /\ Len(Tail(s)) = Len(s) - 1
         /\ \A i \in 1..Len(s) - 1 : Tail(s)[i] = s[i + 1]
  OBVIOUS

-----------------------------------------------------------------------------
\* Initially the channel is empty and no worker runs.
LEMMA InitLemma == Init => Inductive
<1> SUFFICES ASSUME Init
             PROVE  Inductive
  OBVIOUS
<1>1. queue = <<>> /\ queue \in Seq(Msgs) /\ Len(queue) = 0
  BY DEF Init
<1>2. \A m \in Msgs : ~ InQueue(m)
  BY <1>1 DEF InQueue
<1>3. \A m \in Msgs : ~ InHand(m)
  BY NoMsgAssumption DEF Init, InHand
<1>4. TypeOK
  <2>1. Len(queue) <= BufferSize
    BY <1>1, SizeAssumption
  <2>2. /\ verdict \in [Msgs -> Verdicts] /\ pc \in [Workers -> PCs]
        /\ cur \in [Workers -> Msgs \cup {NoMsg}] /\ runs \in [Msgs -> Nat]
    BY DEF Init, PCs, Verdicts
  <2>3. /\ ctxDone \in BOOLEAN /\ stopChan \in BOOLEAN /\ owed \in SUBSET Msgs
        /\ stopResult \in {"none", "waiting", "ok", "timeout"}
    BY DEF Init
  <2> QED
    BY <1>1, <2>1, <2>2, <2>3 DEF TypeOK
<1>5. Conservation
  BY <1>1, <1>2, <1>3 DEF Init, Conservation
<1> QED
  BY <1>4, <1>5 DEF Init, Inductive, Handling, AllGone

\* Sending a message that was in no place puts it in exactly one.
LEMMA AcceptLemma ==
  ASSUME Inductive, NEW m \in Msgs, Accept(m)
  PROVE  Inductive'
<1> USE DEF Inductive
<1>1. /\ queue' = Append(queue, m) /\ queue \in Seq(Msgs)
      /\ verdict' = [verdict EXCEPT ![m] = "accepted"]
      /\ verdict[m] = "none" /\ Len(queue) < BufferSize
  BY DEF Accept, TypeOK
<1>2. UNCHANGED <<pc, cur, runs, ctxDone, stopChan, stopResult, owed>>
  BY DEF Accept
<1>3. \A n \in Msgs : InQueue(n)' <=> InQueue(n) \/ n = m
  BY <1>1, SendLemma DEF InQueue
<1>4. \A n \in Msgs : InHand(n)' <=> InHand(n)
  BY <1>2 DEF InHand
<1>5. ~ InQueue(m) /\ ~ InHand(m) /\ ~ (runs[m] > 0)
  BY <1>1 DEF Conservation
<1>6. TypeOK'
  BY <1>1, <1>2, SendLemma, SizeAssumption DEF TypeOK, Verdicts
<1>7. Conservation'
  <2>1. (\A i, j \in 1..Len(queue) : queue[i] = queue[j] => i = j)'
    BY <1>1, <1>5, SendLemma DEF Conservation, InQueue
  <2>2. \A n \in Msgs : n # m => verdict'[n] = verdict[n]
    BY <1>1
  <2>3. verdict'[m] = "accepted"
    BY <1>1 DEF TypeOK
  <2>4. runs[m] = 0
    BY <1>5 DEF TypeOK
  <2> QED
    BY <2>1, <2>2, <2>3, <2>4, <1>2, <1>3, <1>4, <1>5 DEF Conservation
<1>8. m \notin owed
  BY <1>1
<1>9. \A n \in owed : verdict'[n] = "accepted" /\ (InQueue(n)' => InQueue(n))
  BY <1>1, <1>3, <1>8 DEF TypeOK
<1> QED
  BY <1>2, <1>6, <1>7, <1>9 DEF AllGone

\* A refused message goes nowhere.
LEMMA RefuseLemma ==
  ASSUME Inductive, NEW m \in Msgs, RefuseShutdown(m) \/ RefuseFull(m)
  PROVE  Inductive'
<1> USE DEF Inductive
<1>1. /\ UNCHANGED <<queue, pc, cur, runs, ctxDone, stopChan, stopResult, owed>>
      /\ verdict[m] = "none"
      /\ \E v \in {"shutdown", "full"} : verdict' = [verdict EXCEPT ![m] = v]
  BY DEF RefuseShutdown, RefuseFull
<1>2. \A n \in Msgs : verdict[n] = "accepted" <=> verdict'[n] = "accepted"
  BY <1>1 DEF TypeOK
<1>3. TypeOK'
  BY <1>1 DEF TypeOK, Verdicts
<1>4. Conservation'
  BY <1>1, <1>2 DEF Conservation, InQueue, InHand
<1> QED
  BY <1>1, <1>2, <1>3, <1>4 DEF AllGone, InQueue, TypeOK

\* A receive moves the head of the channel into the worker's hands.
LEMMA ReceiveStep ==
  ASSUME Inductive, NEW w \in Workers,
         Process(w) \/ Drain(w)
  PROVE  Inductive'
<1> USE DEF Inductive
<1> DEFINE h == Head(queue)
<1>1. /\ pc[w] \in {"select", "drain"}
      /\ queue # <<>> /\ queue \in Seq(Msgs)
      /\ cur' = [cur EXCEPT ![w] = h]
      /\ queue' = Tail(queue)
      /\ UNCHANGED <<verdict, runs, ctxDone, stopChan, stopResult, owed>>
  BY DEF Process, Drain, Receive, TypeOK
<1>2. \E to \in Handling : /\ pc' = [pc EXCEPT ![w] = to]
                           /\ to = "drainHandle" => pc[w] = "drain"
  BY DEF Process, Drain, Receive, Handling
<1>3. h \in Msgs /\ InQueue(h) /\ verdict[h] = "accepted" /\ runs[h] = 0
      /\ ~ InHand(h) /\ cur[w] = NoMsg
  BY <1>1, ReceiveLemma DEF Conservation, InQueue, Handling
<1>4. \A n \in Msgs : InQueue(n)' <=> InQueue(n) /\ n # h
  <2>1. \A n \in Msgs : InQueue(n)' => InQueue(n) /\ n # h
    BY <1>1, ReceiveLemma DEF Conservation, InQueue
  <2>2. ASSUME NEW n \in Msgs, InQueue(n), n # h
        PROVE  InQueue(n)'
    <3>1. PICK i \in 1..Len(queue) : queue[i] = n
      BY <2>2 DEF InQueue
    <3>2. i - 1 \in 1..Len(queue) - 1 /\ Tail(queue)[i - 1] = queue[i]
      BY <2>2, <3>1, <1>1, ReceiveLemma
    <3> QED
      BY <3>1, <3>2, <1>1, ReceiveLemma DEF InQueue
  <2> QED
    BY <2>1, <2>2
<1>5. \A n \in Msgs : InHand(n)' <=> InHand(n) \/ n = h
  BY <1>1, <1>3, NoMsgAssumption DEF TypeOK, InHand
<1>6. TypeOK'
  BY <1>1, <1>2, <1>3, ReceiveLemma, SizeAssumption DEF TypeOK, PCs, Handling
<1>7. Conservation'
  <2>1. (\A i, j \in 1..Len(queue) : queue[i] = queue[j] => i = j)'
    BY <1>1, ReceiveLemma DEF Conservation
  <2>2. (\A u, v \in Workers : cur[u] # NoMsg /\ cur[u] = cur[v] => u = v)'
    BY <1>1, <1>3 DEF Conservation, InHand, TypeOK
  <2> QED
    BY <2>1, <2>2, <1>1, <1>3, <1>4, <1>5 DEF Conservation
<1>8. (\A v \in Workers : pc[v] \in Handling <=> cur[v] # NoMsg)'
  BY <1>1, <1>2, <1>3, NoMsgAssumption DEF TypeOK
<1>9. stopResult # "ok"
  BY <1>1 DEF AllGone, Gone
<1>10. (\A v \in Workers : pc[v] \in {"drain", "drainHandle", "stopped"} => stopChan)'
  BY <1>1, <1>2 DEF TypeOK, Handling
<1>11. \A v \in Workers : pc'[v] = "stopped" => pc[v] = "stopped"
  BY <1>2 DEF TypeOK, Handling
<1> QED
  BY <1>1, <1>4, <1>6, <1>7, <1>8, <1>9, <1>10, <1>11 DEF AllGone, TypeOK

\* The return of the handler moves the message out of the worker's hands.
LEMMA ReturnStep ==
  ASSUME Inductive, NEW w \in Workers,
         ProcessReturns(w) \/ DrainReturns(w)
  PROVE  Inductive'
<1> USE DEF Inductive
<1> DEFINE h == cur[w]
<1>1. /\ pc[w] \in Handling
      /\ runs' = [runs EXCEPT ![h] = @ + 1]
      /\ cur' = [cur EXCEPT ![w] = NoMsg]
      /\ UNCHANGED <<queue, verdict, ctxDone, stopChan, stopResult, owed>>
  BY DEF ProcessReturns, DrainReturns, Return, Handling
<1>2. \E to \in {"select", "drain"} : /\ pc' = [pc EXCEPT ![w] = to]
                                      /\ to = "drain" => pc[w] = "drainHandle"
  BY DEF ProcessReturns, DrainReturns, Return
<1>3. h \in Msgs /\ h # NoMsg /\ InHand(h) /\ ~ InQueue(h)
      /\ verdict[h] = "accepted" /\ runs[h] = 0
  BY <1>1 DEF TypeOK, Conservation, InHand
<1>4. \A n \in Msgs : InQueue(n)' <=> InQueue(n)
  BY <1>1 DEF InQueue
<1>5. \A n \in Msgs : InHand(n)' <=> InHand(n) /\ n # h
  BY <1>1, <1>3, NoMsgAssumption DEF TypeOK, InHand, Conservation
<1>6. runs'[h] = 1 /\ \A n \in Msgs : n # h => runs'[n] = runs[n]
  BY <1>1, <1>3 DEF TypeOK
<1>7. TypeOK'
  BY <1>1, <1>2, <1>3 DEF TypeOK, PCs
<1>8. Conservation'
  <2>1. (\A u, v \in Workers : cur[u] # NoMsg /\ cur[u] = cur[v] => u = v)'
    BY <1>1 DEF Conservation, TypeOK
  <2> QED
    BY <2>1, <1>1, <1>3, <1>4, <1>5, <1>6 DEF Conservation
<1>9. (\A v \in Workers : pc[v] \in Handling <=> cur[v] # NoMsg)'
  BY <1>1, <1>2 DEF TypeOK, Handling
<1>10. stopResult # "ok"
  BY <1>1 DEF AllGone, Gone, Handling
<1>11. (\A v \in Workers : pc[v] \in {"drain", "drainHandle", "stopped"} => stopChan)'
  BY <1>1, <1>2 DEF TypeOK
<1>12. \A v \in Workers : pc'[v] = "stopped" => pc[v] = "stopped"
  BY <1>2 DEF TypeOK
<1> QED
  BY <1>1, <1>4, <1>7, <1>8, <1>9, <1>10, <1>11, <1>12 DEF TypeOK

\* A worker that leaves its select, or its drain loop, holds no message.
LEMMA MoveStep ==
  ASSUME Inductive, NEW w \in Workers,
         SeeCancel(w) \/ SeeStop(w) \/ DrainEnds(w)
  PROVE  Inductive'
<1> USE DEF Inductive
<1>1. /\ pc[w] \in {"select", "drain"}
      /\ UNCHANGED <<queue, verdict, cur, runs, ctxDone, stopChan, stopResult, owed>>
  BY DEF SeeCancel, SeeStop, DrainEnds, Move
<1>2. \E to \in {"cancelled", "drain", "stopped"} :
        /\ pc' = [pc EXCEPT ![w] = to]
        /\ to = "drain" => stopChan
        /\ to = "stopped" => queue = <<>> /\ pc[w] = "drain"
  BY DEF SeeCancel, SeeStop, DrainEnds, Move
<1>3. TypeOK'
  BY <1>1, <1>2 DEF TypeOK, PCs
<1>4. Conservation'
  BY <1>1 DEF Conservation, InQueue, InHand
<1>5. (\A v \in Workers : pc[v] \in Handling <=> cur[v] # NoMsg)'
  BY <1>1, <1>2 DEF TypeOK, Handling
<1>6. stopResult # "ok"
  BY <1>1 DEF AllGone, Gone
<1>7. (\A v \in Workers : pc[v] \in {"drain", "drainHandle", "stopped"} => stopChan)'
  BY <1>1, <1>2 DEF TypeOK
<1>8. ASSUME NEW m \in owed, InQueue(m)
      PROVE  \A v \in Workers : pc'[v] # "stopped"
  <2>1. queue # <<>>
    BY <1>8 DEF InQueue
  <2>2. \A v \in Workers : pc[v] # "stopped"
    BY <1>8
  <2> QED
    BY <1>2, <2>1, <2>2 DEF TypeOK
<1> QED
  BY <1>1, <1>3, <1>4, <1>5, <1>6, <1>7, <1>8 DEF InQueue

\* Starting, cancelling and stopping move no message.
LEMMA ControlStep ==
  ASSUME Inductive,
         Start \/ Cancel \/ BeginStop \/ StopSucceeds \/ StopTimesOut
  PROVE  Inductive'
<1> USE DEF Inductive
<1>1. UNCHANGED <<queue, verdict, cur, runs>>
  BY DEF Start, Cancel, BeginStop, StopSucceeds, StopTimesOut
<1>2. Conservation'
  BY <1>1 DEF Conservation, InQueue, InHand
<1>3. CASE Start
  BY <1>1, <1>2, <1>3 DEF Start, TypeOK, PCs, Handling, AllGone
<1>4. CASE Cancel
  BY <1>1, <1>2, <1>4 DEF Cancel, TypeOK, AllGone, InQueue
<1>5. CASE BeginStop
  BY <1>1, <1>2, <1>5 DEF BeginStop, TypeOK, AllGone, InQueue
<1>6. CASE StopSucceeds
  BY <1>1, <1>2, <1>6 DEF StopSucceeds, TypeOK, AllGone, InQueue
<1>7. CASE StopTimesOut
  BY <1>1, <1>2, <1>7 DEF StopTimesOut, TypeOK, AllGone, InQueue
<1> QED
  BY <1>3, <1>4, <1>5, <1>6, <1>7

\* Doing nothing keeps the invariant.
LEMMA StutterStep == Inductive /\ UNCHANGED vars => Inductive'
  BY DEF vars, Inductive, TypeOK, Conservation, InQueue, InHand, AllGone

(***************************************************************************)
(* The inductive invariant holds in every reachable state: it gathers the  *)
(* type of the state of base_queue.go and where its messages can be.       *)
(***************************************************************************)
THEOREM InductiveHolds == Spec => []Inductive
<1>1. Inductive /\ [Next]_vars => Inductive'
  BY AcceptLemma, RefuseLemma, ReceiveStep, ReturnStep, MoveStep,
     ControlStep, StutterStep
     DEF Next, Enqueue, Worker
<1> QED
  BY InitLemma, <1>1, PTL DEF Spec

(***************************************************************************)
(* Every message Enqueue accepted is in the channel, in the hands of one   *)
(* worker, or has been handled once; a refused one is nowhere.             *)
(***************************************************************************)
THEOREM ConservationHolds == Spec => []Conservation
<1>1. Inductive => Conservation
  BY DEF Inductive
<1> QED
  BY <1>1, InductiveHolds, PTL

(***************************************************************************)
(* A successful Stop, one of whose workers drained, has handled everything *)
(* that was accepted before it: all workers have left with empty hands and *)
(* what was accepted earlier is no longer in the channel.                  *)
(***************************************************************************)
THEOREM DrainHolds == Spec => []DrainedIfAWorkerDrained
<1>1. Inductive => DrainedIfAWorkerDrained
  <2> SUFFICES ASSUME Inductive, stopResult = "ok",
                      NEW w \in Workers, pc[w] = "stopped",
                      NEW m \in owed
               PROVE  runs[m] = 1
    BY DEF DrainedIfAWorkerDrained
  <2>1. m \in Msgs /\ verdict[m] = "accepted" /\ ~ InQueue(m)
    BY DEF Inductive, TypeOK
  <2>2. \A v \in Workers : cur[v] = NoMsg
    BY DEF Inductive, AllGone, Gone, Handling
  <2>3. ~ InHand(m)
    BY <2>1, <2>2, NoMsgAssumption DEF InHand
  <2> QED
    BY <2>1, <2>3 DEF Inductive, Conservation
<1> QED
  BY <1>1, InductiveHolds, PTL

(***************************************************************************)
(* Once Stop has returned success no worker receives and no handler        *)
(* returns: what the handler writes to may be closed.                      *)
(***************************************************************************)
THEOREM QuietHolds == Spec => QuietAfterStop
<1>1. Inductive /\ [Next]_vars => [stopResult = "ok" => UNCHANGED <<cur, runs>>]_vars
  <2> SUFFICES ASSUME Inductive, Next, stopResult = "ok"
               PROVE  UNCHANGED <<cur, runs>>
    OBVIOUS
  <2>1. \A w \in Workers : pc[w] \notin {"select", "drain"} \cup Handling
    BY DEF Inductive, AllGone, Gone, Handling
  <2>2. ASSUME NEW m \in Msgs, Enqueue(m)
        PROVE  UNCHANGED <<cur, runs>>
    BY <2>2 DEF Enqueue, Accept, RefuseShutdown, RefuseFull
  <2>3. CASE Start \/ Cancel \/ BeginStop \/ StopSucceeds \/ StopTimesOut
    BY <2>3 DEF Start, Cancel, BeginStop, StopSucceeds, StopTimesOut
  <2>4. ASSUME NEW w \in Workers, Worker(w)
        PROVE  FALSE
    BY <2>1, <2>4 DEF Worker, SeeCancel, SeeStop, Process, ProcessReturns,
       Drain, DrainReturns, DrainEnds, Receive, Return, Move, Handling
  <2> QED
    BY <2>2, <2>3, <2>4 DEF Next
<1> QED
  BY <1>1, InductiveHolds, PTL DEF Spec, QuietAfterStop

-----------------------------------------------------------------------------
(***************************************************************************)
(* The queue implements AtMostOnceQueue under the mapping of BaseQueue:    *)
(* Accept, the two refusals, the return of the handler, BeginStop and      *)
(* StopSucceeds are steps of the promise, the rest stutters.               *)
(***************************************************************************)
\* Nothing is pending before the first Enqueue.
LEMMA PromiseInit == Init => Promise!Init
  BY DEF Init, Promise!Init

\* Every action of the queue is a step of the promise, or stutters.
LEMMA PromiseStep == Inductive /\ [Next]_vars => [Promise!Next]_Promise!vars
<1> SUFFICES ASSUME Inductive, [Next]_vars
             PROVE  [Promise!Next]_Promise!vars
  OBVIOUS
<1> USE DEF Promise!vars
<1>0. \A m \in Msgs : verdict[m] = "none" => runs[m] = 0
  <2>1. \A m \in Msgs : runs[m] \in Nat
    BY DEF Inductive, TypeOK
  <2>2. \A m \in Msgs : runs[m] > 0 => verdict[m] = "accepted"
    BY DEF Inductive, Conservation
  <2> QED
    BY <2>1, <2>2
<1>1. ASSUME NEW m \in Msgs, Accept(m)
      PROVE  Promise!Accept(m)
  <2>1. runs[m] = 0 /\ runs' = runs /\ stopChan' = stopChan /\ stopResult' = stopResult
    BY <1>0, <1>1 DEF Accept
  <2> QED
    BY <1>1, <2>1 DEF Accept, Inductive, TypeOK, Promise!Accept, Promise!Fresh
<1>2. ASSUME NEW m \in Msgs, RefuseShutdown(m) \/ RefuseFull(m)
      PROVE  Promise!Refuse(m)
  <2>1. runs[m] = 0 /\ runs' = runs /\ stopChan' = stopChan /\ stopResult' = stopResult
    BY <1>0, <1>2 DEF RefuseShutdown, RefuseFull
  <2> QED
    BY <1>2, <2>1 DEF RefuseShutdown, RefuseFull, Inductive, TypeOK,
       Promise!Refuse, Promise!Fresh
<1>3. ASSUME NEW w \in Workers, ProcessReturns(w) \/ DrainReturns(w),
             NEW m \in Msgs, m = cur[w]
      PROVE  Promise!Handle(m)
  <2>1. /\ pc[w] \in Handling
        /\ runs' = [runs EXCEPT ![m] = @ + 1]
        /\ UNCHANGED <<verdict, stopChan, stopResult>>
    BY <1>3 DEF ProcessReturns, DrainReturns, Return, Handling
  <2>2. verdict[m] = "accepted" /\ runs[m] = 0
    BY <1>3 DEF Inductive, Conservation, InHand
  <2>3. stopResult # "ok"
    BY <2>1 DEF Inductive, AllGone, Gone, Handling
  <2>4. runs \in [Msgs -> Nat]
    BY DEF Inductive, TypeOK
  <2>5. \A n \in Msgs : runs'[n] = IF n = m THEN 1 ELSE runs[n]
    BY <2>1, <2>2, <2>4
  <2>6. {n \in Msgs : verdict[n] = "accepted" /\ runs[n] = 0}'
          = {n \in Msgs : verdict[n] = "accepted" /\ runs[n] = 0} \ {m}
    BY <2>1, <2>5
  <2> QED
    BY <2>1, <2>2, <2>3, <2>6 DEF Promise!Handle
<1>4. BeginStop => Promise!BeginStop
  BY DEF BeginStop, Inductive, Promise!BeginStop
<1>5. StopSucceeds => Promise!Halt
  BY DEF StopSucceeds, Inductive, Promise!Halt
<1>6. Start \/ Cancel \/ StopTimesOut \/ UNCHANGED vars => UNCHANGED Promise!vars
  BY DEF Start, Cancel, StopTimesOut, vars
<1>7. ASSUME NEW w \in Workers,
             SeeCancel(w) \/ SeeStop(w) \/ Process(w) \/ Drain(w) \/ DrainEnds(w)
      PROVE  UNCHANGED Promise!vars
  BY <1>7 DEF SeeCancel, SeeStop, Process, Drain, DrainEnds, Receive, Move
<1>8. \A w \in Workers : ProcessReturns(w) \/ DrainReturns(w) => cur[w] \in Msgs
  BY DEF Inductive, TypeOK, ProcessReturns, DrainReturns, Return, Handling
<1>9. ASSUME NEW m \in Msgs, Enqueue(m)
      PROVE  Promise!Next
  BY <1>1, <1>2, <1>9 DEF Enqueue, Promise!Next
<1>10. ASSUME NEW w \in Workers, Worker(w)
       PROVE  Promise!Next \/ UNCHANGED Promise!vars
  <2>1. CASE ProcessReturns(w) \/ DrainReturns(w)
    <3>1. PICK m \in Msgs : m = cur[w]
      BY <1>8, <2>1
    <3>2. Promise!Handle(m)
      BY <1>3, <2>1, <3>1
    <3> QED
      BY <3>2 DEF Promise!Next
  <2>2. CASE ~ (ProcessReturns(w) \/ DrainReturns(w))
    BY <1>7, <1>10, <2>2 DEF Worker
  <2> QED
    BY <2>1, <2>2
<1> QED
  BY <1>4, <1>5, <1>6, <1>9, <1>10 DEF Next, Promise!Next

(***************************************************************************)
(* The worker pool of base_queue.go keeps the promise of AtMostOnceQueue:  *)
(* a message's fate is decided at once, it is handled at most once, and    *)
(* never after Stop has returned success.                                  *)
(***************************************************************************)
THEOREM Refinement == Spec => KeepsPromise
<1>1. Spec => Promise!Init /\ [][Promise!Next]_Promise!vars
  BY PromiseInit, PromiseStep, InductiveHolds, PTL DEF Spec
<1> QED
  BY <1>1 DEF KeepsPromise, Promise!Spec
=============================================================================
