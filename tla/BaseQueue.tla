----------------------------- MODULE BaseQueue -----------------------------
(***************************************************************************)
(* The worker-pool queue of internal/analyzer/queue/base_queue.go, which   *)
(* both the ExportQueue and the InferenceQueue are.                        *)
(*                                                                         *)
(* Producers call Enqueue, which never blocks: one select over the         *)
(* buffered channel, stopChan and default.  Workers loop in a select over  *)
(* the context, stopChan and the channel.  When several branches of a Go   *)
(* select are ready any one of them may be taken, so each branch is an     *)
(* action and the choice is the choice of an action.  Stop closes stopChan *)
(* and waits for the workers or for its timeout, whichever is first.       *)
(*                                                                         *)
(* Each message stands for one call of Enqueue.  The reporting goroutine   *)
(* (monitor, Len, Cap) changes no state and is left out, and so is the     *)
(* error a handler may return: processMessage only logs it.                *)
(***************************************************************************)
EXTENDS Integers, Sequences

CONSTANTS Workers,     \* the goroutines Start launches
          Msgs,        \* the calls of Enqueue
          BufferSize,  \* capacity of the channel
          NoMsg

ASSUME SizeAssumption == BufferSize \in Nat \ {0}
ASSUME NoMsgAssumption == NoMsg \notin Msgs

VARIABLES queue,      \* the buffered channel
          verdict,    \* what Enqueue returned for each message
          pc, cur,    \* each worker: where it is, the message in its hands
          runs,       \* how many times the handler has returned from a message
          ctxDone,    \* the context given to Start is cancelled
          stopChan,   \* stopChan is closed
          stopResult, \* what Stop has returned
          owed        \* the messages accepted before stopChan was closed

vars == <<queue, verdict, pc, cur, runs, ctxDone, stopChan, stopResult, owed>>

(***************************************************************************)
(* Where a worker is.  It leaves its loop as "cancelled" (the ctx.Done     *)
(* branch, which does not drain) or as "stopped" (after drainQueue).       *)
(***************************************************************************)
PCs == {"unstarted", "select", "handle", "drain", "drainHandle",
        "stopped", "cancelled"}
Gone == {"unstarted", "stopped", "cancelled"}   \* not counted by q.wg
Handling == {"handle", "drainHandle"}           \* inside processMessage

Verdicts == {"none", "accepted", "full", "shutdown"}

InQueue(m) == \E i \in 1..Len(queue) : queue[i] = m
InHand(m) == \E w \in Workers : cur[w] = m

TypeOK ==
  /\ queue \in Seq(Msgs)
  /\ Len(queue) <= BufferSize
  /\ verdict \in [Msgs -> Verdicts]
  /\ pc \in [Workers -> PCs]
  /\ cur \in [Workers -> Msgs \cup {NoMsg}]
  /\ runs \in [Msgs -> Nat]
  /\ ctxDone \in BOOLEAN
  /\ stopChan \in BOOLEAN
  /\ stopResult \in {"none", "waiting", "ok", "timeout"}
  /\ owed \in SUBSET Msgs

Init ==
  /\ queue = <<>>
  /\ verdict = [m \in Msgs |-> "none"]
  /\ pc = [w \in Workers |-> "unstarted"]
  /\ cur = [w \in Workers |-> NoMsg]
  /\ runs = [m \in Msgs |-> 0]
  /\ ctxDone = FALSE
  /\ stopChan = FALSE
  /\ stopResult = "none"
  /\ owed = {}

----------------------------------------------------------------------------
(***************************************************************************)
(* Enqueue: the three outcomes of its select.                              *)
(***************************************************************************)
\* Mutant: no check for a full channel.
AcceptWhenFull(m) ==
  /\ verdict[m] = "none"
  /\ queue' = Append(queue, m)
  /\ verdict' = [verdict EXCEPT ![m] = "accepted"]
  /\ UNCHANGED <<pc, cur, runs, ctxDone, stopChan, stopResult, owed>>

Accept(m) ==
  /\ verdict[m] = "none"
  /\ Len(queue) < BufferSize
  /\ queue' = Append(queue, m)
  /\ verdict' = [verdict EXCEPT ![m] = "accepted"]
  /\ UNCHANGED <<pc, cur, runs, ctxDone, stopChan, stopResult, owed>>

RefuseShutdown(m) ==
  /\ verdict[m] = "none"
  /\ stopChan
  /\ verdict' = [verdict EXCEPT ![m] = "shutdown"]
  /\ UNCHANGED <<queue, pc, cur, runs, ctxDone, stopChan, stopResult, owed>>

RefuseFull(m) ==
  /\ verdict[m] = "none"
  /\ ~ (Len(queue) < BufferSize)
  /\ ~ stopChan
  /\ verdict' = [verdict EXCEPT ![m] = "full"]
  /\ UNCHANGED <<queue, pc, cur, runs, ctxDone, stopChan, stopResult, owed>>

Enqueue(m) == Accept(m) \/ RefuseShutdown(m) \/ RefuseFull(m)

----------------------------------------------------------------------------
(***************************************************************************)
(* Start launches the workers; nothing starts a queue that was stopped.    *)
(***************************************************************************)
Start ==
  /\ \A w \in Workers : pc[w] = "unstarted"
  /\ ~ stopChan
  /\ pc' = [w \in Workers |-> "select"]
  /\ UNCHANGED <<queue, verdict, cur, runs, ctxDone, stopChan, stopResult, owed>>

\* The owner of the context cancels it, as the signal handler does.
Cancel ==
  /\ ~ ctxDone
  /\ ctxDone' = TRUE
  /\ UNCHANGED <<queue, verdict, pc, cur, runs, stopChan, stopResult, owed>>

(***************************************************************************)
(* Stop: close stopChan, then wait for q.wg or for the timeout.  A queue   *)
(* that was never started has no worker to wait for.                       *)
(***************************************************************************)
BeginStop ==
  /\ stopResult = "none"
  /\ stopChan' = TRUE
  /\ stopResult' = "waiting"
  /\ owed' = {m \in Msgs : verdict[m] = "accepted"}
  /\ UNCHANGED <<queue, verdict, pc, cur, runs, ctxDone>>

\* Mutant: q.wg.Done before drainQueue.
AllGoneOrDraining == \A w \in Workers : pc[w] \notin {"select", "handle"}

AllGone == \A w \in Workers : pc[w] \in Gone

\* Mutant: Stop does not wait for q.wg.
StopAtOnce ==
  /\ stopResult = "waiting"
  /\ stopResult' = "ok"
  /\ UNCHANGED <<queue, verdict, pc, cur, runs, ctxDone, stopChan, owed>>

StopSucceeds ==
  /\ stopResult = "waiting"
  /\ AllGone
  /\ stopResult' = "ok"
  /\ UNCHANGED <<queue, verdict, pc, cur, runs, ctxDone, stopChan, owed>>

StopTimesOut ==
  /\ stopResult = "waiting"
  /\ stopResult' = "timeout"
  /\ UNCHANGED <<queue, verdict, pc, cur, runs, ctxDone, stopChan, owed>>

----------------------------------------------------------------------------
(***************************************************************************)
(* The worker.  A receive takes the head of the channel; the handler runs  *)
(* between the receive and Return.                                         *)
(***************************************************************************)
\* Mutant: the message is looked at but not taken.
Peek(w, from, to) ==
  /\ pc[w] = from
  /\ queue # <<>>
  /\ cur' = [cur EXCEPT ![w] = Head(queue)]
  /\ pc' = [pc EXCEPT ![w] = to]
  /\ UNCHANGED <<queue, verdict, runs, ctxDone, stopChan, stopResult, owed>>

Receive(w, from, to) ==
  /\ pc[w] = from
  /\ queue # <<>>
  /\ cur' = [cur EXCEPT ![w] = Head(queue)]
  /\ queue' = Tail(queue)
  /\ pc' = [pc EXCEPT ![w] = to]
  /\ UNCHANGED <<verdict, runs, ctxDone, stopChan, stopResult, owed>>

Return(w, from, to) ==
  /\ pc[w] = from
  /\ runs' = [runs EXCEPT ![cur[w]] = @ + 1]
  /\ cur' = [cur EXCEPT ![w] = NoMsg]
  /\ pc' = [pc EXCEPT ![w] = to]
  /\ UNCHANGED <<queue, verdict, ctxDone, stopChan, stopResult, owed>>

Move(w, from, to) ==
  /\ pc[w] = from
  /\ pc' = [pc EXCEPT ![w] = to]
  /\ UNCHANGED <<queue, verdict, cur, runs, ctxDone, stopChan, stopResult, owed>>

SeeCancel(w) == ctxDone /\ Move(w, "select", "cancelled")
SeeStop(w) == stopChan /\ Move(w, "select", "drain")
Process(w) == Receive(w, "select", "handle")
ProcessReturns(w) == Return(w, "handle", "select")

\* drainQueue: receive until the channel is found empty, then leave.
Drain(w) == Receive(w, "drain", "drainHandle")
DrainReturns(w) == Return(w, "drainHandle", "drain")
\* Mutant: at most one message is drained.
DrainEndsEarly(w) == Move(w, "drain", "stopped")
\* Mutant: after draining the worker goes back to its select.
DrainResumes(w) == queue = <<>> /\ Move(w, "drain", "select")

DrainEnds(w) == queue = <<>> /\ Move(w, "drain", "stopped")

Worker(w) ==
  \/ SeeCancel(w) \/ SeeStop(w) \/ Process(w) \/ ProcessReturns(w)
  \/ Drain(w) \/ DrainReturns(w) \/ DrainEnds(w)

Next ==
  \/ \E m \in Msgs : Enqueue(m)
  \/ Start
  \/ Cancel
  \/ BeginStop \/ StopSucceeds \/ StopTimesOut
  \/ \E w \in Workers : Worker(w)

Spec == Init /\ [][Next]_vars

(***************************************************************************)
(* The scheduler runs every goroutine that can run, and a handler returns  *)
(* (the exporters write a file, the detector's requests have a timeout).   *)
(* Nothing obliges anyone to start, stop, cancel or enqueue.               *)
(***************************************************************************)
FairSpec == Spec /\ \A w \in Workers : WF_vars(Worker(w))

----------------------------------------------------------------------------
(***************************************************************************)
(* Every accepted message is in exactly one place: waiting in the channel  *)
(* once, in the hands of one worker, or handled once.  A message Enqueue   *)
(* refused is nowhere, so a caller that gets an error may count it lost.   *)
(***************************************************************************)
Conservation ==
  /\ \A i, j \in 1..Len(queue) : queue[i] = queue[j] => i = j
  /\ \A v, w \in Workers : cur[v] # NoMsg /\ cur[v] = cur[w] => v = w
  /\ \A m \in Msgs :
       /\ InQueue(m) => ~ InHand(m)
       /\ InQueue(m) \/ InHand(m) => verdict[m] = "accepted" /\ runs[m] = 0
       /\ runs[m] > 0 => verdict[m] = "accepted" /\ runs[m] = 1
       /\ verdict[m] = "accepted" => InQueue(m) \/ InHand(m) \/ runs[m] = 1

(***************************************************************************)
(* The graceful drain that the code does give: when Stop returns success   *)
(* and at least one worker left through the stopChan branch, every message *)
(* accepted before Stop has been handled.  One such worker is enough, it   *)
(* only leaves after it has seen the channel empty.                        *)
(***************************************************************************)
DrainedIfAWorkerDrained ==
  stopResult = "ok" /\ (\E w \in Workers : pc[w] = "stopped")
    => \A m \in owed : runs[m] = 1

(***************************************************************************)
(* After Stop has returned success no handler is running or will run, so   *)
(* the caller may close what the handler writes to.                        *)
(***************************************************************************)
QuietAfterStop == [][stopResult = "ok" => UNCHANGED <<cur, runs>>]_vars

(***************************************************************************)
(* What makes the above inductive: a worker holds a message exactly while  *)
(* the handler runs; workers drain only after stopChan is closed; and once *)
(* one of them has left that way, nothing accepted before Stop is still in *)
(* the channel.                                                            *)
(***************************************************************************)
Inductive ==
  /\ TypeOK
  /\ Conservation
  /\ \A w \in Workers : pc[w] \in Handling <=> cur[w] # NoMsg
  /\ stopChan <=> stopResult # "none"
  /\ stopResult = "ok" => AllGone
  /\ \A w \in Workers : pc[w] \in {"drain", "drainHandle", "stopped"} => stopChan
  /\ \A m \in owed :
       /\ verdict[m] = "accepted"
       /\ InQueue(m) => \A w \in Workers : pc[w] # "stopped"

(***************************************************************************)
(* A worker pool that was started, and then stopped or cancelled, empties: *)
(* every worker leaves, though producers may still make their (finitely    *)
(* many) calls of Enqueue and the context may never be cancelled.          *)
(***************************************************************************)
WorkersLeave == (ctxDone \/ stopChan) ~> AllGone

(***************************************************************************)
(* Until someone stops or cancels, a started queue owes every accepted     *)
(* message to its handler.                                                 *)
(***************************************************************************)
AcceptedIsHandled ==
  \A m \in Msgs : (verdict[m] = "accepted" /\ pc # [w \in Workers |-> "unstarted"])
                    ~> (runs[m] = 1 \/ ctxDone \/ stopChan)

(***************************************************************************)
(* What the scheduling of workers and handlers is enough for: the pool     *)
(* empties once it is told to, and until then every accepted message gets  *)
(* to its handler.                                                         *)
(***************************************************************************)
Progress == WorkersLeave /\ AcceptedIsHandled

(***************************************************************************)
(* The claim of base_queue.go:85 and docs/architecture.md:930, that Stop   *)
(* waits for all messages to be processed, for those a started queue had   *)
(* accepted before Stop.  The code does not keep it: a worker whose        *)
(* context is cancelled leaves without draining, and after the program's   *)
(* shutdown signal every context is cancelled before Stop is called.       *)
(***************************************************************************)
StopProcessedBacklog ==
  stopResult = "ok" /\ (\E w \in Workers : pc[w] # "unstarted")
    => \A m \in owed : runs[m] = 1

----------------------------------------------------------------------------
(***************************************************************************)
(* The queue implements its promise.                                       *)
(***************************************************************************)
Promise == INSTANCE AtMostOnceQueue WITH
  pending <- {m \in Msgs : verdict[m] = "accepted" /\ runs[m] = 0},
  handled <- runs,
  refused <- {m \in Msgs : verdict[m] \in {"full", "shutdown"}},
  phase <- IF stopResult = "ok" THEN "halted"
           ELSE IF stopChan THEN "stopping" ELSE "running"

\* What AtMostOnceQueue promises, for TLC to check.
KeepsPromise == Promise!Spec
============================================================================
