-------------------------- MODULE AppLifecycle_proofs --------------------------
(***************************************************************************)
(* Proofs about AppLifecycle, for any components in any order and any      *)
(* timeouts.  Inductive is kept by each step: by those of Start, of        *)
(* terminateProcedure, of StopAll and each Stop, of the loops, and of time.*)
(* Then proofs about NrfRegistration, what the SBI server does meanwhile.  *)
(***************************************************************************)
EXTENDS AppLifecycle, NrfRegistration, TLAPS

LEMMA ConstantsLemma ==
  /\ Len(Kind) \in Nat \ {0}
  /\ Components = 1..Len(Kind)
  /\ Looping \subseteq Components
  /\ \A i \in Components : Kind[i] \in Kinds /\ (i \in Looping <=> Kind[i] # "quick")
  /\ StopTimeout \in Nat \ {0} /\ ServerTimeout \in Nat \ {0}
  /\ ShutdownTimeout \in Nat \ {0} /\ WaitTimeout \in Nat \ {0}
<1>1. Kind \in Seq(Kinds) /\ Kind # <<>>
  BY LifecycleAssumption
<1>2. StopTimeout \in Nat \ {0} /\ ServerTimeout \in Nat \ {0}
      /\ ShutdownTimeout \in Nat \ {0} /\ WaitTimeout \in Nat \ {0}
  BY LifecycleAssumption
<1> QED
  BY <1>1, <1>2 DEF Components, Looping

LEMMA InitLemma == Init => Inductive
<1> SUFFICES ASSUME Init
             PROVE  Inductive
  OBVIOUS
<1> USE ConstantsLemma DEF Init
<1>1. TypeOK
  <2>1. /\ clock \in Nat /\ started \in 0..Len(Kind) /\ cur \in 0..Len(Kind)
        /\ calledAt \in [Components -> Nat] /\ stopBy \in [Components -> Nat]
        /\ due \in [server : Nat, shutdown : Nat, wait : Nat]
    OBVIOUS
  <2>2. /\ loop \in [Components -> {"off", "idle", "busy", "ended"}]
        /\ stop \in [Components -> {"no", "reader", "waiting"} \cup Returned]
    BY DEF Returned
  <2>3. ctxDone \in BOOLEAN
    OBVIOUS
  <2> QED
    BY <2>1, <2>2, <2>3 DEF TypeOK
<1>2. CalledInOrder /\ ReturnsInTime /\ LoopsRun /\ StartedBeforeStopped /\ TimersAgree
  BY DEF CalledInOrder, ReturnsInTime, LoopsRun, StartedBeforeStopped, TimersAgree, Called
<1> QED
  BY <1>1, <1>2 DEF Inductive

(***************************************************************************)
(* Start.                                                                  *)
(***************************************************************************)
LEMMA StartNextLemma ==
  ASSUME Inductive, StartNext
  PROVE  Inductive'
<1> USE ConstantsLemma DEF Inductive, StartNext, stopping, timers
<1>1. stopper = "off" /\ \A i \in Components : ~ Called(i)
  BY DEF StartedBeforeStopped, CalledInOrder
<1>2. UNCHANGED <<clock, ctxDone, main, server, listen, stopper, cur, stop, calledAt, stopBy, due, files>>
  OBVIOUS
<1>3. TypeOK'
  BY DEF TypeOK
<1>4. CalledInOrder' /\ ReturnsInTime'
  BY <1>1, <1>2 DEF CalledInOrder, ReturnsInTime, Called, TimeIsUp
<1>5. LoopsRun'
  BY DEF LoopsRun, TypeOK
<1>6. StartedBeforeStopped' /\ TimersAgree'
  BY <1>1, <1>2 DEF StartedBeforeStopped, TimersAgree
<1> QED
  BY <1>3, <1>4, <1>5, <1>6

LEMMA MainLemma ==
  ASSUME Inductive,
         StartFails \/ Run \/ Serve \/ Signal \/ ServerFails \/ Wait \/ Exit \/ GiveUp
  PROVE  Inductive'
<1> USE ConstantsLemma DEF Inductive, comps, stopping, timers, TypeOK, CalledInOrder, ReturnsInTime,
        LoopsRun, StartedBeforeStopped, TimersAgree, Called, TimeIsUp
<1>1. CASE StartFails
  BY <1>1 DEF StartFails
<1>2. CASE Run
  BY <1>2 DEF Run
<1>3. CASE Serve
  BY <1>3 DEF Serve
<1>4. CASE Signal
  BY <1>4 DEF Signal
<1>5. CASE ServerFails
  BY <1>5 DEF ServerFails
<1>6. CASE Wait
  <2>1. /\ due' = [due EXCEPT !.wait = clock + WaitTimeout] /\ due \in [server : Nat, shutdown : Nat, wait : Nat]
        /\ clock + WaitTimeout \in Nat
    BY <1>6 DEF Wait
  <2>2. due' \in [server : Nat, shutdown : Nat, wait : Nat] /\ due'.wait = clock + WaitTimeout
        /\ due'.server = due.server
        /\ due'.shutdown = due.shutdown
    BY <2>1
  <2> HIDE <2>1
  <2>3. TypeOK'
    BY <1>6, <2>2 DEF Wait
  <2>4. CalledInOrder' /\ ReturnsInTime' /\ LoopsRun'
    BY <1>6 DEF Wait
  <2>5. StartedBeforeStopped' /\ TimersAgree'
    BY <1>6, <2>2 DEF Wait
  <2> QED
    BY <2>3, <2>4, <2>5
<1>7. CASE Exit
  BY <1>7 DEF Exit
<1>8. CASE GiveUp
  BY <1>8 DEF GiveUp
<1> QED
  BY <1>1, <1>2, <1>3, <1>4, <1>5, <1>6, <1>7, <1>8

(***************************************************************************)
(* terminateProcedure.                                                     *)
(***************************************************************************)
LEMMA TerminatingLemma ==
  ASSUME Inductive,
         Terminate \/ TerminateReturns \/ Deregistered \/ ServerStopped \/ CloseFiles
  PROVE  Inductive'
<1> USE ConstantsLemma DEF Inductive, comps, stopping, timers, TypeOK, CalledInOrder, ReturnsInTime,
        LoopsRun, StartedBeforeStopped, TimersAgree, Called, TimeIsUp
<1>1. CASE Terminate
  <2>1. /\ due' = [due EXCEPT !.shutdown = clock + ShutdownTimeout] /\ due \in [server : Nat, shutdown : Nat, wait : Nat]
        /\ clock + ShutdownTimeout \in Nat
    BY <1>1 DEF Terminate
  <2>2. due' \in [server : Nat, shutdown : Nat, wait : Nat] /\ due'.shutdown = clock + ShutdownTimeout
        /\ due'.server = due.server
        /\ due'.wait = due.wait
    BY <2>1
  <2> HIDE <2>1
  <2>3. TypeOK'
    BY <1>1, <2>2 DEF Terminate
  <2>4. CalledInOrder' /\ ReturnsInTime' /\ LoopsRun'
    BY <1>1 DEF Terminate
  <2>5. StartedBeforeStopped' /\ TimersAgree'
    BY <1>1, <2>2 DEF Terminate
  <2> QED
    BY <2>3, <2>4, <2>5
<1>2. CASE TerminateReturns
  BY <1>2 DEF TerminateReturns
<1>3. CASE Deregistered
  <2>1. /\ due' = [due EXCEPT !.server = clock + ServerTimeout] /\ due \in [server : Nat, shutdown : Nat, wait : Nat]
        /\ clock + ServerTimeout \in Nat
    BY <1>3 DEF Deregistered
  <2>2. due' \in [server : Nat, shutdown : Nat, wait : Nat] /\ due'.server = clock + ServerTimeout
        /\ due'.shutdown = due.shutdown
        /\ due'.wait = due.wait
    BY <2>1
  <2> HIDE <2>1
  <2>3. TypeOK'
    BY <1>3, <2>2 DEF Deregistered
  <2>4. CalledInOrder' /\ ReturnsInTime' /\ LoopsRun'
    BY <1>3 DEF Deregistered
  <2>5. StartedBeforeStopped' /\ TimersAgree'
    BY <1>3, <2>2 DEF Deregistered
  <2> QED
    BY <2>3, <2>4, <2>5
<1>4. CASE ServerStopped
  BY <1>4 DEF ServerStopped
<1>5. CASE CloseFiles
  BY <1>5 DEF CloseFiles
<1> QED
  BY <1>1, <1>2, <1>3, <1>4, <1>5

(***************************************************************************)
(* StopAll: the cursor moves past a component that has returned, or whose  *)
(* time is up.                                                             *)
(***************************************************************************)
LEMMA StopAllLemma ==
  ASSUME Inductive, CallStop \/ MoveOn \/ AllStopped
  PROVE  Inductive'
<1> USE ConstantsLemma DEF Inductive, comps, stopping, timers, TypeOK, CalledInOrder, ReturnsInTime,
        LoopsRun, StartedBeforeStopped, TimersAgree, Called, TimeIsUp, Returned
<1>1. CASE CallStop
  BY <1>1 DEF CallStop
<1>2. CASE MoveOn
  BY <1>2 DEF MoveOn
<1>3. CASE AllStopped
  BY <1>3 DEF AllStopped
<1> QED
  BY <1>1, <1>2, <1>3

(***************************************************************************)
(* The Stop of a component.                                                *)
(***************************************************************************)
LEMMA StopLemma ==
  ASSUME Inductive, NEW i \in Components,
         ReaderEnds(i) \/ StopReturns(i) \/ StopTimesOut(i)
  PROVE  Inductive'
<1> USE ConstantsLemma DEF Inductive, comps, stopping, timers, TypeOK, CalledInOrder, ReturnsInTime,
        LoopsRun, StartedBeforeStopped, TimersAgree, Called, TimeIsUp, Returned, SetStop
<1>1. CASE ReaderEnds(i)
  <2>1. /\ stop' = [stop EXCEPT ![i] = "waiting"] /\ stop[i] = "reader"
        /\ stopBy' = [stopBy EXCEPT ![i] = clock + StopTimeout]
        /\ UNCHANGED <<clock, ctxDone, main, started, loop, server, listen, stopper, cur, calledAt, due, files>>
    BY <1>1 DEF ReaderEnds
  <2>2. TypeOK' /\ LoopsRun' /\ StartedBeforeStopped' /\ TimersAgree'
    BY <2>1
  <2>3. CalledInOrder'
    BY <2>1
  <2>4. \A j \in Components : j # i => stop'[j] = stop[j] /\ stopBy'[j] = stopBy[j]
    BY <2>1
  <2>5. stop'[i] = "waiting" /\ stopBy'[i] >= calledAt[i] + StopTimeout /\ calledAt[i] <= clock
    <3>1. stop'[i] = "waiting" /\ stopBy'[i] = clock + StopTimeout
      BY <2>1
    <3>2. calledAt[i] \in Nat /\ clock \in Nat
      OBVIOUS
    <3>3. calledAt[i] <= clock
      BY <2>1
    <3> QED
      BY ONLY <3>1, <3>2, <3>3, ConstantsLemma
  <2>6. ReturnsInTime'
    BY <2>1, <2>4, <2>5
  <2> QED
    BY <2>2, <2>3, <2>6
<1>2. CASE StopReturns(i) \/ StopTimesOut(i)
  <2>1. PICK result \in Returned : stop' = [stop EXCEPT ![i] = result]
    BY <1>2 DEF StopReturns, StopTimesOut
  <2>2. /\ stop[i] = "waiting"
        /\ UNCHANGED <<clock, ctxDone, main, started, loop, server, listen, stopper, cur, calledAt, stopBy, due, files>>
    BY <1>2 DEF StopReturns, StopTimesOut
  <2>3. i \in Looping /\ i <= started => loop[i] = "ended" \/ TimeIsUp(i)
    <3>1. CASE StopReturns(i)
      BY <3>1 DEF StopReturns, Gone
    <3>2. CASE StopTimesOut(i)
      <4>1. clock >= stopBy[i] /\ stop[i] = "waiting"
        BY ONLY <3>2 DEF StopTimesOut
      <4>2. stopBy[i] >= calledAt[i] + StopTimeout
        BY <4>1
      <4>3. clock \in Nat /\ stopBy[i] \in Nat /\ calledAt[i] \in Nat
        OBVIOUS
      <4>4. clock >= calledAt[i] + StopTimeout
        BY ONLY <4>1, <4>2, <4>3, ConstantsLemma
      <4> QED
        BY ONLY <4>4 DEF TimeIsUp
    <3> QED
      BY <1>2, <3>1, <3>2
  <2>4. TypeOK' /\ LoopsRun' /\ StartedBeforeStopped' /\ TimersAgree'
    BY <2>1, <2>2
  <2>5. CalledInOrder'
    BY <2>1, <2>2
  <2>6. ReturnsInTime'
    BY <2>1, <2>2, <2>3
  <2> QED
    BY <2>4, <2>5, <2>6
<1> QED
  BY <1>1, <1>2

(***************************************************************************)
(* A loop that has ended does nothing more.                                *)
(***************************************************************************)
LEMMA LoopLemma ==
  ASSUME Inductive, NEW i \in Looping, Work(i) \/ WorkDone(i) \/ Leave(i)
  PROVE  Inductive'
<1> USE ConstantsLemma DEF Inductive, Work, WorkDone, Leave, SetLoop, stopping, timers
<1>1. PICK to \in {"idle", "busy", "ended"} :
        /\ loop' = [loop EXCEPT ![i] = to] /\ loop[i] \in {"idle", "busy"}
  OBVIOUS
<1>2. UNCHANGED <<clock, ctxDone, main, started, server, listen, stopper, cur, stop, calledAt, stopBy, due, files>>
  OBVIOUS
<1>3. TypeOK' /\ LoopsRun'
  BY <1>1, <1>2 DEF TypeOK, LoopsRun
<1>4. ReturnsInTime'
  BY <1>1, <1>2 DEF TypeOK, ReturnsInTime, Called, TimeIsUp
<1>5. CalledInOrder' /\ StartedBeforeStopped' /\ TimersAgree'
  BY <1>2 DEF CalledInOrder, StartedBeforeStopped, TimersAgree, Called, TimeIsUp
<1> QED
  BY <1>3, <1>4, <1>5

(***************************************************************************)
(* Time passes no expiry, and not before both have woken up.               *)
(***************************************************************************)
LEMMA TickLemma ==
  ASSUME Inductive, Tick
  PROVE  Inductive'
<1> USE ConstantsLemma DEF Inductive, Tick, comps, stopping, timers
<1>1. /\ clock' = clock + 1 /\ clock \in Nat /\ ~ Woken
      /\ UNCHANGED <<ctxDone, main, started, loop, server, listen, stopper, cur, stop, calledAt, stopBy, due, files>>
  BY DEF TypeOK
<1>2. TypeOK' /\ LoopsRun' /\ StartedBeforeStopped'
  BY <1>1 DEF TypeOK, LoopsRun, StartedBeforeStopped
<1>3. \A i \in Components : TimeIsUp(i) => TimeIsUp(i)'
  BY <1>1 DEF TimeIsUp, TypeOK
<1>4. CalledInOrder'
  BY <1>1, <1>3 DEF CalledInOrder, Called
<1>5. ReturnsInTime'
  <2>1. \A i \in Components : calledAt[i] \in Nat /\ (calledAt[i] <= clock => calledAt[i] <= clock')
    BY <1>1 DEF TypeOK
  <2> QED
    BY <1>1, <1>3, <2>1 DEF ReturnsInTime, Called
<1>6. listen = "terminating" => clock < due.shutdown
  BY DEF Expiries
<1>7. TimersAgree'
  BY <1>1, <1>6 DEF TimersAgree, Woken, TypeOK
<1> QED
  BY <1>2, <1>4, <1>5, <1>7

LEMMA StepLemma == Inductive /\ [Next]_vars => Inductive'
<1> SUFFICES ASSUME Inductive, [Next]_vars
             PROVE  Inductive'
  OBVIOUS
<1>1. CASE UNCHANGED vars
  BY <1>1 DEF vars, Inductive, TypeOK, CalledInOrder, ReturnsInTime, LoopsRun, StartedBeforeStopped,
              TimersAgree, Called, TimeIsUp
<1>2. CASE Next
  BY <1>1, <1>2, ConstantsLemma, StartNextLemma, MainLemma, TerminatingLemma, StopAllLemma, StopLemma,
     LoopLemma, TickLemma
     DEF Next, Main, Terminating, StoppingAll, Stopping, Environment, Terminated
<1> QED
  BY <1>1, <1>2

\* The strengthened invariant of starting and stopping.
THEOREM InductiveHolds == Spec => []Inductive
  BY InitLemma, StepLemma, PTL DEF Spec

\* No component's Stop is called, and no file closed, while one registered
\* later still runs, unless that one has had its StopTimeout.
THEOREM ProducersFirstHolds == Spec => []ProducersFirst
<1>1. Inductive => ProducersFirst
  <2> SUFFICES ASSUME Inductive, NEW j \in Looping, j <= started,
                      files = "closed" \/ \E i \in Components : i < j /\ Called(i)
               PROVE  loop[j] = "ended" \/ TimeIsUp(j)
    BY DEF ProducersFirst
  <2> USE ConstantsLemma DEF Inductive
  <2>1. cur \in Nat /\ (cur < j \/ cur = 0) /\ stopper \in {"stopping", "stopped", "finished"}
    BY DEF TypeOK, CalledInOrder, StartedBeforeStopped
  <2>2. stop[j] \in Returned \/ (Called(j) /\ TimeIsUp(j))
    BY <2>1 DEF CalledInOrder
  <2> QED
    BY <2>2 DEF ReturnsInTime, Called, Returned
<1> QED
  BY <1>1, InductiveHolds, PTL

\* Start does not return before terminateProcedure has finished or given up,
\* since it waits for longer (15 and 10 seconds, init.go).
THEOREM ExitAfterTerminateHolds ==
  ASSUME ShutdownTimeout < WaitTimeout
  PROVE  Spec => []ExitAfterTerminate
<1>1. Init => ExitAfterTerminate
  BY DEF Init, ExitAfterTerminate
<1>2. Inductive /\ ExitAfterTerminate /\ [Next]_vars => ExitAfterTerminate'
  <2> SUFFICES ASSUME Inductive, ExitAfterTerminate, [Next]_vars, main' = "exited"
               PROVE  listen' = "done"
    BY DEF ExitAfterTerminate
  <2> USE ConstantsLemma DEF comps, stopping, timers
  <2>1. CASE main = "exited"
    <3>1. listen = "done" /\ ~ Alive
      BY <2>1 DEF ExitAfterTerminate, Alive
    <3>2. listen' = listen
      BY <2>1, <3>1 DEF Next, Main, Terminating, StoppingAll, Stopping, Environment, Terminated, vars,
         StartNext, StartFails, Run, Serve, Wait, Exit, GiveUp, Terminate, TerminateReturns, CloseFiles,
         CallStop, MoveOn, AllStopped, StopReturns, StopTimesOut, Leave, Signal, ServerFails, Deregistered,
         ServerStopped, ReaderEnds, Work, WorkDone, Tick
    <3> QED
      BY <3>1, <3>2
  <2>2. CASE main # "exited"
    <3>1. Exit
      BY <2>2 DEF Next, Main, Terminating, StoppingAll, Stopping, Environment, Terminated, vars,
         StartNext, StartFails, Run, Serve, Wait, GiveUp, Terminate, TerminateReturns, CloseFiles,
         CallStop, MoveOn, AllStopped, StopReturns, StopTimesOut, SetStop, Leave, Signal, ServerFails,
         Deregistered, ServerStopped, ReaderEnds, Work, WorkDone, SetLoop, Tick
    <3>2. main = "waiting" /\ listen' = listen
      BY <3>1 DEF Exit
    <3>3. CASE listen = "done"
      BY <3>2, <3>3
    <3>4. CASE clock >= due.wait
      <4>1. /\ clock \in Nat /\ due.wait \in Nat /\ due.shutdown \in Nat
            /\ listen \in {"listening", "terminating", "done"}
        BY <3>2 DEF Inductive, TypeOK, StartedBeforeStopped
      <4>2. listen # "listening"
        BY <3>2, <3>4, <4>1 DEF Inductive, TimersAgree
      <4>3. listen # "terminating"
        BY <3>2, <3>4, <4>1 DEF Inductive, TimersAgree
      <4> QED
        BY <3>2, <4>1, <4>2, <4>3
    <3> QED
      BY <3>1, <3>3, <3>4 DEF Exit
  <2> QED
    BY <2>1, <2>2
<1> QED
  BY <1>1, <1>2, InductiveHolds, PTL DEF Spec

(***************************************************************************)
(* Registering with the NRF, for any number of tries and of runs.  All     *)
(* three safety properties follow from NrfInductive and RegisteredIsKnown, *)
(* which every step keeps: one lemma for the steps of the program, one for *)
(* the end of a run and the next, one for the network and the NRF.         *)
(***************************************************************************)
NrfIInv == NrfInductive /\ RegisteredIsKnown

LEMMA NrfInitLemma == NrfInit => NrfIInv
<1> SUFFICES ASSUME NrfInit
             PROVE  NrfIInv
  OBVIOUS
<1>1. 1 \in Ids /\ Tries \in Nat \ {0}
  BY NrfAssumption DEF Ids
<1>2. NrfTypeOK
  <2>1. nfId \in Ids \cup {NoId} /\ tries \in 0..Tries /\ run \in Ids
    BY <1>1 DEF NrfInit, NewId
  <2>2. /\ isRegistered \in BOOLEAN /\ oauth2Required \in BOOLEAN /\ cancelled \in BOOLEAN
        /\ answer \in Answers /\ pc \in {"try"}
    BY DEF NrfInit, Answers
  <2>3. requests \subseteq Requests /\ entries \subseteq Ids /\ spoiled \subseteq Ids
    BY DEF NrfInit
  <2> QED
    BY <2>1, <2>2, <2>3 DEF NrfTypeOK
<1>3. ContextFits /\ RequestsFit /\ FaultlessFits /\ RegisteredIsKnown
  BY <1>1 DEF NrfInit, ContextFits, RequestsFit, FaultlessFits, Forgotten, RegisteredIsKnown, NewId
<1> QED
  BY <1>2, <1>3 DEF NrfIInv, NrfInductive

\* RegisterNFInstance.
LEMMA NrfPutLemma ==
  ASSUME NrfIInv, Put
  PROVE  NrfIInv'
<1> USE DEF NrfIInv, NrfInductive, NrfTypeOK, ContextFits, RequestsFit, FaultlessFits, RegisteredIsKnown, NewId, Put, contextVars
<1> DEFINE m == [id |-> nfId, n |-> tries + 1]
<1>0. nfId = run /\ tries < Tries /\ run \in 1..MaxRuns /\ tries \in Nat /\ Tries \in Nat
  BY NrfAssumption DEF Ids
<1>1. m \in Requests /\ m.id = run /\ m.n = tries + 1 /\ requests' = requests \cup {m}
  BY <1>0 DEF Requests, Ids
<1>2. NrfTypeOK'
  BY <1>0, <1>1 DEF Answers
<1>3. ContextFits' /\ RequestsFit' /\ RegisteredIsKnown'
  BY <1>0, <1>1
<1>4. FaultlessFits'
  BY <1>0, <1>1 DEF Forgotten
<1> QED
  BY <1>2, <1>3, <1>4

\* The steps of the program that send nothing.
LEMMA NrfProgramLemma ==
  ASSUME NrfIInv,
         \/ StopTrying \/ Unlocated \/ Wake \/ TriesUsedUp \/ PutFails
         \/ \E oauth2 \in BOOLEAN : Located(oauth2)
         \/ NothingToDeregister \/ GetToken \/ DeregisterReturns \/ DeregisterFails
         \/ EndRun \/ Die \/ Cancel
  PROVE  NrfIInv'
<1> USE DEF NrfIInv, NrfInductive
<1>0. run \in Nat /\ run \in Ids /\ UNCHANGED <<run, requests, entries, tries>>
      /\ (nfId' = nfId \/ nfId' = NoId)
  BY NrfAssumption DEF NrfTypeOK, Ids, StopTrying, Unlocated, Wake, TriesUsedUp, PutFails, TryLater, Located,
     NothingToDeregister, GetToken, DeregisterReturns, DeregisterFails, EndRun, Die, Cancel,
     ServeUnregistered, contextVars, nrfVars
<1> USE <1>0 DEF NrfTypeOK, ContextFits, RequestsFit, FaultlessFits, RegisteredIsKnown, Forgotten,
     contextVars, nrfVars, ServeUnregistered, NewId
<1>1. CASE StopTrying
  BY <1>1 DEF StopTrying
<1>2. CASE Unlocated
  BY <1>2 DEF Unlocated
<1>3. CASE Wake
  BY <1>3 DEF Wake
<1>4. CASE TriesUsedUp
  BY <1>4 DEF TriesUsedUp
<1>5. CASE PutFails
  BY <1>5 DEF PutFails, TryLater
<1>6. ASSUME NEW oauth2 \in BOOLEAN, Located(oauth2)
      PROVE  NrfIInv'
  BY <1>6 DEF Located
<1>7. CASE NothingToDeregister
  BY <1>7 DEF NothingToDeregister
<1>8. CASE GetToken
  BY <1>8 DEF GetToken
<1>9. CASE DeregisterReturns
  BY <1>9 DEF DeregisterReturns
<1>10. CASE DeregisterFails
  BY <1>10 DEF DeregisterFails
<1>11. CASE EndRun
  BY <1>11 DEF EndRun
<1>12. CASE Die
  BY <1>12 DEF Die
<1>13. CASE Cancel
  BY <1>13 DEF Cancel
<1> QED
  BY <1>1, <1>2, <1>3, <1>4, <1>5, <1>6, <1>7, <1>8, <1>9, <1>10, <1>11, <1>12, <1>13

\* SendDeregisterNFInstance.
LEMMA NrfDeleteLemma ==
  ASSUME NrfIInv, Delete
  PROVE  NrfIInv'
<1> USE DEF NrfIInv, NrfInductive, NrfTypeOK, ContextFits, RequestsFit, FaultlessFits, RegisteredIsKnown,
     NewId, Delete, contextVars
<1> DEFINE m == [id |-> nfId, n |-> 0]
<1>0. nfId = run /\ run \in 1..MaxRuns /\ Tries \in Nat
  BY NrfAssumption DEF Ids
<1>1. m \in Requests /\ m.id = run /\ m.n = 0 /\ requests' = requests \cup {m}
  BY <1>0 DEF Requests, Ids
<1>2. NrfTypeOK'
  BY <1>0, <1>1 DEF Answers
<1>3. ContextFits' /\ RequestsFit' /\ RegisteredIsKnown'
  BY <1>0, <1>1
<1>4. FaultlessFits'
  BY <1>0, <1>1 DEF Forgotten
<1> QED
  BY <1>2, <1>3, <1>4

\* A new run has a new id, so that nothing of the runs before is its own.
LEMMA NrfRestartLemma ==
  ASSUME NrfIInv, Restart
  PROVE  NrfIInv'
<1> USE DEF NrfIInv, NrfInductive, NrfTypeOK, ContextFits, RequestsFit, FaultlessFits, RegisteredIsKnown,
     NewId, Restart, nrfVars
<1>0. run \in Nat /\ run + 1 \in Ids /\ MaxRuns \in Nat /\ Tries \in Nat \ {0}
  BY NrfAssumption DEF Ids
<1>1. Forgotten(run + 1)' /\ \A m \in requests : m.id # run + 1
  BY <1>0 DEF Forgotten
<1>2. \A r \in 1..run : r \in spoiled \/ Forgotten(r)'
  BY <1>0 DEF Forgotten
<1>3. NrfTypeOK'
  <2>1. run' \in Ids /\ tries' \in 0..Tries /\ nfId' \in Ids
    BY <1>0
  <2>2. isRegistered' \in BOOLEAN /\ oauth2Required' \in BOOLEAN /\ cancelled' \in BOOLEAN
    OBVIOUS
  <2>3. UNCHANGED <<requests, entries, spoiled>> /\ pc' = "try" /\ answer' \in Answers
    BY DEF Answers
  <2> QED
    BY <2>1, <2>2, <2>3
<1>4. ContextFits' /\ RequestsFit' /\ RegisteredIsKnown'
  BY <1>0
<1>5. FaultlessFits'
  BY <1>0, <1>1, <1>2 DEF Forgotten
<1> QED
  BY <1>3, <1>4, <1>5

\* Only requests of its own run get an answer that the program reads.
LEMMA NrfHandleLemma ==
  ASSUME NrfIInv, NEW m \in requests, Handle(m) \/ Lose(m)
  PROVE  NrfIInv'
<1> USE DEF NrfIInv, NrfInductive, NrfTypeOK, ContextFits, RequestsFit, FaultlessFits, RegisteredIsKnown, NewId,
     contextVars, Forgotten
<1>0. /\ run \in Nat /\ run \in Ids /\ m.id \in Ids /\ m.n \in 0..Tries /\ Tries \in Nat /\ tries \in Nat
      /\ requests' = requests \ {m}
      /\ UNCHANGED <<run, pc, tries, nfId, isRegistered, oauth2Required, cancelled, spoiled>>
  BY NrfAssumption DEF Ids, Requests, Handle, Lose
<1>1. CASE Lose(m)
  BY <1>0, <1>1 DEF Lose
<1>2. CASE Handle(m)
  <2>0. \A a, b \in Requests : a.id = b.id /\ a.n = b.n => a = b
    BY DEF Requests
  <2>1. /\ pc = "put" => (m = Awaited <=> m.id = run /\ m.n = tries)
        /\ pc = "delete" => (m = Awaited <=> m.id = run /\ m.n = 0)
    <3>1. nfId \in Ids /\ pc \in {"put", "delete"} => Awaited \in Requests
      BY <1>0 DEF Awaited, Requests
    <3>2. pc \in {"put", "delete"} =>
            Awaited.id = nfId /\ Awaited.n = IF pc = "put" THEN tries ELSE 0
      BY DEF Awaited
    <3> QED
      BY <1>0, <2>0, <3>1, <3>2
  <2>2. CASE m.n # 0 /\ entries' = entries \cup {m.id} /\ Answer(m, "located")
    <3>1. NrfTypeOK'
      BY <1>0, <2>2 DEF Answer, Answers
    <3>2. ContextFits' /\ RequestsFit' /\ RegisteredIsKnown'
      BY <1>0, <2>1, <2>2 DEF Answer, Waiting
    <3>3. FaultlessFits'
      BY <1>0, <2>0, <2>1, <2>2 DEF Answer, Waiting
    <3> QED
      BY <3>1, <3>2, <3>3
  <2>3. CASE m.n # 0 /\ entries' = entries \cup {m.id} /\ m.id \in entries /\ Answer(m, "unlocated")
    <3>1. NrfTypeOK'
      BY <1>0, <2>3 DEF Answer, Answers
    <3>2. ContextFits' /\ RequestsFit' /\ RegisteredIsKnown'
      BY <1>0, <2>1, <2>3 DEF Answer, Waiting
    <3>3. FaultlessFits'
      BY <1>0, <2>0, <2>1, <2>3 DEF Answer, Waiting
    <3> QED
      BY <3>1, <3>2, <3>3
  <2>4. CASE m.n = 0 /\ entries' = entries \ {m.id} /\ Answer(m, "deleted")
    <3>1. NrfTypeOK'
      BY <1>0, <2>4 DEF Answer, Answers
    <3>2. ContextFits' /\ RequestsFit' /\ RegisteredIsKnown'
      BY <1>0, <2>1, <2>4 DEF Answer, Waiting
    <3>3. FaultlessFits'
      BY <1>0, <2>1, <2>4 DEF Answer, Waiting
    <3> QED
      BY <3>1, <3>2, <3>3
  <2>5. CASE entries' = entries /\ Answer(m, "refused")
    <3>1. NrfTypeOK'
      BY <1>0, <2>5 DEF Answer, Answers
    <3>2. ContextFits' /\ RequestsFit' /\ RegisteredIsKnown'
      BY <1>0, <2>1, <2>5 DEF Answer, Waiting
    <3>3. FaultlessFits'
      BY <1>0, <2>0, <2>1, <2>5 DEF Answer, Waiting
    <3> QED
      BY <3>1, <3>2, <3>3
  <2> QED
    BY <1>2, <2>2, <2>3, <2>4, <2>5 DEF Handle
<1> QED
  BY <1>1, <1>2

LEMMA NrfStepLemma == NrfIInv /\ [NrfNext]_registrationVars => NrfIInv'
<1> SUFFICES ASSUME NrfIInv, [NrfNext]_registrationVars
             PROVE  NrfIInv'
  OBVIOUS
<1>1. CASE UNCHANGED registrationVars
  BY <1>1 DEF registrationVars, contextVars, nrfVars, NrfIInv, NrfInductive, NrfTypeOK, ContextFits, RequestsFit, FaultlessFits,
              RegisteredIsKnown, Forgotten
<1>2. CASE NrfNext
  <2>1. Refused => PutFails
    BY DEF Refused, PutFails
  <2> QED
    BY <1>1, <1>2, <2>1, NrfPutLemma, NrfProgramLemma, NrfDeleteLemma, NrfRestartLemma, NrfHandleLemma
       DEF NrfNext, Program, Register, Deregister, CallBreaks, NrfEnvironment, Over
<1> QED
  BY <1>1, <1>2

\* The strengthened invariant of registration.
THEOREM NrfInductiveHolds == NrfSpec => []NrfInductive
<1>1. NrfIInv => NrfInductive
  BY DEF NrfIInv
<1> QED
  BY <1>1, NrfInitLemma, NrfStepLemma, PTL DEF NrfSpec

\* While a registered program serves, the NRF has its id, whatever earlier
\* runs sent and whenever it arrives.
THEOREM RegisteredIsKnownHolds == NrfSpec => []RegisteredIsKnown
<1>1. NrfIInv => RegisteredIsKnown
  BY DEF NrfIInv
<1> QED
  BY <1>1, NrfInitLemma, NrfStepLemma, PTL DEF NrfSpec

\* Without a fault a run leaves the NRF as it found it.
THEOREM LeftBehindOnlyAfterFaultHolds == NrfSpec => []LeftBehindOnlyAfterFault
<1>1. NrfIInv => LeftBehindOnlyAfterFault
  BY NrfAssumption DEF NrfIInv, NrfInductive, NrfTypeOK, FaultlessFits, Forgotten, LeftBehindOnlyAfterFault, Ids
<1> QED
  BY <1>1, NrfInitLemma, NrfStepLemma, PTL DEF NrfSpec

=============================================================================
