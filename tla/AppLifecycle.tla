---------------------------- MODULE AppLifecycle ----------------------------
(***************************************************************************)
(* Starting and stopping the program: LifecycleManager (pkg/app/           *)
(* lifecycle.go), Start and terminateProcedure (pkg/service/init.go), the  *)
(* SBI server's Run and Stop (internal/sbi/server.go), and of each         *)
(* component what its Stop waits for.                                      *)
(*                                                                         *)
(* Components are numbered in the order of their registration:             *)
(*   "quick"    eBPF manager, SMF client: Stop waits for no loop           *)
(*   "pool"     ExportQueue: Stop waits for workers, none before Start     *)
(*   "detector" AnomalyDetector: a pool whose Stop hides the timeout       *)
(*   "loop"     FlowAnalyzer: Stop waits for doneChan                      *)
(*   "monitor"  TrafficMonitor: Stop first waits, without a timeout, for   *)
(*              the TLS reader, which wakes up when a perf event comes     *)
(*                                                                         *)
(* Time is in units of the five seconds a Stop is given.  It only passes   *)
(* while a timer runs, and never past the expiry of one: a select takes    *)
(* its timeout branch when it is due, and a goroutine that waits for the   *)
(* context leaves as soon as that is cancelled.  A tie is decided either   *)
(* way.                                                                    *)
(***************************************************************************)
EXTENDS Integers, Sequences

CONSTANTS Kind,            \* the kind of each component, a sequence
          StopTimeout,     \* StopAll's timeout for each component
          ServerTimeout,   \* of httpServer.Shutdown
          ShutdownTimeout, \* of terminateProcedure
          WaitTimeout      \* of WaitRoutineStopped

Kinds == {"quick", "pool", "detector", "loop", "monitor"}

ASSUME LifecycleAssumption ==
  /\ Kind \in Seq(Kinds) /\ Kind # <<>> /\ Kind[1] = "quick"
  /\ {StopTimeout, ServerTimeout, ShutdownTimeout, WaitTimeout} \subseteq Nat \ {0}

Components == 1..Len(Kind)
Looping == {i \in Components : Kind[i] # "quick"}

VARIABLES clock,
          ctxDone,   \* nf.ctx, the parent of every component's context
          main,      \* the goroutine that runs Start
          started,   \* how many components StartAll has started
          loop,      \* the goroutines of each component
          server,    \* the goroutine of the SBI server
          listen,    \* the goroutine listenShutdown
          stopper,   \* the goroutine that stops everything
          cur,       \* the component StopAll is at
          stop,      \* the call of Stop of each component
          calledAt,  \* when it was made
          stopBy,    \* when it gives up waiting for the loop
          due,       \* timers of the server, terminateProcedure and Start
          files      \* the exporters' files

comps == <<started, loop>>
stopping == <<stopper, cur, stop>>
timers == <<calledAt, stopBy, due>>

vars == <<clock, ctxDone, main, started, loop, server, listen, stopper,
          cur, stop, calledAt, stopBy, due, files>>

Init ==
  /\ clock = 0
  /\ ctxDone = FALSE
  /\ main = "starting"
  /\ started = 0
  /\ loop = [i \in Components |-> "off"]
  /\ server = "off"
  /\ listen = "off"
  /\ stopper = "off"
  /\ cur = 0
  /\ stop = [i \in Components |-> "no"]
  /\ calledAt = [i \in Components |-> 0]
  /\ stopBy = [i \in Components |-> 0]
  /\ due = [server |-> 0, shutdown |-> 0, wait |-> 0]
  /\ files = "open"

Alive == main \notin {"exited", "fatal"}

----------------------------------------------------------------------------
(***************************************************************************)
(* Start.                                                                  *)
(***************************************************************************)
StartNext ==
  /\ main = "starting"
  /\ started < Len(Kind)
  /\ started' = started + 1
  /\ loop' = [i \in Components |->
               IF i = started + 1 /\ i \in Looping THEN "idle" ELSE loop[i]]
  /\ UNCHANGED <<clock, ctxDone, main, server, listen, stopping, timers, files>>

\* Only the eBPF manager's Start can fail: the programs are not loaded or
\* not attached.  StartAll then calls StopAll, for every component.
StartFails ==
  /\ main = "starting"
  /\ started = 0
  /\ main' = "rollback"
  /\ stopper' = "stopping"
  /\ cur' = Len(Kind)
  /\ UNCHANGED <<clock, ctxDone, comps, server, listen, stop, timers, files>>

\* sbiServer.Run registers with the NRF, and goes on when that fails.
Run ==
  /\ main = "starting"
  /\ started = Len(Kind)
  /\ main' = "registering"
  /\ UNCHANGED <<clock, ctxDone, comps, server, listen, stopping, timers, files>>

Serve ==
  /\ main = "registering"
  /\ main' = "running"
  /\ server' = "serving"
  /\ listen' = "listening"
  /\ UNCHANGED <<clock, ctxDone, comps, stopping, timers, files>>

\* SIGINT or SIGTERM, at any time.
Signal ==
  /\ Alive
  /\ ~ ctxDone
  /\ ctxDone' = TRUE
  /\ UNCHANGED <<clock, main, comps, server, listen, stopping, timers, files>>

\* ListenAndServe returns an error: the server's goroutine calls Terminate.
ServerFails ==
  /\ Alive
  /\ server = "serving"
  /\ server' = "closed"
  /\ ctxDone' = TRUE
  /\ UNCHANGED <<clock, main, comps, listen, stopping, timers, files>>

\* <-a.ctx.Done(), then WaitRoutineStopped.
Wait ==
  /\ main = "running"
  /\ ctxDone
  /\ main' = "waiting"
  /\ due' = [due EXCEPT !.wait = clock + WaitTimeout]
  /\ UNCHANGED <<clock, ctxDone, comps, server, listen, stopping, calledAt, stopBy, files>>

\* Mutant: WaitRoutineStopped without its timeout.
ExitWhenDone ==
  /\ main = "waiting"
  /\ server = "closed" /\ listen = "done"
  /\ main' = "exited"
  /\ UNCHANGED <<clock, ctxDone, comps, server, listen, stopping, timers, files>>

\* a.wg counts the server's goroutine and listenShutdown.
Exit ==
  /\ main = "waiting"
  /\ (server = "closed" /\ listen = "done") \/ clock >= due.wait
  /\ main' = "exited"
  /\ UNCHANGED <<clock, ctxDone, comps, server, listen, stopping, timers, files>>

\* The rollback is over: log.Fatalf.
GiveUp ==
  /\ main = "rollback"
  /\ stopper = "stopped"
  /\ main' = "fatal"
  /\ UNCHANGED <<clock, ctxDone, comps, server, listen, stopping, timers, files>>

----------------------------------------------------------------------------
(***************************************************************************)
(* terminateProcedure, and the goroutine it starts.                        *)
(***************************************************************************)
\* Mutant: terminateProcedure takes the time that all its steps may take.
TerminateWithTime ==
  /\ Alive
  /\ listen = "listening"
  /\ ctxDone
  /\ listen' = "terminating"
  /\ due' = [due EXCEPT !.shutdown = clock + ServerTimeout + StopTimeout * Len(Kind)]
  /\ stopper' = "deregistering"
  /\ UNCHANGED <<clock, ctxDone, main, comps, server, cur, stop, calledAt, stopBy, files>>

Terminate ==
  /\ Alive
  /\ listen = "listening"
  /\ ctxDone
  /\ listen' = "terminating"
  /\ due' = [due EXCEPT !.shutdown = clock + ShutdownTimeout]
  /\ stopper' = "deregistering"
  /\ UNCHANGED <<clock, ctxDone, main, comps, server, cur, stop, calledAt, stopBy, files>>

TerminateReturns ==
  /\ Alive
  /\ listen = "terminating"
  /\ stopper = "finished" \/ clock >= due.shutdown
  /\ listen' = "done"
  /\ UNCHANGED <<clock, ctxDone, main, comps, server, stopping, timers, files>>

\* The NRF has answered, or failed: the request itself has no timeout.
\* Shutdown then makes ListenAndServe return at once.
Deregistered ==
  /\ Alive
  /\ stopper = "deregistering"
  /\ stopper' = "closing"
  /\ server' = "closed"
  /\ due' = [due EXCEPT !.server = clock + ServerTimeout]
  /\ UNCHANGED <<clock, ctxDone, main, comps, listen, cur, stop, calledAt, stopBy, files>>

\* The last request is answered, or the server is closed by force.
ServerStopped ==
  /\ Alive
  /\ stopper = "closing"
  /\ stopper' = "stopping"
  /\ cur' = Len(Kind)
  /\ UNCHANGED <<clock, ctxDone, main, comps, server, listen, stop, timers, files>>

\* exportDispatcher.Shutdown, which waits for the handlers under d.mu.
Pools == {i \in Components : Kind[i] = "pool"}

CloseFiles ==
  /\ Alive
  /\ stopper = "stopped"
  /\ main # "rollback"
  /\ \A i \in Pools : loop[i] # "busy"
  /\ files' = "closed"
  /\ stopper' = "finished"
  /\ UNCHANGED <<clock, ctxDone, main, comps, server, listen, cur, stop, timers>>

----------------------------------------------------------------------------
(***************************************************************************)
(* StopAll: last registered first, each Stop in a goroutine of its own.    *)
(***************************************************************************)
CallStop ==
  /\ Alive
  /\ stopper = "stopping"
  /\ cur > 0
  /\ stop[cur] = "no"
  /\ stop' = [stop EXCEPT ![cur] = IF Kind[cur] = "monitor" THEN "reader" ELSE "waiting"]
  /\ calledAt' = [calledAt EXCEPT ![cur] = clock]
  /\ stopBy' = [stopBy EXCEPT ![cur] = clock + StopTimeout]
  /\ UNCHANGED <<clock, ctxDone, main, comps, server, listen, stopper, cur, due, files>>

Returned == {"ok", "error"}

\* Mutant: one timeout for all the components.
MoveOnTogether ==
  /\ Alive
  /\ stopper = "stopping"
  /\ cur > 0
  /\ stop[cur] # "no"
  /\ stop[cur] \in Returned \/ clock >= calledAt[Len(Kind)] + StopTimeout
  /\ cur' = cur - 1
  /\ UNCHANGED <<clock, ctxDone, main, comps, server, listen, stopper, stop, timers, files>>

\* The Stop has returned, or its time is up: it is left to itself.
MoveOn ==
  /\ Alive
  /\ stopper = "stopping"
  /\ cur > 0
  /\ stop[cur] # "no"
  /\ stop[cur] \in Returned \/ clock >= calledAt[cur] + StopTimeout
  /\ cur' = cur - 1
  /\ UNCHANGED <<clock, ctxDone, main, comps, server, listen, stopper, stop, timers, files>>

AllStopped ==
  /\ Alive
  /\ stopper = "stopping"
  /\ cur = 0
  /\ stopper' = "stopped"
  /\ UNCHANGED <<clock, ctxDone, main, comps, server, listen, cur, stop, timers, files>>

(***************************************************************************)
(* The Stop of component i.                                                *)
(***************************************************************************)
SetStop(i, result) ==
  /\ stop' = [stop EXCEPT ![i] = result]
  /\ UNCHANGED <<clock, ctxDone, main, comps, server, listen, stopper, cur, calledAt, due, files>>

\* A perf event has come, the TLS reader sees its stopChan.  A reader that
\* was never started never answers.
ReaderEnds(i) ==
  /\ Alive
  /\ stop[i] = "reader"
  /\ i <= started
  /\ stopBy' = [stopBy EXCEPT ![i] = clock + StopTimeout]
  /\ SetStop(i, "waiting")

\* What Stop waits for: nothing, q.wg, or doneChan.
Gone(i) ==
  \/ Kind[i] = "quick"
  \/ Kind[i] \in {"pool", "detector"} /\ loop[i] \in {"off", "ended"}
  \/ Kind[i] \in {"loop", "monitor"} /\ loop[i] = "ended"

\* Mutant: Stop does not wait for the loop of its component.
StopReturnsAtOnce(i) ==
  /\ Alive
  /\ stop[i] = "waiting"
  /\ SetStop(i, "ok")
  /\ UNCHANGED stopBy

StopReturns(i) ==
  /\ Alive
  /\ stop[i] = "waiting"
  /\ Gone(i)
  /\ SetStop(i, "ok")
  /\ UNCHANGED stopBy

\* The detector logs the timeout of its queue and returns nil.
StopTimesOut(i) ==
  /\ Alive
  /\ stop[i] = "waiting"
  /\ Kind[i] # "quick"
  /\ clock >= stopBy[i]
  /\ SetStop(i, IF Kind[i] = "detector" THEN "ok" ELSE "error")
  /\ UNCHANGED stopBy

----------------------------------------------------------------------------
(***************************************************************************)
(* The loops.  Each select takes any branch that is ready, so a loop may   *)
(* take more work after it was told to leave.                              *)
(***************************************************************************)
SetLoop(i, to) ==
  /\ loop' = [loop EXCEPT ![i] = to]
  /\ UNCHANGED <<clock, ctxDone, main, started, server, listen, stopping, timers, files>>

Work(i) == Alive /\ loop[i] = "idle" /\ SetLoop(i, "busy")
WorkDone(i) == Alive /\ loop[i] = "busy" /\ SetLoop(i, "idle")

\* close(stopChan) comes after the wait for the TLS reader.
ToldToStop(i) == ctxDone \/ stop[i] \notin {"no", "reader"}

Leave(i) == Alive /\ loop[i] = "idle" /\ ToldToStop(i) /\ SetLoop(i, "ended")

----------------------------------------------------------------------------
\* When the timers that run expire.
Expiries ==
  {stopBy[i] : i \in {j \in Looping : stop[j] = "waiting"}}
    \cup {calledAt[i] + StopTimeout :
            i \in {j \in Components : stopper = "stopping" /\ j = cur /\ stop[j] # "no"}}
    \cup (IF stopper = "closing" THEN {due.server} ELSE {})
    \cup (IF listen = "terminating" THEN {due.shutdown} ELSE {})
    \cup (IF main = "waiting" THEN {due.wait} ELSE {})

Woken == ctxDone /\ (main = "running" \/ listen = "listening")

Tick ==
  /\ Alive
  /\ Expiries # {}
  /\ \A t \in Expiries : clock < t
  /\ ~ Woken
  /\ clock' = clock + 1
  /\ UNCHANGED <<ctxDone, main, comps, server, listen, stopping, timers, files>>

Main == StartNext \/ StartFails \/ Run \/ Serve \/ Wait \/ Exit \/ GiveUp

Terminating == Terminate \/ TerminateReturns \/ CloseFiles

StoppingAll == CallStop \/ MoveOn \/ AllStopped

Stopping(i) == StopReturns(i) \/ StopTimesOut(i)

\* What others decide: the user, the network, the peers, the traffic.
Environment ==
  \/ Signal \/ ServerFails
  \/ Deregistered \/ ServerStopped
  \/ \E i \in Looping : ReaderEnds(i) \/ Work(i) \/ WorkDone(i)

Terminated == ~ Alive /\ UNCHANGED vars

Next ==
  \/ Main \/ Terminating \/ StoppingAll
  \/ \E i \in Components : Stopping(i)
  \/ \E i \in Looping : Leave(i)
  \/ Environment
  \/ Tick
  \/ Terminated

Spec == Init /\ [][Next]_vars

\* The program's own goroutines are scheduled and time passes.  Nothing is
\* assumed of the environment, not even that the NRF answers a
\* deregistration, that a perf event comes or that a handler returns.
FairSpec ==
  /\ Spec
  /\ WF_vars(Tick)
  /\ WF_vars(Main)
  /\ WF_vars(Terminate) /\ WF_vars(TerminateReturns) /\ WF_vars(CloseFiles)
  /\ WF_vars(StoppingAll)
  /\ WF_vars(clock >= due.server /\ ServerStopped)
  /\ \A i \in Components : WF_vars(Stopping(i))

----------------------------------------------------------------------------
(***************************************************************************)
(* Properties.                                                             *)
(***************************************************************************)
TypeOK ==
  /\ clock \in Nat /\ ctxDone \in BOOLEAN /\ started \in 0..Len(Kind)
  /\ main \in {"starting", "rollback", "registering", "running", "waiting", "exited", "fatal"}
  /\ loop \in [Components -> {"off", "idle", "busy", "ended"}]
  /\ server \in {"off", "serving", "closed"}
  /\ listen \in {"off", "listening", "terminating", "done"}
  /\ stopper \in {"off", "deregistering", "closing", "stopping", "stopped", "finished"}
  /\ cur \in 0..Len(Kind)
  /\ stop \in [Components -> {"no", "reader", "waiting"} \cup Returned]
  /\ calledAt \in [Components -> Nat] /\ stopBy \in [Components -> Nat]
  /\ due \in [server : Nat, shutdown : Nat, wait : Nat]
  /\ files \in {"open", "closed"}

Called(i) == stop[i] # "no"
TimeIsUp(i) == clock >= calledAt[i] + StopTimeout

\* StopAll's cursor separates the components called from those to come.
CalledInOrder ==
  /\ stopper \in {"off", "deregistering", "closing"} => \A i \in Components : ~ Called(i)
  /\ stopper \in {"stopped", "finished"} => cur = 0
  /\ \A i \in Components : Called(i) => i >= cur
  /\ stopper \in {"stopping", "stopped", "finished"}
       => \A i \in Components : i > cur => stop[i] \in Returned \/ (Called(i) /\ TimeIsUp(i))

\* A Stop returns once the loop has ended, or when its time is up.
ReturnsInTime ==
  \A i \in Components :
    Called(i) =>
      /\ calledAt[i] <= clock /\ stopBy[i] >= calledAt[i] + StopTimeout
      /\ stop[i] \in Returned /\ i \in Looping /\ i <= started
           => loop[i] = "ended" \/ TimeIsUp(i)

LoopsRun == \A i \in Looping : i <= started <=> loop[i] # "off"

\* Nothing is stopped before Run has returned, but for a start that failed
\* (when nothing runs), and only terminateProcedure closes the files.
StartedBeforeStopped ==
  /\ main \in {"starting", "registering"} => stopper = "off"
  /\ main \in {"starting", "registering", "rollback", "fatal"} <=> listen = "off"
  /\ main \in {"rollback", "fatal"} => started = 0
  /\ listen = "listening" => stopper = "off"
  /\ files = "closed" => stopper = "finished"

\* Start and listenShutdown wake up at the same time, when the context is
\* done, and set their timers then.
TimersAgree ==
  /\ main = "waiting" \/ listen = "terminating" => ctxDone
  /\ main = "waiting" /\ listen = "listening" => due.wait = clock + WaitTimeout
  /\ main = "running" /\ listen = "terminating" => due.shutdown = clock + ShutdownTimeout
  /\ main = "waiting" /\ listen = "terminating"
       => due.shutdown + WaitTimeout = due.wait + ShutdownTimeout
  /\ listen = "terminating" => clock <= due.shutdown

\* The parts that together are preserved by every step.
Inductive ==
  /\ TypeOK /\ CalledInOrder /\ ReturnsInTime /\ LoopsRun
  /\ StartedBeforeStopped /\ TimersAgree

\* The reason for stopping in reverse order: no component's Stop is called,
\* and no file is closed, while a producer registered later still runs, unless
\* that one has had its whole StopTimeout (StopAll, lifecycle.go).  The
\* cancelled context tells all components at once.
ProducersFirst ==
  \A j \in Looping :
    /\ j <= started
    /\ files = "closed" \/ \E i \in Components : i < j /\ Called(i)
    => loop[j] = "ended" \/ TimeIsUp(j)

\* WaitRoutineStopped gives terminateProcedure all of its own time: Start
\* does not return, ending the program, before that has finished or given
\* up (the timeouts of terminateProcedure and WaitRoutineStopped, init.go).
ExitAfterTerminate == main = "exited" => listen = "done"

\* However the NRF, the HTTP clients, the handlers and the TLS reader
\* behave, the program ends once it is told to, or once its start failed.
ProgramEnds ==
  /\ main = "running" /\ ctxDone ~> main = "exited"
  /\ main = "rollback" ~> main = "fatal"

=============================================================================
