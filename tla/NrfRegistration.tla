---------------------------- MODULE NrfRegistration ----------------------------
(***************************************************************************)
(* Registering with the NRF when the SBI server is run, and deregistering  *)
(* when it is stopped (internal/sbi/consumer/nrf_service.go, internal/sbi/ *)
(* server.go), over a network that loses and delays calls and in a program *)
(* that is killed and run again.                                           *)
(*                                                                         *)
(* The NRF is external.  It keeps a set of NF instance ids: a PUT of an id *)
(* it does not have is answered with a Location, one of an id it has may   *)
(* be answered without (the code expects both), and either may be refused. *)
(* A connection may break at any moment, before or after the NRF handles   *)
(* the request and even while it is still to be handled; and as a call has *)
(* no timeout, it need not break, and the program may wait for ever.       *)
(*                                                                         *)
(* No name is one of AppLifecycle too, so that a module can extend both.   *)
(***************************************************************************)
EXTENDS Integers, FiniteSets

CONSTANTS Tries,  \* tryMaxtime
          MaxRuns \* how often the program is run: bounds the model

ASSUME NrfAssumption == Tries \in Nat \ {0} /\ MaxRuns \in Nat \ {0}

NoId == 0
Ids == 1..MaxRuns

\* The n-th PUT of a run, or its DELETE (n = 0).
Requests == [id : Ids, n : 0..Tries]
Answers == {"none", "located", "unlocated", "refused", "deleted"}

VARIABLES run,          \* which run of the program this is
          pc,           \* its step
          tries,        \* how often it has called RegisterNFInstance
          nfId,         \* NfId of the context
          isRegistered, oauth2Required, \* and two flags of it
          cancelled,    \* CancelContext is done
          answer,       \* what has arrived for the call it waits for
          requests,     \* requests on their way to the NRF
          entries,      \* the ids the NRF has
          spoiled       \* history: runs that were killed, had a call fail, or
                        \* did not wait for the end of one

contextVars == <<nfId, isRegistered, oauth2Required>>
nrfVars == <<requests, entries>>
registrationVars == <<run, pc, tries, contextVars, cancelled, answer, nrfVars, spoiled>>

\* Mutant: the id is taken from the configuration, the same for every run.
ConfiguredId(r) == 1

\* InitNfContext: uuid.New().
NewId(r) == r

NrfInit ==
  /\ run = 1
  /\ pc = "try"
  /\ tries = 0
  /\ nfId = NewId(1)
  /\ isRegistered = FALSE
  /\ oauth2Required = FALSE
  /\ cancelled = FALSE
  /\ answer = "none"
  /\ requests = {}
  /\ entries = {}
  /\ spoiled = {}

----------------------------------------------------------------------------
(***************************************************************************)
(* RegisterNFInstance, called by Run before anything else is served.       *)
(***************************************************************************)
Awaited == [id |-> nfId, n |-> IF pc = "put" THEN tries ELSE 0]
Waiting == pc \in {"put", "delete"}

Put ==
  /\ pc = "try"
  /\ ~ cancelled
  /\ pc' = "put"
  /\ tries' = tries + 1
  /\ requests' = requests \cup {[id |-> nfId, n |-> tries + 1]}
  /\ answer' = "none"
  /\ UNCHANGED <<run, contextVars, cancelled, entries, spoiled>>

\* Run takes whatever id is returned, and ignores the error: the server
\* serves, and the id the context had is gone.
ServeUnregistered ==
  /\ pc' = "serve"
  /\ nfId' = NoId
  /\ UNCHANGED <<run, tries, isRegistered, oauth2Required, cancelled, answer, nrfVars, spoiled>>

\* The default of select cannot be taken once the context is done.
StopTrying == pc = "try" /\ cancelled /\ ServeUnregistered

Unlocated == pc = "put" /\ answer = "unlocated" /\ ServeUnregistered

\* Mutant: nobody sets the flag.
LocatedUnflagged(oauth2) ==
  /\ pc = "put"
  /\ answer = "located"
  /\ pc' = "serve"
  /\ oauth2Required' = oauth2
  /\ UNCHANGED <<run, tries, nfId, isRegistered, cancelled, answer, nrfVars, spoiled>>

\* The id is the last part of the Location, which the NRF made of the id
\* it was sent.
Located(oauth2) ==
  /\ pc = "put"
  /\ answer = "located"
  /\ pc' = "serve"
  /\ isRegistered' = TRUE
  /\ oauth2Required' = oauth2
  /\ UNCHANGED <<run, tries, nfId, cancelled, answer, nrfVars, spoiled>>

\* An error: it is logged, and the program sleeps.
TryLater ==
  /\ pc' = "sleep"
  /\ spoiled' = spoiled \cup {run}
  /\ UNCHANGED <<run, tries, contextVars, cancelled, answer, nrfVars>>

Refused == pc = "put" /\ answer = "refused" /\ TryLater

\* The connection breaks, whatever became of the request.
PutFails == pc = "put" /\ TryLater

\* Mutant: one try too many.
WakeOnceMore ==
  /\ pc = "sleep"
  /\ tries <= Tries
  /\ pc' = "try"
  /\ UNCHANGED <<run, tries, contextVars, cancelled, answer, nrfVars, spoiled>>

\* After two seconds, which a cancelled context does not shorten.
Wake ==
  /\ pc = "sleep"
  /\ tries < Tries
  /\ pc' = "try"
  /\ UNCHANGED <<run, tries, contextVars, cancelled, answer, nrfVars, spoiled>>

\* Mutant: a program that must be registered goes on trying.
StartOver ==
  /\ pc = "sleep"
  /\ tries = Tries
  /\ pc' = "try"
  /\ tries' = 0
  /\ UNCHANGED <<run, contextVars, cancelled, answer, nrfVars, spoiled>>

TriesUsedUp == pc = "sleep" /\ tries = Tries /\ ServeUnregistered

Register ==
  \/ Put \/ StopTrying \/ Unlocated \/ Refused \/ Wake \/ TriesUsedUp
  \/ \E oauth2 \in BOOLEAN : Located(oauth2)

----------------------------------------------------------------------------
(***************************************************************************)
(* The end of a run: Stop calls SendDeregisterNFInstance, and the program  *)
(* ends when that has returned or when its timeouts have passed.           *)
(***************************************************************************)
\* A signal, or a server that failed: from then on the context is done, but
\* the program only looks at it when Run has returned.
Cancel ==
  /\ pc # "ended"
  /\ ~ cancelled
  /\ cancelled' = TRUE
  /\ UNCHANGED <<run, pc, tries, contextVars, answer, nrfVars, spoiled>>

\* "ANLF is not register to NRF yet!"
NothingToDeregister ==
  /\ pc = "serve"
  /\ cancelled
  /\ ~ isRegistered
  /\ pc' = "stopped"
  /\ UNCHANGED <<run, tries, contextVars, cancelled, answer, nrfVars, spoiled>>

GetToken ==
  /\ pc = "serve"
  /\ cancelled
  /\ isRegistered
  /\ oauth2Required
  /\ pc' = "token"
  /\ UNCHANGED <<run, tries, contextVars, cancelled, answer, nrfVars, spoiled>>

Delete ==
  /\ \/ pc = "serve" /\ cancelled /\ isRegistered /\ ~ oauth2Required
     \/ pc = "token"
  /\ pc' = "delete"
  /\ answer' = "none"
  /\ requests' = requests \cup {[id |-> nfId, n |-> 0]}
  /\ UNCHANGED <<run, tries, contextVars, cancelled, entries, spoiled>>

DeregisterReturns ==
  /\ pc = "delete"
  /\ answer = "deleted"
  /\ pc' = "stopped"
  /\ UNCHANGED <<run, tries, contextVars, cancelled, answer, nrfVars, spoiled>>

\* No token, no connection or an error of the NRF; it is not tried again.
DeregisterFails ==
  /\ pc \in {"token", "delete"}
  /\ pc' = "stopped"
  /\ spoiled' = spoiled \cup {run}
  /\ UNCHANGED <<run, tries, contextVars, cancelled, answer, nrfVars>>

Deregister ==
  \/ NothingToDeregister \/ GetToken \/ Delete \/ DeregisterReturns

EndRun ==
  /\ pc = "stopped"
  /\ pc' = "ended"
  /\ UNCHANGED <<run, tries, contextVars, cancelled, answer, nrfVars, spoiled>>

\* Killed, or deregistration took longer than shutdown may.
Die ==
  /\ pc # "ended"
  /\ pc' = "ended"
  /\ spoiled' = spoiled \cup {run}
  /\ UNCHANGED <<run, tries, contextVars, cancelled, answer, nrfVars>>

Restart ==
  /\ pc = "ended"
  /\ run < MaxRuns
  /\ run' = run + 1
  /\ pc' = "try"
  /\ tries' = 0
  /\ nfId' = NewId(run + 1)
  /\ isRegistered' = FALSE
  /\ oauth2Required' = FALSE
  /\ cancelled' = FALSE
  /\ answer' = "none"
  /\ UNCHANGED <<nrfVars, spoiled>>

----------------------------------------------------------------------------
(***************************************************************************)
(* The NRF and the network.                                                *)
(***************************************************************************)
Answer(m, a) == answer' = IF Waiting /\ m = Awaited THEN a ELSE answer

Handle(m) ==
  /\ m \in requests
  /\ requests' = requests \ {m}
  /\ \/ /\ m.n # 0
        /\ entries' = entries \cup {m.id}
        /\ \/ Answer(m, "located")
           \/ m.id \in entries /\ Answer(m, "unlocated")
     \/ /\ m.n = 0
        /\ entries' = entries \ {m.id}
        /\ Answer(m, "deleted")
     \/ /\ entries' = entries
        /\ Answer(m, "refused")
  /\ UNCHANGED <<run, pc, tries, contextVars, cancelled, spoiled>>

Lose(m) ==
  /\ m \in requests
  /\ requests' = requests \ {m}
  /\ UNCHANGED <<run, pc, tries, contextVars, cancelled, answer, entries, spoiled>>

Program == Register \/ Deregister \/ EndRun
CallBreaks == PutFails \/ DeregisterFails
NrfEnvironment ==
  \/ Cancel \/ Die \/ Restart
  \/ \E m \in requests : Handle(m) \/ Lose(m)

\* The machine stays as it is once the last run has ended.
Over == pc = "ended" /\ run = MaxRuns /\ requests = {} /\ UNCHANGED registrationVars

NrfNext == Program \/ CallBreaks \/ NrfEnvironment \/ Over

NrfSpec == NrfInit /\ [][NrfNext]_registrationVars

\* The program takes the steps of a registration that it can take.  It is not
\* assumed that a call ends: RegisterNFInstance has context.Background() and
\* no timeout.
NrfFairSpec == NrfSpec /\ WF_registrationVars(Register)

----------------------------------------------------------------------------
(***************************************************************************)
(* Properties.                                                             *)
(***************************************************************************)
NrfTypeOK ==
  /\ run \in Ids
  /\ pc \in {"try", "put", "sleep", "serve", "token", "delete", "stopped", "ended"}
  /\ tries \in 0..Tries
  /\ nfId \in Ids \cup {NoId}
  /\ isRegistered \in BOOLEAN /\ oauth2Required \in BOOLEAN /\ cancelled \in BOOLEAN
  /\ answer \in Answers
  /\ requests \subseteq Requests
  /\ entries \subseteq Ids
  /\ spoiled \subseteq Ids

\* What SendDeregisterNFInstance relies on: a context that is registered has
\* the id it was registered under, and requests carry an id, never the empty
\* one a failed registration leaves behind (NfId is overwritten in Run).
ContextFits ==
  /\ isRegistered => nfId = NewId(run)
  /\ pc \in {"try", "put", "sleep"} => nfId = NewId(run) /\ ~ isRegistered
  /\ pc \in {"token", "delete"} => isRegistered
  /\ pc = "try" => tries < Tries

\* No run has sent anything in the name of a later one, nor a DELETE before it
\* is about to end, and a Location is only given for what is stored.
RequestsFit ==
  /\ entries \subseteq 1..run
  /\ \A m \in requests :
       /\ m.id \in 1..run
       /\ m.id = run /\ m.n = 0 => pc \in {"delete", "stopped", "ended"}
  /\ pc = "put" /\ answer = "located" => run \in entries

\* No PUT of run r is on its way, and the NRF does not have its id.
Forgotten(r) == r \notin entries /\ \A m \in requests : m.id # r \/ m.n = 0

\* What a run without a fault leaves behind at each of its steps.
FaultlessFits ==
  /\ \A r \in 1..(run - 1) : r \in spoiled \/ Forgotten(r)
  /\ run \in spoiled \/
       /\ pc # "sleep"
       /\ pc \in {"try", "stopped", "ended"} => Forgotten(run)
       /\ pc = "put" /\ run \in entries => answer = "located"
       /\ pc = "put" /\ answer # "none" => \A m \in requests : m.id # run
       /\ pc = "try" => tries = 0
       /\ pc = "put" => \A m \in requests : m.id = run => m.n = tries
       /\ pc \in {"serve", "token", "delete"} => \A m \in requests : m.id = run => m.n = 0
       /\ pc = "serve" /\ ~ isRegistered => run \notin entries
       /\ pc = "delete" /\ answer = "deleted" => run \notin entries

NrfInductive == NrfTypeOK /\ ContextFits /\ RequestsFit /\ FaultlessFits

\* While a registered program serves, the NRF has its id: neither the calls
\* of its own that failed nor those of earlier runs that arrive late (a
\* DELETE among them) take it away.
RegisteredIsKnown ==
  isRegistered /\ pc \in {"serve", "token"} => nfId \in entries

\* A run that ends leaves its id in the NRF only if it was killed, one of its
\* calls failed, or it did not wait for its DELETE: without such a fault the
\* NRF is left as it was found, however often the program was stopped and
\* whenever the signal came.
LeftBehindOnlyAfterFault ==
  pc = "ended" => entries \cap 1..run \subseteq spoiled

\* The program waits in a call for an answer that has not come.
Unanswered == pc = "put" /\ answer = "none"

\* Registering is over sooner or later, registered or not, unless one call is
\* never answered and never breaks: refusals and broken connections, in any
\* order and with a signal at any moment, do not keep the program from serving
\* or from ending.  While such a call hangs, nothing looks at a signal.
RegistrationEnds ==
  [](pc = "try" => <>(pc \in {"serve", "ended"} \/ []Unanswered))

=============================================================================
