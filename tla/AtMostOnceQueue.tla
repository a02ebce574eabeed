-------------------------- MODULE AtMostOnceQueue --------------------------
(***************************************************************************)
(* What a queue of the analyzer promises to the code around it, without    *)
(* workers, channels or contexts.  A call of Enqueue decides the fate of   *)
(* its message at once (accepted or refused, for good); an accepted        *)
(* message is handed to the handler at most once; and once Stop has        *)
(* reported success the handler is never called again, so what it writes   *)
(* to may be closed.  Nothing here promises that an accepted message is    *)
(* handled at all: see BaseQueue for when it is.                           *)
(***************************************************************************)
EXTENDS Naturals

CONSTANT Msgs

VARIABLES pending,   \* accepted, the handler has not returned from it yet
          handled,   \* how many times the handler has returned from it
          refused,   \* Enqueue returned an error for it
          phase      \* "running", "stopping" or "halted"

vars == <<pending, handled, refused, phase>>

Init ==
  /\ pending = {}
  /\ handled = [m \in Msgs |-> 0]
  /\ refused = {}
  /\ phase = "running"

Fresh(m) == m \notin pending \cup refused /\ handled[m] = 0

Accept(m) ==
  /\ Fresh(m)
  /\ pending' = pending \cup {m}
  /\ UNCHANGED <<handled, refused, phase>>

Refuse(m) ==
  /\ Fresh(m)
  /\ refused' = refused \cup {m}
  /\ UNCHANGED <<pending, handled, phase>>

Handle(m) ==
  /\ phase # "halted"
  /\ m \in pending
  /\ pending' = pending \ {m}
  /\ handled' = [handled EXCEPT ![m] = @ + 1]
  /\ UNCHANGED <<refused, phase>>

BeginStop ==
  /\ phase = "running"
  /\ phase' = "stopping"
  /\ UNCHANGED <<pending, handled, refused>>

\* The queue may halt with messages still pending: they are lost.
Halt ==
  /\ phase = "stopping"
  /\ phase' = "halted"
  /\ UNCHANGED <<pending, handled, refused>>

Next ==
  \/ \E m \in Msgs : Accept(m) \/ Refuse(m) \/ Handle(m)
  \/ BeginStop
  \/ Halt

Spec == Init /\ [][Next]_vars
============================================================================
