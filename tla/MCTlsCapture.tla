----------------------------- MODULE MCTlsCapture -----------------------------
(***************************************************************************)
(* Instance of TlsCapture: two CPUs, two TLS flows of one UE, a UDP flow   *)
(* of another, and maps with room for one flow less.                       *)
(***************************************************************************)
EXTENDS TlsCapture, TLC

CONSTANTS c1, c2, f1, f2, f3, u1, u2

TwoCpus == {c1, c2}
HttpsFlows == {f1, f2}
UdpFlows == {f3}
NoFlows == {}
Owners == (f1 :> u1) @@ (f2 :> u1) @@ (f3 :> u2)

=============================================================================
