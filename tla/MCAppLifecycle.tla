--------------------------- MODULE MCAppLifecycle ---------------------------
(***************************************************************************)
(* An instance of AppLifecycle: one component of each kind, in the order   *)
(* in which initMonitoringPipeline registers them.                         *)
(***************************************************************************)
EXTENDS AppLifecycle

OneOfEach == <<"quick", "pool", "detector", "loop", "monitor">>

=============================================================================
