-------------------------- MODULE MCNrfRegistration --------------------------
(***************************************************************************)
(* Instance of NrfRegistration: three runs of the program, with the three  *)
(* tries the code has, so that calls of two earlier runs may arrive late.  *)
(***************************************************************************)
EXTENDS NrfRegistration

=============================================================================
