---------------------------- MODULE MCBaseQueue ----------------------------
(* Two workers, three calls of Enqueue and a channel of two: enough for a  *)
(* full channel, for two workers to race for a message and for one to      *)
(* drain while the other is still in its handler.                          *)
EXTENDS BaseQueue
============================================================================
