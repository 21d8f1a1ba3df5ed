--------------------------- MODULE MCPreparation ---------------------------
(* Instances of Preparation for TLC.  A tick is half a second: a backoff of *)
(* two seconds, a useful wait of one, and a horizon of seven.               *)
EXTENDS Preparation
=============================================================================
