---------------------------- MODULE MCDelayQueue ----------------------------
(* Model-checking instance of DelayQueue. *)
EXTENDS DelayQueue

MCDelays == {0, 2}

=============================================================================
