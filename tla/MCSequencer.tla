----------------------------- MODULE MCSequencer -----------------------------
(* Sequencer with small sets of session ids.                               *)
EXTENDS Sequencer

MCTwo   == 1 .. 2
MCThree == 1 .. 3
=============================================================================
