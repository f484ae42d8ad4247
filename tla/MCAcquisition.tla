---------------------------- MODULE MCAcquisition ----------------------------
(* Values of the constants of Acquisition for TLC.                         *)
EXTENDS Acquisition

MCBeamsOf == [s \in Streams |-> IF s = 1 THEN {1, 2} ELSE {3}]
=============================================================================
