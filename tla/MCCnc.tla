------------------------------- MODULE MCCnc -------------------------------
(* Values of the constants of Cnc for TLC.                                 *)
EXTENDS Cnc

CONSTANTS s1, s2

\* A constraint on the states explored: of two captive children of a daemon the
\* first prints, and the other does not.
LinesOfOne ==
    \A s \in Servers : \A p, q \in captive[s] : p < q => lines[s][q].made = 0
=============================================================================
