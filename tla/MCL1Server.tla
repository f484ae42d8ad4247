----------------------------- MODULE MCL1Server -----------------------------
(* Values of the constants of L1Server for TLC.                            *)
EXTENDS L1Server

\* Two mask counters in the RFI chain of the first beam, one in the others.
MCCounters == [b \in Beams |-> IF b = 0 THEN CounterNames ELSE {"last"}]

\* A constraint on the states explored: an L1b child exits when its thread waits
\* for it, or later.  To the thread, which looks at nothing else of the child, one
\* that has exited before is the same as one that exits then.
ChildrenExitLate ==
    \A b \in Beams : HasL1b /\ dedisp[b] \notin {"waitL1b", "exited"} => b \in l1b
=============================================================================
