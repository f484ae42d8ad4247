--------------------------- MODULE MCL1RpcServer ---------------------------
(* Values of the constants of L1RpcServer for TLC.                         *)
EXTENDS L1RpcServer, TLC

CONSTANTS c1, c2

\* "each" has a (FPGA0) in it and separates the chunks, "same" has no
\* substitution and maps every chunk to one file, "away" names a directory no
\* device serves for the second chunk.
MCFileName ==
    [x \in Patterns \X Chunks |->
        CASE x = <<"each", "k1">> -> "f1"
          [] x = <<"each", "k2">> -> "f2"
          [] x[1] = "same"        -> "f1"
          [] x = <<"away", "k1">> -> "f2"
          [] x = <<"away", "k2">> -> "far"]

\* One device: it serves f1 and f2.
MCDeviceOf1 == [f \in Files |-> IF f = "far" THEN 0 ELSE 1]

\* Two devices, one file each.
MCDeviceOf2 == [f \in Files |-> CASE f = "f1" -> 1 [] f = "f2" -> 2 [] OTHER -> 0]

Symmetry == Permutations({c1, c2})

\* A bound on the writes under way and done.
AtMostTwoWrites == Cardinality(accepted) <= 2
=============================================================================
