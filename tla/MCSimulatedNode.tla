-------------------------- MODULE MCSimulatedNode --------------------------
(* Values of the constants of SimulatedNode for TLC.                       *)
EXTENDS SimulatedNode

\* A packet has a header, and for each frequency the samples of its beams.
MCPacketSize(nbeams, nfreqs) == 8 + 4 * nbeams * nfreqs

\* One stream fed by 1, 2 or 3 threads, two streams of 1, 2 or 3 threads; the
\* lists of addresses and ports of equal length, repeated, or at odds.
MCFiles ==
    {[nbeams |-> x[1], nthreads |-> x[2], naddr |-> x[3], nport |-> x[4], perPacket |-> x[5]] :
        x \in {<<2, 1, 1, 1, -1>>, <<2, 2, 1, 1, 4>>, <<3, 3, 1, 1, -1>>,
               <<4, 2, 1, 2, 4>>, <<8, 4, 2, 1, -1>>, <<16, 4, 4, 1, -1>>,
               <<3, 2, 2, 2, -1>>, <<4, 3, 2, 2, -1>>, 
               <<2, 2, 1, 1, 3>>, <<2, 2, 1, 1, 0>>, <<2, 1, 1, 1, 8>>, <<2, 2, 2, 3, -1>>}}

MCNodes ==
    {[ncores |-> x[1], ignoreEos |-> x[2], assembled |-> x[3], telescoping |-> x[4]] :
        x \in {<<20, FALSE, 8, <<>>>>, <<20, FALSE, 1, <<1>>>>,
               <<20, TRUE, 12, <<12, 20, 40, 70>>>>, <<8, FALSE, 5, <<4>>>>}}
=============================================================================
