------------------------------ MODULE L1Config ------------------------------
(***************************************************************************)
(* What the L1 process finds out from its configuration file before it     *)
(* starts any thread (l1_config and l1_server in ch-frb-l1.cpp): whether   *)
(* the file is accepted and placed on the machine, and which beams each    *)
(* stream assembles.  How much memory that takes is not modelled.          *)
(* A configuration is a record n; lengths in time are in samples, and the  *)
(* entries of the lists ipaddr and port are only counted.                  *)
(***************************************************************************)
EXTENDS Integers, Sequences

ConfigType ==
    [nbeams: Int, naddr: Nat, nport: Nat, ncores: Nat, ignoreEos: BOOLEAN,
     assembled: Int, telescoping: Seq(Int)]

\* A list of one element is repeated to the length of the other one; 0 for
\* lists that do not go together.
PairUp(naddr, nport) ==
    CASE naddr = 1 /\ nport > 1 -> nport
      [] naddr > 1 /\ nport = 1 -> naddr
      [] naddr = nport -> naddr
      [] OTHER -> 0

NStreams(n) == PairUp(n.naddr, n.nport)

Levels(n) == Len(n.telescoping)

\* The exceptions of the constructor of l1_config.
Accepted(n) ==
    /\ NStreams(n) > 0
    /\ n.nbeams > 0
    /\ n.nbeams % NStreams(n) = 0
    /\ n.assembled > 0
    /\ Levels(n) <= 4
    /\ Levels(n) > 0 => n.telescoping[1] >= n.assembled
    /\ \A l \in 1 .. Levels(n) : n.telescoping[l] > 0

\* The machines l1_server knows: up to 4 beams without core-pinning, or 8 or
\* 16 beams on 20 cores with a fixed number of streams.
Placed(n) ==
    \/ n.nbeams <= 4
    \/ n.ncores = 20 /\ <<n.nbeams, NStreams(n)>> \in {<<16, 4>>, <<8, 2>>}

-----------------------------------------------------------------------------
(* Streams and beams are numbered from 0.                                  *)

BeamsPerStream(n) == n.nbeams \div NStreams(n)

StreamBeams(n, s) ==
    s * BeamsPerStream(n) .. (s + 1) * BeamsPerStream(n) - 1
=============================================================================
