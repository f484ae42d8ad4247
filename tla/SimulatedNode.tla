--------------------------- MODULE SimulatedNode ---------------------------
(***************************************************************************)
(* An L1 node fed by the L0 simulator: l1_server makes its input streams   *)
(* from its configuration file (ch-frb-l1.cpp), the simulator, with a      *)
(* parameter file for the same beams and addresses, sends to them.         *)
(* Receiving is done by ch_frb_io: a stream keeps the packets of its own   *)
(* beams and ends at an end-of-stream packet.                              *)
(* The node is started first, and the loopback interface loses nothing.    *)
(***************************************************************************)
EXTENDS SimulateL0, FiniteSets

CONSTANT Nodes      \* what a configuration file has apart from beams and addresses

ASSUME NodesAssumption ==
    Nodes \subseteq [ncores: Nat, ignoreEos: BOOLEAN, assembled: Int,
                     telescoping: Seq(Int)]

VARIABLES
    node,       \* the configuration of the node
    nodePc,     \* the node is off, has refused its file, or is up
    read,       \* stream -> packets received
    over        \* the streams that have ended

nodeVars == <<node, nodePc, read, over>>

NodeInit ==
    /\ Init
    /\ \E n \in Nodes :
         node = [nbeams |-> file.nbeams, naddr |-> file.naddr, nport |-> file.nport,
                 ncores |-> n.ncores, ignoreEos |-> n.ignoreEos,
                 assembled |-> n.assembled, telescoping |-> n.telescoping]
    /\ nodePc = "off"
    /\ read = [s \in Streams(file) |-> 0]
    /\ over = {}

\* l1_config, l1_server, make_input_streams()
NodeStart ==
    /\ nodePc = "off"
    /\ nodePc' = IF Accepted(node) /\ Placed(node) THEN "up" ELSE "refused"
    /\ UNCHANGED <<vars, node, read, over>>

Receive(s) ==
    /\ nodePc = "up"
    /\ s \notin over
    /\ read[s] < Len(wire[s])
    /\ read' = [read EXCEPT ![s] = @ + 1]
    /\ over' = IF wire[s][read[s] + 1].chunk = Eos /\ ~node.ignoreEos
               THEN over \cup {s} ELSE over
    /\ UNCHANGED <<vars, node, nodePc>>

Simulate == nodePc # "off" /\ Next /\ UNCHANGED nodeVars

\* The simulator is through, and the node has received all there is.
Finished ==
    /\ nodePc # "off"
    /\ pc \in {"refused", "returned"}
    /\ nodePc = "up" => \A s \in Streams(file) : s \in over \/ read[s] = Len(wire[s])

Idle == Finished /\ UNCHANGED <<vars, nodeVars>>

NodeNext ==
    \/ NodeStart \/ (\E s \in Streams(file) : Receive(s)) \/ Simulate
    \/ Idle

NodeSpec == NodeInit /\ [][NodeNext]_<<vars, nodeVars>>

\* Some thread that can run does run, in the simulator or in the node: every
\* step is progress, no loop polls.
FairSpec == NodeSpec /\ WF_<<vars, nodeVars>>(NodeNext)

-----------------------------------------------------------------------------
\* The packets of stream s that carry frequency f of its beam b in chunk c.
Carrying(s, b, f, c) ==
    {k \in 1 .. read[s] : /\ wire[s][k].chunk = c
                          /\ b \in BeamsOf(file, wire[s][k].from)
                          /\ f \in FreqsOf(file, wire[s][k].from)}

\* A stream that has ended has every beam it assembles at every frequency, in
\* every chunk, and none twice: the simulator's division of the work over
\* destinations and threads agrees with the node's division of its beams, and
\* no thread's data comes behind the end of the stream.
EndedHaveAll ==
    \A s \in over, b \in 0 .. file.nbeams - 1, f \in 0 .. NFreq - 1, c \in 0 .. job.nchunks - 1 :
        b \in StreamBeams(node, s) =>
            /\ Cardinality(Carrying(s, b, f, c)) <= 1
            /\ failed = {} => Carrying(s, b, f, c) # {}

\* An accepted simulation returns, and every stream of its node ends, unless
\* the node ignores end-of-stream packets: no destination is left without one.
EverythingEnds ==
    /\ <>(pc \in {"refused", "returned"})
    /\ (nodePc = "up" /\ pc = "start" /\ ~node.ignoreEos) ~> (over = Streams(file))
=============================================================================
