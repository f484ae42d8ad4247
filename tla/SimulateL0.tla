----------------------------- MODULE SimulateL0 -----------------------------
(***************************************************************************)
(* ch-frb-simulate-l0 (simulate-l0.cpp, ch-frb-simulate-l0.cpp): it sends  *)
(* intensity data to the streams of an L1 node.  Every destination is fed  *)
(* by several threads; a thread has a block of coarse frequencies, hands   *)
(* chunks to an ostream of its own, and a network thread behind the        *)
(* ostream puts them on the wire.  When all threads have been joined the   *)
(* ostreams are ended, one after the other, and one ostream of a           *)
(* destination tells it that the stream has ended.                         *)
(*                                                                         *)
(* The ostream with its network thread belongs to ch_frb_io and is         *)
(* modelled from how it is used.  The wire keeps what was sent, in order.  *)
(***************************************************************************)
EXTENDS L1Config

CONSTANTS
    Files,              \* the parameter files
    NFreq,              \* ch_frb_io::constants::nfreq_coarse_tot
    PacketSize(_, _),   \* bytes of a packet, from its numbers of beams and frequencies
    MaxPacketSize,
    MaxChunks,          \* the most chunks a thread sends, and
    MaxSends,           \* the most that all threads send (bounds for TLC)
    RingSize            \* the most chunks an ostream holds

FileType ==
    [nbeams: Nat \ {0}, nthreads: 1 .. 32, naddr: Nat, nport: Nat,
     perPacket: Nat \cup {-1}]     \* -1: not in the file

PowersOfTwo == {1, 2, 4, 8, 16, 32, 64, 128, 256, 512, 1024, 2048, 4096, 8192}

ASSUME SimulateL0Assumption ==
    /\ Files \subseteq FileType
    /\ NFreq \in PowersOfTwo
    /\ \A f \in Files : f.nthreads <= NFreq
    /\ MaxPacketSize \in Nat /\ MaxPacketSize < 16384
    /\ MaxChunks \in Nat \ {0}
    /\ MaxSends \in Nat
    /\ RingSize \in Nat \ {0}
    \* a packet of nf frequencies is no longer than nf packets of one
    /\ \A f \in Files, nf \in 1 .. NFreq :
         NStreams(f) > 0 =>
             /\ PacketSize(BeamsPerStream(f), nf) \in Nat \ {0}
             /\ PacketSize(BeamsPerStream(f), nf)
                    <= nf * PacketSize(BeamsPerStream(f), 1)

-----------------------------------------------------------------------------
(* The constructor of l0_params.                                           *)

ThreadsPerStream(f) == f.nthreads \div NStreams(f)

FreqsPerThread(f) == NFreq \div ThreadsPerStream(f)

RoundDownToPowerOfTwo(x) ==
    CHOOSE p \in PowersOfTwo : p <= x /\ x < 2 * p

FreqsPerPacket(f) ==
    IF f.perPacket # -1
    THEN f.perPacket
    ELSE LET most == RoundDownToPowerOfTwo(
                         MaxPacketSize \div PacketSize(BeamsPerStream(f), 1))
         IN  IF most < FreqsPerThread(f) THEN most ELSE FreqsPerThread(f)

\* (mutant) any multiple of the number of streams is a good number of threads
AcceptsAnyThreads(f) ==
    /\ NStreams(f) > 0
    /\ f.nbeams % NStreams(f) = 0
    /\ f.nthreads % NStreams(f) = 0
    /\ \/ f.perPacket = -1 /\ PacketSize(BeamsPerStream(f), 1) <= MaxPacketSize
       \/ /\ f.perPacket > 0
          /\ FreqsPerThread(f) % f.perPacket = 0
          /\ PacketSize(BeamsPerStream(f), f.perPacket) <= MaxPacketSize

Accepts(f) ==
    /\ NStreams(f) > 0
    /\ f.nbeams % NStreams(f) = 0
    /\ f.nthreads % NStreams(f) = 0
    /\ ThreadsPerStream(f) \in PowersOfTwo
    /\ \/ f.perPacket = -1 /\ PacketSize(BeamsPerStream(f), 1) <= MaxPacketSize
       \/ /\ f.perPacket > 0
          /\ FreqsPerThread(f) % f.perPacket = 0
          /\ PacketSize(BeamsPerStream(f), f.perPacket) <= MaxPacketSize

(* make_ostream(): where a thread sends to, and what. *)

Threads(f) == 0 .. f.nthreads - 1
Streams(f) == 0 .. NStreams(f) - 1

StreamOf(f, t) == t \div ThreadsPerStream(f)
PlaceOf(f, t)  == t % ThreadsPerStream(f)

BeamsOf(f, t) == StreamBeams(f, StreamOf(f, t))

FreqsOf(f, t) ==
    PlaceOf(f, t) * FreqsPerThread(f) .. (PlaceOf(f, t) + 1) * FreqsPerThread(f) - 1

\* (mutant) the first thread of a stream sends the end-of-stream packets
SendsEosFirst(f, t) == PlaceOf(f, t) = 0

\* (mutant) off by one: no thread does
SendsEosPast(f, t) == PlaceOf(f, t) = ThreadsPerStream(f)

SendsEos(f, t) == PlaceOf(f, t) = ThreadsPerStream(f) - 1

Eos == MaxChunks      \* in place of the number of a chunk

-----------------------------------------------------------------------------
VARIABLES
    file,       \* the parameter file
    job,        \* noise or chunk files, and how many chunks that makes
    pc, next,   \* where main() is, and its loop index
    sender,     \* thread -> its state
    failed,     \* the threads that could not read their chunk files
    sent,       \* thread -> chunks given to its ostream
    out,        \* thread -> chunks its ostream has put on the wire
    ended,      \* the ostreams end_stream() was called for
    net,        \* thread -> the network thread of its ostream
    wire        \* stream -> what was sent to it

vars == <<file, job, pc, next, sender, failed, sent, out, ended, net, wire>>

Init ==
    /\ file \in Files
    /\ job \in [mode: {"noise", "files"}, nchunks: 1 .. MaxChunks]
    /\ job.nchunks * file.nthreads <= MaxSends
    /\ pc = "load" /\ next = 0
    /\ sender = [t \in Threads(file) |-> "none"]
    /\ failed = {}
    /\ sent = [t \in Threads(file) |-> 0]
    /\ out = [t \in Threads(file) |-> 0]
    /\ ended = {}
    /\ net = [t \in Threads(file) |-> "none"]
    /\ wire = [s \in Streams(file) |-> <<>>]

-----------------------------------------------------------------------------
(* main() *)

LoopTo(there) ==
    IF next + 1 < file.nthreads THEN next' = next + 1 /\ pc' = pc
                                ELSE next' = 0 /\ pc' = there

\* The constructor throws, or makes the ostreams.
Load ==
    /\ pc = "load"
    /\ IF Accepts(file)
       THEN pc' = "start" /\ net' = [t \in Threads(file) |-> "up"]
       ELSE pc' = "refused" /\ UNCHANGED net
    /\ UNCHANGED <<file, job, next, sender, failed, sent, out, ended, wire>>

Start ==
    /\ pc = "start"
    /\ sender' = [sender EXCEPT ![next] = "running"]
    /\ LoopTo("join")
    /\ UNCHANGED <<file, job, failed, sent, out, ended, net, wire>>

Join ==
    /\ pc = "join"
    /\ sender[next] = "done"
    /\ LoopTo("end")
    /\ UNCHANGED <<file, job, sender, failed, sent, out, ended, net, wire>>

\* end_streams(): end_stream(true) of an ostream, and the join in it
EndStream ==
    /\ pc = "end"
    /\ next \notin ended
    /\ ended' = ended \cup {next}
    /\ UNCHANGED <<file, job, pc, next, sender, failed, sent, out, net, wire>>

\* (mutant) end_stream(false)
JoinNetworkNot ==
    /\ pc = "end"
    /\ next \in ended
    /\ LoopTo("returned")
    /\ UNCHANGED <<file, job, sender, failed, sent, out, ended, net, wire>>

JoinNetwork ==
    /\ pc = "end"
    /\ next \in ended
    /\ net[next] = "done"
    /\ LoopTo("returned")
    /\ UNCHANGED <<file, job, sender, failed, sent, out, ended, net, wire>>

-----------------------------------------------------------------------------
(* The sender threads: send_noise(), or send_chunk_files() which gives up  *)
(* at the first file it cannot read, before it has sent anything.          *)

ReadFails(t) ==
    /\ sender[t] = "running"
    /\ job.mode = "files" /\ sent[t] = 0
    /\ sender' = [sender EXCEPT ![t] = "done"]
    /\ failed' = failed \cup {t}
    /\ UNCHANGED <<file, job, pc, next, sent, out, ended, net, wire>>

SendChunk(t) ==
    /\ sender[t] = "running"
    /\ sent[t] < job.nchunks
    /\ sent[t] - out[t] < RingSize
    /\ sent' = [sent EXCEPT ![t] = @ + 1]
    /\ UNCHANGED <<file, job, pc, next, sender, failed, out, ended, net, wire>>

SenderReturns(t) ==
    /\ sender[t] = "running"
    /\ sent[t] = job.nchunks
    /\ sender' = [sender EXCEPT ![t] = "done"]
    /\ UNCHANGED <<file, job, pc, next, failed, sent, out, ended, net, wire>>

(* The network thread of an ostream. *)

Put(t, what) ==
    wire' = [wire EXCEPT ![StreamOf(file, t)] = Append(@, [from |-> t, chunk |-> what])]

Transmit(t) ==
    /\ net[t] = "up"
    /\ out[t] < sent[t]
    /\ Put(t, out[t])
    /\ out' = [out EXCEPT ![t] = @ + 1]
    /\ UNCHANGED <<file, job, pc, next, sender, failed, sent, ended, net>>

NetworkEnds(t) ==
    /\ net[t] = "up"
    /\ t \in ended
    /\ out[t] = sent[t]
    /\ net' = [net EXCEPT ![t] = "done"]
    /\ IF SendsEos(file, t) THEN Put(t, Eos) ELSE UNCHANGED wire
    /\ UNCHANGED <<file, job, pc, next, sender, failed, sent, out, ended>>

Main == Load \/ Start \/ Join \/ EndStream \/ JoinNetwork

Sender(t) == ReadFails(t) \/ SendChunk(t) \/ SenderReturns(t)

Network(t) == Transmit(t) \/ NetworkEnds(t)

Next == Main \/ \E t \in Threads(file) : Sender(t) \/ Network(t)

Spec == Init /\ [][Next]_vars

-----------------------------------------------------------------------------
TypeOK ==
    /\ file \in Files
    /\ job \in [mode: {"noise", "files"}, nchunks: 1 .. MaxChunks]
    /\ pc \in {"load", "refused", "start", "join", "end", "returned"}
    /\ next \in Threads(file)
    /\ sender \in [Threads(file) -> {"none", "running", "done"}]
    /\ failed \in SUBSET Threads(file)
    /\ sent \in [Threads(file) -> 0 .. MaxChunks]
    /\ out \in [Threads(file) -> 0 .. MaxChunks]
    /\ ended \in SUBSET Threads(file)
    /\ net \in [Threads(file) -> {"none", "up", "done"}]
    /\ wire \in [Streams(file) -> Seq([from: Threads(file), chunk: 0 .. Eos])]

\* The threads of a stream share all frequencies evenly, and the packets of a
\* thread tile its block and fit into the largest packet, whether their size was
\* given or computed: once the checks of the constructor have passed, none of
\* its assertions can fail (simulate-l0.cpp:82, simulate-l0.cpp:116).
PacketsFit ==
    pc \notin {"load", "refused"} =>
        /\ FreqsPerThread(file) * ThreadsPerStream(file) = NFreq
        /\ FreqsPerPacket(file) > 0
        /\ FreqsPerThread(file) % FreqsPerPacket(file) = 0
        /\ PacketSize(BeamsPerStream(file), FreqsPerPacket(file)) <= MaxPacketSize

\* Nothing is sent to a destination after its end-of-stream packet, although
\* several threads feed it: the receiver stops at the first of them.
EosIsLast ==
    \A s \in Streams(file) : \A k \in 1 .. Len(wire[s]) :
        wire[s][k].chunk = Eos => k = Len(wire[s])
=============================================================================
