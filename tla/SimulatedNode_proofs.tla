------------------------ MODULE SimulatedNode_proofs ------------------------
(***************************************************************************)
(* Proofs about SimulatedNode: for every set of parameter files, every     *)
(* number of chunks and every configuration of the node, nothing follows   *)
(* the end of a stream on the wire, the constructor's assertions hold, a   *)
(* stream that is over has all its data, and every step leads to the end   *)
(* of all streams.                                                         *)
(***************************************************************************)
EXTENDS SimulatedNode, FiniteSetTheorems, TLAPS

allVars == <<vars, nodeVars>>

Loaded == pc \notin {"load", "refused"}

\* The constructor has accepted the file of a simulator that runs.
RunsAccepted == Loaded => Accepts(file)

\* end_streams() goes through the ostreams in order, and joins each.
EndsInOrder ==
    /\ \A t \in ended : pc = "returned" \/ (pc = "end" /\ t <= next)
    /\ \A t \in Threads(file) :
         /\ net[t] = "done" => t \in ended
         /\ pc = "end" /\ t < next => net[t] = "done"
         /\ pc = "returned" => net[t] = "done"
         /\ net[t] # "none" => Loaded

\* Behind an end-of-stream packet no network thread of its stream is left.
EosMeansDone ==
    \A s \in Streams(file) : \A k \in 1 .. Len(wire[s]) :
        wire[s][k].chunk = Eos =>
            \A t \in Threads(file) : StreamOf(file, t) = s => net[t] = "done"

IInv == TypeOK /\ RunsAccepted /\ EndsInOrder /\ EosMeansDone /\ EosIsLast

-----------------------------------------------------------------------------
(* What the constructor has checked. *)

LEMMA PairUpNat == ASSUME NEW a \in Nat, NEW p \in Nat PROVE PairUp(a, p) \in Nat
BY DEF PairUp

LEMMA BoundFacts == MaxChunks \in Nat \ {0}
BY SimulateL0Assumption

LEMMA FileFacts ==
    ASSUME NEW f \in Files
    PROVE  /\ f \in FileType
           /\ f.nthreads \in Nat \ {0}
           /\ f.nbeams \in Nat \ {0}
           /\ NStreams(f) \in Nat
<1>1. f \in FileType
  BY SimulateL0Assumption
<1>2. f.nthreads \in 1 .. 32 /\ f.nbeams \in Nat \ {0} /\ f.naddr \in Nat /\ f.nport \in Nat
  BY <1>1 DEF FileType
<1>3. NStreams(f) \in Nat
  BY <1>2, PairUpNat DEF NStreams
<1>4. f.nthreads \in Nat \ {0}
  BY <1>2
<1>. QED BY <1>1, <1>2, <1>3, <1>4

\* The last thread of a stream has the largest number.
LEMMA LastOfStream ==
    ASSUME NEW d \in Nat \ {0}, NEW t \in Nat, NEW u \in Nat,
           t % d = d - 1, u \div d = t \div d
    PROVE  u <= t
<1> DEFINE x == d * (t \div d)
<1>1. t % d = t - x /\ t \div d \in Nat /\ x <= t /\ x \in Nat
  BY SMT
<1>2. u < d * (u \div d) + d
  BY SMT
<1>3. u < x + d
  BY <1>2
<1> HIDE DEF x
<1>. QED BY <1>1, <1>3

\* A stream of an accepted file has threads.
LEMMA ThreadsPerStreamPositive ==
    ASSUME NEW f \in Files, Accepts(f)
    PROVE  ThreadsPerStream(f) \in Nat \ {0}
BY DEF Accepts, PowersOfTwo

-----------------------------------------------------------------------------
LEMMA InitIInv == NodeInit => IInv
<1> SUFFICES ASSUME Init PROVE IInv
  BY DEF NodeInit
<1>1. file \in Files /\ Threads(file) = 0 .. file.nthreads - 1 /\ file.nthreads \in Nat \ {0}
  BY FileFacts DEF Init, Threads
<1>2. TypeOK
  BY <1>1, SimulateL0Assumption DEF Init, TypeOK
<1>3. RunsAccepted /\ EndsInOrder
  BY <1>1 DEF Init, RunsAccepted, EndsInOrder, Loaded
<1>4. EosMeansDone /\ EosIsLast
  BY <1>1 DEF Init, EosMeansDone, EosIsLast
<1>. QED BY <1>2, <1>3, <1>4 DEF IInv

-----------------------------------------------------------------------------
(* One step.  The node reads the wire, and leaves the simulator alone.     *)

LEMMA TypeStep == TypeOK /\ Next => TypeOK'
<1> SUFFICES ASSUME TypeOK, Next PROVE TypeOK'
  OBVIOUS
<1>1. file \in Files /\ file.nthreads \in Nat \ {0} /\ Threads(file) = 0 .. file.nthreads - 1
  BY FileFacts DEF TypeOK, Threads
<1>2. MaxChunks \in Nat \ {0} /\ job.nchunks \in 1 .. MaxChunks
  BY BoundFacts DEF TypeOK
<1>3. ASSUME NEW there, LoopTo(there), there \in {"join", "end", "returned"}
      PROVE  next' \in Threads(file) /\ pc' \in {pc, there}
  BY <1>1, <1>3 DEF LoopTo, TypeOK
<1>4. ASSUME NEW t \in Threads(file), NEW w \in 0 .. Eos, Put(t, w)
      PROVE  wire' \in [Streams(file) -> Seq([from: Threads(file), chunk: 0 .. Eos])]
  <2> DEFINE m == [from |-> t, chunk |-> w]
  <2>1. m \in [from: Threads(file), chunk: 0 .. Eos]
    OBVIOUS
  <2>2. \A q \in Seq([from: Threads(file), chunk: 0 .. Eos]) :
          Append(q, m) \in Seq([from: Threads(file), chunk: 0 .. Eos])
    BY <2>1
  <2> HIDE DEF m
  <2>. QED BY <1>4, <2>2 DEF Put, TypeOK, m
<1>5. CASE Load
  BY <1>5 DEF Load, TypeOK
<1>6. CASE Start
  <2>1. next' \in Threads(file) /\ pc' \in {pc, "join"}
    BY <1>3, <1>6 DEF Start
  <2>. QED BY <1>6, <2>1 DEF Start, TypeOK
<1>7. CASE Join
  <2>1. next' \in Threads(file) /\ pc' \in {pc, "end"}
    BY <1>3, <1>7 DEF Join
  <2>. QED BY <1>7, <2>1 DEF Join, TypeOK
<1>8. CASE EndStream
  BY <1>8 DEF EndStream, TypeOK
<1>9. CASE JoinNetwork
  <2>1. next' \in Threads(file) /\ pc' \in {pc, "returned"}
    BY <1>3, <1>9 DEF JoinNetwork
  <2>. QED BY <1>9, <2>1 DEF JoinNetwork, TypeOK
<1>10. ASSUME NEW t \in Threads(file), ReadFails(t) PROVE TypeOK'
  BY <1>10 DEF ReadFails, TypeOK
<1>11. ASSUME NEW t \in Threads(file), SendChunk(t) PROVE TypeOK'
  <2>1. sent[t] + 1 \in 0 .. MaxChunks
    BY <1>2, <1>11 DEF SendChunk, TypeOK
  <2>. QED BY <1>11, <2>1 DEF SendChunk, TypeOK
<1>12. ASSUME NEW t \in Threads(file), SenderReturns(t) PROVE TypeOK'
  BY <1>12 DEF SenderReturns, TypeOK
<1>13. ASSUME NEW t \in Threads(file), Transmit(t) PROVE TypeOK'
  <2>1. out[t] \in 0 .. Eos /\ out[t] + 1 \in 0 .. MaxChunks
    <3>1. /\ out[t] \in 0 .. MaxChunks /\ sent[t] \in 0 .. MaxChunks /\ out[t] < sent[t]
      BY <1>13 DEF Transmit, TypeOK
    <3>. QED BY <1>2, <3>1 DEF Eos
  <2>2. wire' \in [Streams(file) -> Seq([from: Threads(file), chunk: 0 .. Eos])]
    BY <1>4, <1>13, <2>1 DEF Transmit
  <2>. QED BY <1>13, <2>1, <2>2 DEF Transmit, TypeOK
<1>14. ASSUME NEW t \in Threads(file), NetworkEnds(t) PROVE TypeOK'
  <2>1. wire' \in [Streams(file) -> Seq([from: Threads(file), chunk: 0 .. Eos])]
    <3>1. Eos \in 0 .. Eos
      BY <1>2 DEF Eos
    <3>2. CASE SendsEos(file, t)
      BY <1>4, <1>14, <3>1, <3>2 DEF NetworkEnds
    <3>3. CASE ~SendsEos(file, t)
      BY <1>14, <3>3 DEF NetworkEnds, TypeOK
    <3>. QED BY <3>2, <3>3
  <2>. QED BY <1>14, <2>1 DEF NetworkEnds, TypeOK
<1>. QED
  BY <1>5, <1>6, <1>7, <1>8, <1>9, <1>10, <1>11, <1>12, <1>13, <1>14
     DEF Next, Main, Sender, Network

LEMMA RunsAcceptedStep == TypeOK /\ RunsAccepted /\ Next => RunsAccepted'
BY DEF TypeOK, RunsAccepted, Loaded, Next, Main, Load, Start, Join, EndStream,
       JoinNetwork, LoopTo, Sender, Network, ReadFails, SendChunk, SenderReturns,
       Transmit, NetworkEnds

LEMMA EndsInOrderStep == TypeOK /\ EndsInOrder /\ Next => EndsInOrder'
<1> SUFFICES ASSUME TypeOK, EndsInOrder, Next PROVE EndsInOrder'
  OBVIOUS
<1>1. file \in Files /\ file.nthreads \in Nat \ {0} /\ Threads(file) = 0 .. file.nthreads - 1
  BY FileFacts DEF TypeOK, Threads
<1>2. next \in Threads(file) /\ ended \in SUBSET Threads(file)
      /\ net \in [Threads(file) -> {"none", "up", "done"}]
  BY DEF TypeOK
<1>3. CASE Load
  BY <1>1, <1>2, <1>3 DEF Load, EndsInOrder, Loaded
<1>4. CASE Start
  BY <1>1, <1>2, <1>4 DEF Start, LoopTo, EndsInOrder, Loaded
<1>5. CASE Join
  BY <1>1, <1>2, <1>5 DEF Join, LoopTo, EndsInOrder, Loaded
<1>6. CASE EndStream
  BY <1>1, <1>2, <1>6 DEF EndStream, EndsInOrder, Loaded
<1>7. CASE JoinNetwork
  BY <1>1, <1>2, <1>7 DEF JoinNetwork, LoopTo, EndsInOrder, Loaded
<1>8. CASE \E t \in Threads(file) : Sender(t) \/ Transmit(t)
  BY <1>8 DEF Sender, ReadFails, SendChunk, SenderReturns, Transmit, EndsInOrder, Loaded
<1>9. ASSUME NEW t \in Threads(file), NetworkEnds(t) PROVE EndsInOrder'
  BY <1>1, <1>2, <1>9 DEF NetworkEnds, EndsInOrder, Loaded
<1>. QED BY <1>3, <1>4, <1>5, <1>6, <1>7, <1>8, <1>9 DEF Next, Main, Network

LEMMA AppendFacts ==
    ASSUME NEW S, NEW q \in Seq(S), NEW m \in S, NEW k \in 1 .. Len(Append(q, m))
    PROVE  /\ Len(Append(q, m)) = Len(q) + 1
           /\ \/ k = Len(q) + 1 /\ Append(q, m)[k] = m
              \/ k \in 1 .. Len(q) /\ Append(q, m)[k] = q[k]
OBVIOUS

\* A packet is put on the wire of a stream that has not ended.
LEMMA PutKeeps ==
    ASSUME IInv, NEW t \in Threads(file), net[t] = "up", NEW w \in 0 .. Eos,
           Put(t, w), UNCHANGED file,
           \A u \in Threads(file) \ {t} : net'[u] = net[u],
           w = Eos => \A u \in Threads(file) :
                        StreamOf(file, u) = StreamOf(file, t) => net'[u] = "done"
    PROVE  EosMeansDone' /\ EosIsLast'
<1> DEFINE x == StreamOf(file, t)
           m == [from |-> t, chunk |-> w]
<1>1. TypeOK /\ EosMeansDone /\ EosIsLast
  BY DEF IInv
<1>2. ASSUME NEW s \in Streams(file), s # x
      PROVE  wire'[s] = wire[s]
  BY <1>1, <1>2 DEF Put, TypeOK
<1>3. ASSUME x \in Streams(file)
      PROVE  /\ wire'[x] = Append(wire[x], m)
             /\ wire[x] \in Seq([from: Threads(file), chunk: 0 .. Eos])
             /\ \A k \in 1 .. Len(wire[x]) : wire[x][k].chunk # Eos
  BY <1>1, <1>3 DEF Put, TypeOK, EosMeansDone
<1>4. EosIsLast'
  <2> SUFFICES ASSUME NEW s \in Streams(file), NEW k \in 1 .. Len(wire'[s]),
                      wire'[s][k].chunk = Eos
               PROVE  k = Len(wire'[s])
    BY DEF EosIsLast
  <2>1. CASE s # x
    BY <1>1, <1>2, <2>1 DEF EosIsLast
  <2>2. CASE s = x
    <3>1. m \in [from: Threads(file), chunk: 0 .. Eos]
      OBVIOUS
    <3>2. /\ Len(wire'[x]) = Len(wire[x]) + 1
          /\ k = Len(wire[x]) + 1 \/ (k \in 1 .. Len(wire[x]) /\ wire'[x][k] = wire[x][k])
      BY <1>3, <2>2, <3>1, AppendFacts
    <3>. QED BY <1>3, <2>2, <3>2
  <2>. QED BY <2>1, <2>2
<1>5. EosMeansDone'
  <2> SUFFICES ASSUME NEW s \in Streams(file), NEW k \in 1 .. Len(wire'[s]),
                      wire'[s][k].chunk = Eos,
                      NEW u \in Threads(file), StreamOf(file, u) = s
               PROVE  net'[u] = "done"
    BY DEF EosMeansDone
  <2>1. CASE s # x
    <3>1. net[u] = "done" /\ u # t
      BY <1>1, <1>2, <2>1 DEF EosMeansDone
    <3>. QED BY <3>1
  <2>2. CASE s = x
    <3>1. m \in [from: Threads(file), chunk: 0 .. Eos]
      OBVIOUS
    <3>2. \/ Append(wire[x], m)[k] = m
          \/ k \in 1 .. Len(wire[x]) /\ Append(wire[x], m)[k] = wire[x][k]
      BY <1>3, <2>2, <3>1, AppendFacts
    <3>3. m.chunk = Eos
      <4> HIDE DEF m
      <4>. QED BY <1>3, <2>2, <3>2
    <3>4. w = Eos
      BY <3>3
    <3>. QED BY <2>2, <3>4
  <2>. QED BY <2>1, <2>2
<1>. QED BY <1>4, <1>5

LEMMA EosStep == IInv /\ Next => EosMeansDone' /\ EosIsLast'
<1> SUFFICES ASSUME IInv, Next PROVE EosMeansDone' /\ EosIsLast'
  OBVIOUS
<1>1. /\ TypeOK /\ RunsAccepted /\ EndsInOrder /\ EosMeansDone /\ EosIsLast
      /\ file \in Files /\ file.nthreads \in Nat \ {0}
      /\ Threads(file) = 0 .. file.nthreads - 1
      /\ MaxChunks \in Nat \ {0}
  BY FileFacts, BoundFacts DEF IInv, TypeOK, Threads
<1>2. CASE Load
  BY <1>1, <1>2 DEF Load, EosMeansDone, EosIsLast, EndsInOrder, Loaded, TypeOK
<1>3. CASE Start \/ Join \/ EndStream \/ JoinNetwork
  BY <1>1, <1>3 DEF Start, Join, EndStream, JoinNetwork, EosMeansDone, EosIsLast
<1>4. CASE \E t \in Threads(file) : Sender(t)
  BY <1>1, <1>4 DEF Sender, ReadFails, SendChunk, SenderReturns, EosMeansDone, EosIsLast
<1>5. ASSUME NEW t \in Threads(file), Transmit(t) PROVE EosMeansDone' /\ EosIsLast'
  <2>1. out[t] \in 0 .. Eos /\ out[t] # Eos
    BY <1>1, <1>5 DEF Transmit, TypeOK, Eos
  <2>. QED BY <1>5, <2>1, PutKeeps DEF Transmit
<1>6. ASSUME NEW t \in Threads(file), NetworkEnds(t) PROVE EosMeansDone' /\ EosIsLast'
  <2>1. /\ UNCHANGED file /\ net[t] = "up" /\ t \in ended
        /\ net' = [net EXCEPT ![t] = "done"]
        /\ net \in [Threads(file) -> {"none", "up", "done"}]
    BY <1>1, <1>6 DEF NetworkEnds, TypeOK
  <2>2. \A u \in Threads(file) : u # t => net'[u] = net[u]
    BY <2>1
  <2>3. CASE ~SendsEos(file, t)
    BY <1>1, <1>6, <2>1, <2>2, <2>3 DEF NetworkEnds, EosMeansDone, EosIsLast
  <2>4. CASE SendsEos(file, t)
    <3>1. Put(t, Eos) /\ Eos \in 0 .. Eos
      BY <1>1, <1>6, <2>4 DEF NetworkEnds, Eos
    <3>2. pc = "returned" \/ (pc = "end" /\ t <= next)
      BY <1>1, <2>1 DEF EndsInOrder
    <3>3. ThreadsPerStream(file) \in Nat \ {0}
      BY <1>1, <3>2, ThreadsPerStreamPositive DEF RunsAccepted, Loaded
    <3>4. ASSUME NEW u \in Threads(file), StreamOf(file, u) = StreamOf(file, t)
          PROVE  net'[u] = "done"
      <4>1. u <= t
        BY <1>1, <2>4, <3>3, <3>4, LastOfStream DEF SendsEos, PlaceOf, StreamOf
      <4>2. CASE u = t
        BY <2>1, <4>2
      <4>3. CASE u # t
        <5>1. u < t /\ next \in Threads(file)
          BY <1>1, <4>1, <4>3 DEF TypeOK
        <5>2. net[u] = "done"
          BY <1>1, <3>2, <5>1 DEF EndsInOrder
        <5>. QED BY <2>2, <4>3, <5>2
      <4>. QED BY <4>2, <4>3
    <3>. QED BY <2>1, <2>2, <3>1, <3>4, PutKeeps
  <2>. QED BY <2>3, <2>4
<1>. QED BY <1>2, <1>3, <1>4, <1>5, <1>6 DEF Next, Main, Network

-----------------------------------------------------------------------------
LEMMA StepIInv == IInv /\ [NodeNext]_allVars => IInv'
<1> SUFFICES ASSUME IInv, [NodeNext]_allVars PROVE IInv'
  OBVIOUS
<1>1. CASE Next
  BY <1>1, TypeStep, RunsAcceptedStep, EndsInOrderStep, EosStep DEF IInv
<1>2. CASE UNCHANGED vars
  BY <1>2 DEF vars, IInv, TypeOK, RunsAccepted, Loaded, EndsInOrder, EosMeansDone, EosIsLast
<1>. QED BY <1>1, <1>2 DEF NodeNext, NodeStart, Receive, Simulate, Idle, allVars

\* The induction: the invariant holds of every simulation.
THEOREM Safety == NodeSpec => []IInv
<1>1. NodeInit => IInv
  BY InitIInv
<1>2. IInv /\ [NodeNext]_allVars => IInv'
  BY StepIInv
<1>. QED BY <1>1, <1>2, PTL DEF NodeSpec, allVars

\* The types of the simulator's state.
THEOREM TypeCorrect == NodeSpec => []TypeOK
<1>1. IInv => TypeOK
  BY DEF IInv
<1>. QED BY <1>1, Safety, PTL

\* Nothing is sent to a stream after it was told of its end, however many
\* threads feed it and in whatever order they and their network threads run
\* (simulate-l0.cpp:150, simulate-l0.cpp:183).
THEOREM NothingAfterEos == NodeSpec => []EosIsLast
<1>1. IInv => EosIsLast
  BY DEF IInv
<1>. QED BY <1>1, Safety, PTL

-----------------------------------------------------------------------------
(* The sizes of packets.                                                   *)

LEMMA PowerDivides ==
    ASSUME NEW a \in PowersOfTwo, NEW b \in PowersOfTwo, b <= a
    PROVE  a \div b \in PowersOfTwo /\ (a \div b) * b = a /\ a % b = 0
BY SMTT(60) DEF PowersOfTwo

TooLarge == 16384

LEMMA RoundDownFacts ==
    ASSUME NEW x \in Nat \ {0}, x < TooLarge
    PROVE  RoundDownToPowerOfTwo(x) \in PowersOfTwo /\ RoundDownToPowerOfTwo(x) <= x
<1>1. \E p \in PowersOfTwo : p <= x /\ x < 2 * p
  BY SMTT(30) DEF PowersOfTwo, TooLarge
<1>. QED BY <1>1 DEF RoundDownToPowerOfTwo

LEMMA QuotientFacts ==
    ASSUME NEW m \in Nat, NEW c \in Nat \ {0}, c <= m, NEW b \in Nat, m < b
    PROVE  m \div c \in Nat \ {0} /\ m \div c < b
<1> DEFINE r == m \div c
           a == r * c
<1>1. r \in Nat /\ a <= m /\ m < a + c
  BY SMT
<1>2. a \in Nat /\ (r = 0 => a = 0) /\ r <= a
  BY <1>1
<1> HIDE DEF r, a
<1>3. r # 0 /\ r <= m
  BY <1>1, <1>2
<1>4. r \in Nat \ {0} /\ r < b
  BY <1>1, <1>3
<1>. QED BY <1>4, Zenon DEF r

\* A packet of n frequencies has a size z of at most n times that of one, c.
LEMMA SizeArithmetic ==
    ASSUME NEW m \in Nat, NEW c \in Nat \ {0}, NEW n \in Nat, NEW z \in Nat,
           n <= m \div c, z <= n * c
    PROVE  z <= m
<1> DEFINE r == m \div c
           a == r * c
           e == n * c
<1>1. r \in Nat /\ a <= m
  BY SMT
<1>2. n <= r => e <= a
  BY <1>1
<1>3. a \in Nat /\ e \in Nat /\ z <= e /\ n <= r
  BY <1>1
<1> HIDE DEF r, a, e
<1>. QED BY <1>1, <1>2, <1>3

LEMMA PacketFacts ==
    ASSUME NEW f \in Files, Accepts(f)
    PROVE  /\ FreqsPerThread(f) * ThreadsPerStream(f) = NFreq
           /\ FreqsPerPacket(f) > 0
           /\ FreqsPerThread(f) % FreqsPerPacket(f) = 0
           /\ PacketSize(BeamsPerStream(f), FreqsPerPacket(f)) <= MaxPacketSize
<1> DEFINE d == ThreadsPerStream(f)
           q == FreqsPerThread(f)
           c == PacketSize(BeamsPerStream(f), 1)
           n == FreqsPerPacket(f)
           z == PacketSize(BeamsPerStream(f), n)
<1>1. /\ f.nthreads \in Nat \ {0} /\ NStreams(f) \in Nat \ {0}
      /\ d \in PowersOfTwo
  BY FileFacts DEF Accepts
<1>2. f.nthreads <= NFreq /\ NFreq \in PowersOfTwo
  BY SimulateL0Assumption
<1>3. d <= f.nthreads
  BY <1>1 DEF ThreadsPerStream
<1>4. NFreq \in Nat /\ d \in Nat \ {0} /\ d <= NFreq
  BY <1>1, <1>2, <1>3 DEF PowersOfTwo
<1>5. q \in PowersOfTwo /\ q * d = NFreq
  BY <1>1, <1>2, <1>4, PowerDivides DEF FreqsPerThread
<1>6. CASE f.perPacket # -1
  BY <1>5, <1>6 DEF Accepts, FreqsPerPacket
<1>7. CASE f.perPacket = -1
  <2> DEFINE most == RoundDownToPowerOfTwo(MaxPacketSize \div c)
  <2>1. \A i \in 1 .. NFreq :
          /\ PacketSize(BeamsPerStream(f), i) \in Nat \ {0}
          /\ PacketSize(BeamsPerStream(f), i) <= i * c
    BY <1>1, SimulateL0Assumption
  <2>2. MaxPacketSize \in Nat /\ MaxPacketSize < TooLarge /\ TooLarge \in Nat
    BY SimulateL0Assumption DEF TooLarge
  <2>3. c \in Nat \ {0} /\ c <= MaxPacketSize
    BY <1>4, <1>7, <2>1 DEF Accepts
  <2>4. n = IF most < q THEN most ELSE q
    BY <1>7 DEF FreqsPerPacket
  <2> HIDE DEF c
  <2>5. MaxPacketSize \div c \in Nat \ {0} /\ MaxPacketSize \div c < TooLarge
    BY <2>2, <2>3, QuotientFacts, Zenon
  <2>6. most \in PowersOfTwo /\ most <= MaxPacketSize \div c
    BY <2>5, RoundDownFacts, Zenon DEF most
  <2> HIDE DEF most, q, n, d
  <2>7. n \in PowersOfTwo /\ n <= q /\ n <= most
    BY <1>5, <2>4, <2>6 DEF PowersOfTwo
  <2>8. q % n = 0 /\ n > 0 /\ n \in Nat /\ q \in Nat /\ most \in Nat
    BY <1>5, <2>6, <2>7, PowerDivides DEF PowersOfTwo
  <2>9. q <= NFreq
    BY <1>4, <1>5, <2>8
  <2>10. z \in Nat /\ z <= n * c
    BY <1>4, <2>1, <2>7, <2>8, <2>9
  <2>11. n <= MaxPacketSize \div c
    <3> DEFINE r == MaxPacketSize \div c
    <3>1. r \in Nat \ {0} /\ most <= r
      BY <2>5, <2>6, Zenon
    <3> HIDE DEF r
    <3>2. n <= r
      BY <2>7, <2>8, <3>1
    <3>. QED BY <3>2, Zenon DEF r
  <2> HIDE DEF z
  <2>12. z <= MaxPacketSize
    BY <2>2, <2>3, <2>8, <2>10, <2>11, SizeArithmetic
  <2>. QED BY <1>5, <2>8, <2>12 DEF z, n, q, d
<1>. QED BY <1>6, <1>7

\* Whatever file the constructor accepts, its assertions hold.
THEOREM PacketsAlwaysFit == NodeSpec => []PacketsFit
<1>1. IInv => PacketsFit
  BY PacketFacts DEF IInv, TypeOK, RunsAccepted, Loaded, PacketsFit
<1>. QED BY <1>1, Safety, PTL

-----------------------------------------------------------------------------
(* The node.                                                               *)

NodeInv ==
    /\ file \in Files
    /\ node \in ConfigType
    /\ NStreams(node) = NStreams(file) /\ node.nbeams = file.nbeams

\* The node is configured for the simulator's beams and streams.
LEMMA NodeInvHolds == NodeSpec => []NodeInv
<1>1. NodeInit => NodeInv
  <2> SUFFICES ASSUME NodeInit PROVE NodeInv
    OBVIOUS
  <2>1. file \in Files
    BY DEF NodeInit, Init
  <2>2. PICK n \in Nodes :
          node = [nbeams |-> file.nbeams, naddr |-> file.naddr, nport |-> file.nport,
                  ncores |-> n.ncores, ignoreEos |-> n.ignoreEos,
                  assembled |-> n.assembled, telescoping |-> n.telescoping]
    BY DEF NodeInit
  <2>3. file \in FileType
    BY <2>1, FileFacts
  <2>4. node \in ConfigType
    BY <2>2, <2>3, NodesAssumption DEF FileType, ConfigType
  <2>5. NStreams(node) = NStreams(file) /\ node.nbeams = file.nbeams
    BY <2>2 DEF NStreams
  <2>. QED BY <2>1, <2>4, <2>5 DEF NodeInv
<1>2. NodeInv /\ [NodeNext]_allVars => NodeInv'
  <2> SUFFICES ASSUME NodeInv, [NodeNext]_allVars PROVE NodeInv'
    OBVIOUS
  <2>1. UNCHANGED <<file, node>>
    BY DEF NodeNext, NodeStart, Receive, Simulate, Idle, Next, Main, Sender, Network, Load,
           Start, Join, EndStream, JoinNetwork, ReadFails, SendChunk, SenderReturns,
           Transmit, NetworkEnds, allVars, vars, nodeVars
  <2>. QED BY <2>1 DEF NodeInv
<1>. QED BY <1>1, <1>2, PTL DEF NodeSpec, allVars

-----------------------------------------------------------------------------
(* What has been sent, what is on the wire and what has been received.     *)

\* What a sender that is done has sent; main joins the senders before it ends
\* the ostreams, and an ostream that is done has sent what it was given.
SendersInv ==
    /\ pc = "join" => \A t \in Threads(file) : t < next => sender[t] = "done"
    /\ pc \in {"end", "returned"} => \A t \in Threads(file) : sender[t] = "done"
    /\ \A t \in Threads(file) :
         /\ sent[t] <= job.nchunks
         /\ out[t] <= sent[t]
         /\ sender[t] = "done" => t \in failed \/ sent[t] = job.nchunks
         /\ net[t] = "done" => sender[t] = "done" /\ out[t] = sent[t]

\* The wire of a stream carries its own threads' chunks, each one that an
\* ostream has put there, once.
OwnPackets ==
    \A s \in Streams(file) : \A k \in 1 .. Len(wire[s]) :
        /\ StreamOf(file, wire[s][k].from) = s
        /\ wire[s][k].chunk # Eos => wire[s][k].chunk < out[wire[s][k].from]

OncePerChunk ==
    \A s \in Streams(file) : \A j, k \in 1 .. Len(wire[s]) :
        wire[s][j].chunk # Eos /\ wire[s][j] = wire[s][k] => j = k

Packet(t, c) == [from |-> t, chunk |-> c]

AllOnWire ==
    \A t \in Threads(file) : \A c \in 0 .. out[t] - 1 :
        \E k \in 1 .. Len(wire[StreamOf(file, t)]) :
            wire[StreamOf(file, t)][k] = Packet(t, c)

\* A stream that is over has received everything up to the end of stream.
ReadInv ==
    /\ read \in [Streams(file) -> Nat]
    /\ over \subseteq Streams(file)
    /\ \A s \in Streams(file) : read[s] <= Len(wire[s])
    /\ \A s \in over : read[s] # 0 /\ wire[s][read[s]].chunk = Eos

DataInv == SendersInv /\ OwnPackets /\ OncePerChunk /\ AllOnWire /\ ReadInv

LEMMA InitDataInv == NodeInit => DataInv
<1> SUFFICES ASSUME NodeInit PROVE DataInv
  OBVIOUS
<1>1. Init /\ read = [s \in Streams(file) |-> 0] /\ over = {}
  BY DEF NodeInit
<1>2. SendersInv
  BY <1>1, SimulateL0Assumption DEF Init, SendersInv
<1>3. OwnPackets /\ OncePerChunk /\ AllOnWire
  BY <1>1 DEF Init, OwnPackets, OncePerChunk, AllOnWire
<1>4. ReadInv
  BY <1>1 DEF Init, ReadInv
<1>. QED BY <1>2, <1>3, <1>4 DEF DataInv

LEMMA SendersStep == IInv /\ SendersInv /\ Next => SendersInv'
<1> SUFFICES ASSUME IInv, SendersInv, Next PROVE SendersInv'
  OBVIOUS
<1>1. /\ file.nthreads \in Nat \ {0} /\ Threads(file) = 0 .. file.nthreads - 1
      /\ next \in Threads(file)
      /\ sender \in [Threads(file) -> {"none", "running", "done"}]
      /\ net \in [Threads(file) -> {"none", "up", "done"}]
      /\ failed \in SUBSET Threads(file) /\ job.nchunks \in Nat
  BY FileFacts DEF IInv, TypeOK, Threads
<1>2. sent \in [Threads(file) -> 0 .. MaxChunks] /\ out \in [Threads(file) -> 0 .. MaxChunks]
      /\ MaxChunks \in Nat
  BY SimulateL0Assumption DEF IInv, TypeOK
<1>3. EndsInOrder
  BY DEF IInv
<1>4. CASE Load
  BY <1>1, <1>3, <1>4 DEF Load, SendersInv, EndsInOrder, Loaded
<1>5. CASE Start
  BY <1>1, <1>3, <1>5 DEF Start, LoopTo, SendersInv, EndsInOrder, Loaded
<1>6. CASE Join
  BY <1>1, <1>6 DEF Join, LoopTo, SendersInv
<1>7. CASE EndStream
  BY <1>7 DEF EndStream, SendersInv
<1>8. CASE JoinNetwork
  BY <1>8 DEF JoinNetwork, LoopTo, SendersInv
<1>9. ASSUME NEW t \in Threads(file), ReadFails(t) PROVE SendersInv'
  BY <1>1, <1>9 DEF ReadFails, SendersInv
<1>10. ASSUME NEW t \in Threads(file), SendChunk(t) PROVE SendersInv'
  <2>1. /\ UNCHANGED <<file, job, pc, next, sender, failed, out, net>>
        /\ sent' = [sent EXCEPT ![t] = @ + 1]
        /\ sender[t] = "running" /\ sent[t] < job.nchunks
    BY <1>10 DEF SendChunk
  <2>2. ASSUME NEW u \in Threads(file)
        PROVE  /\ sent'[u] = IF u = t THEN sent[u] + 1 ELSE sent[u]
               /\ sent[u] \in Int /\ out[u] \in Int
    BY <1>1, <1>2, <2>1
  <2>3. ASSUME NEW u \in Threads(file)
        PROVE  /\ sent'[u] <= job.nchunks
               /\ out'[u] <= sent'[u]
               /\ sender[u] = "done" => u \in failed \/ sent'[u] = job.nchunks
               /\ net[u] = "done" => sender[u] = "done" /\ out'[u] = sent'[u]
    <3>1. /\ sent[u] <= job.nchunks
          /\ out[u] <= sent[u]
          /\ sender[u] = "done" => u \in failed \/ sent[u] = job.nchunks
          /\ net[u] = "done" => sender[u] = "done" /\ out[u] = sent[u]
      BY DEF SendersInv
    <3>2. CASE u = t
      BY <1>1, <2>1, <2>2, <3>1, <3>2
    <3>3. CASE u # t
      BY <2>1, <2>2, <3>1, <3>3
    <3>. QED BY <3>2, <3>3
  <2>4. Threads(file)' = Threads(file)
    BY <2>1 DEF Threads
  <2>. QED BY <2>1, <2>3, <2>4 DEF SendersInv
<1>11. ASSUME NEW t \in Threads(file), SenderReturns(t) PROVE SendersInv'
  BY <1>1, <1>11 DEF SenderReturns, SendersInv
<1>12. ASSUME NEW t \in Threads(file), Transmit(t) PROVE SendersInv'
  <2>1. /\ UNCHANGED <<file, job, pc, next, sender, failed, sent, net>>
        /\ out' = [out EXCEPT ![t] = @ + 1]
        /\ net[t] = "up" /\ out[t] < sent[t]
    BY <1>12 DEF Transmit
  <2>2. ASSUME NEW u \in Threads(file)
        PROVE  /\ out'[u] = IF u = t THEN out[u] + 1 ELSE out[u]
               /\ sent[u] \in Int /\ out[u] \in Int
    BY <1>1, <1>2, <2>1
  <2>3. ASSUME NEW u \in Threads(file)
        PROVE  /\ sent'[u] <= job.nchunks
               /\ out'[u] <= sent'[u]
               /\ sender[u] = "done" => u \in failed \/ sent'[u] = job.nchunks
               /\ net[u] = "done" => sender[u] = "done" /\ out'[u] = sent'[u]
    <3>1. /\ sent[u] <= job.nchunks
          /\ out[u] <= sent[u]
          /\ sender[u] = "done" => u \in failed \/ sent[u] = job.nchunks
          /\ net[u] = "done" => sender[u] = "done" /\ out[u] = sent[u]
      BY DEF SendersInv
    <3>2. CASE u = t
      BY <1>1, <2>1, <2>2, <3>1, <3>2
    <3>3. CASE u # t
      BY <2>1, <2>2, <3>1, <3>3
    <3>. QED BY <3>2, <3>3
  <2>4. Threads(file)' = Threads(file)
    BY <2>1 DEF Threads
  <2>. QED BY <2>1, <2>3, <2>4 DEF SendersInv
<1>13. ASSUME NEW t \in Threads(file), NetworkEnds(t) PROVE SendersInv'
  <2>1. pc \in {"end", "returned"}
    BY <1>3, <1>13 DEF NetworkEnds, EndsInOrder
  <2>. QED BY <1>1, <1>13, <2>1 DEF NetworkEnds, SendersInv
<1>. QED
  BY <1>4, <1>5, <1>6, <1>7, <1>8, <1>9, <1>10, <1>11, <1>12, <1>13
     DEF Next, Main, Sender, Network

\* Where a thread that is past the constructor sends to.
LEMMA StreamOfThread ==
    ASSUME NEW f \in Files, Accepts(f), NEW t \in Threads(f)
    PROVE  StreamOf(f, t) \in Streams(f)
<1> DEFINE S == NStreams(f)
           n == f.nthreads
           d == ThreadsPerStream(f)
           q == StreamOf(f, t)
<1>1. n \in Nat \ {0} /\ S \in Nat \ {0} /\ n % S = 0 /\ d \in Nat \ {0} /\ t \in 0 .. n - 1
  BY FileFacts, ThreadsPerStreamPositive DEF Accepts, Threads
<1>2. n = d * S
  <2> HIDE DEF n, S
  <2>1. n = (n \div S) * S
    BY <1>1, SMT
  <2>. QED BY <2>1 DEF d, n, S, ThreadsPerStream
<1>3. q \in Nat /\ q * d <= t
  <2>1. q = t \div d
    BY DEF StreamOf
  <2> HIDE DEF q, d, n
  <2>. QED BY <1>1, <2>1, SMT
<1>4. q < S
  <2> HIDE DEF q, d, n, S
  <2> SUFFICES ASSUME q >= S PROVE FALSE
    BY <1>1, <1>3
  <2>1. q * d >= S * d
    BY <1>1, <1>3
  <2>. QED BY <1>1, <1>2, <1>3, <2>1
<1>. QED BY <1>1, <1>3, <1>4 DEF Streams

\* What an ostream's network thread puts on the wire comes last, and leaves
\* the other streams alone.
LEMMA PutFacts ==
    ASSUME TypeOK, NEW t \in Threads(file), NEW w \in 0 .. Eos, Put(t, w), UNCHANGED file,
           StreamOf(file, t) \in Streams(file)
    PROVE  LET x == StreamOf(file, t) IN
           /\ \A s \in Streams(file) : s # x => wire'[s] = wire[s]
           /\ Len(wire'[x]) = Len(wire[x]) + 1 /\ Len(wire[x]) \in Nat
           /\ wire'[x][Len(wire[x]) + 1] = Packet(t, w)
           /\ \A k \in 1 .. Len(wire[x]) : wire'[x][k] = wire[x][k]
<1> DEFINE x == StreamOf(file, t)
           m == Packet(t, w)
           M == [from: Threads(file), chunk: 0 .. Eos]
<1>1. wire \in [Streams(file) -> Seq(M)] /\ wire[x] \in Seq(M)
  BY DEF TypeOK
<1>2. m \in M
  BY DEF Packet
<1>3. wire' = [wire EXCEPT ![x] = Append(@, m)]
  BY DEF Put, Packet
<1>4. wire'[x] = Append(wire[x], m) /\ \A s \in Streams(file) : s # x => wire'[s] = wire[s]
  BY <1>1, <1>3
<1> HIDE DEF m, M, x
<1>5. /\ Len(Append(wire[x], m)) = Len(wire[x]) + 1 /\ Len(wire[x]) \in Nat
      /\ Append(wire[x], m)[Len(wire[x]) + 1] = m
      /\ \A k \in 1 .. Len(wire[x]) : Append(wire[x], m)[k] = wire[x][k]
  BY <1>1, <1>2
<1>. QED BY <1>4, <1>5 DEF x, m

\* A network thread that runs has a stream to send to.
LEMMA UpHasStream ==
    ASSUME IInv, NEW t \in Threads(file), net[t] = "up"
    PROVE  StreamOf(file, t) \in Streams(file)
<1>1. file \in Files /\ Accepts(file)
  BY DEF IInv, TypeOK, RunsAccepted, EndsInOrder
<1>. QED BY <1>1, StreamOfThread

\* A chunk that goes on the wire is the next of its ostream.
LEMMA TransmitData ==
    ASSUME IInv, SendersInv, OwnPackets, OncePerChunk, AllOnWire,
           NEW t \in Threads(file), Transmit(t)
    PROVE  OwnPackets' /\ OncePerChunk' /\ AllOnWire'
<1> DEFINE x == StreamOf(file, t)
           c == out[t]
           n == Len(wire[x])
<1>1. TypeOK /\ UNCHANGED <<file, sent>> /\ Put(t, c) /\ out' = [out EXCEPT ![t] = @ + 1]
  BY DEF IInv, Transmit
<1>2. /\ out \in [Threads(file) -> 0 .. MaxChunks] /\ MaxChunks \in Nat
      /\ c \in 0 .. Eos /\ c # Eos /\ c \in Nat
  <2>1. /\ out \in [Threads(file) -> 0 .. MaxChunks] /\ MaxChunks \in Nat
        /\ sent[t] \in 0 .. MaxChunks /\ c < sent[t]
    BY SimulateL0Assumption DEF IInv, TypeOK, Transmit
  <2>. QED BY <2>1 DEF Eos
<1>3. x \in Streams(file)
  BY UpHasStream DEF Transmit
<1>4. /\ \A s \in Streams(file) : s # x => wire'[s] = wire[s]
      /\ Len(wire'[x]) = n + 1 /\ n \in Nat
      /\ wire'[x][n + 1] = Packet(t, c)
      /\ \A k \in 1 .. n : wire'[x][k] = wire[x][k]
  BY <1>1, <1>2, <1>3, PutFacts
<1>5. \A u \in Threads(file) : out'[u] = IF u = t THEN c + 1 ELSE out[u]
  BY <1>1, <1>2
<1>6. /\ Packet(t, c).from = t /\ Packet(t, c).chunk = c
  BY DEF Packet
<1>7. \A s \in Streams(file) : \A k \in 1 .. Len(wire[s]) :
        wire[s][k].from \in Threads(file) /\ wire[s][k].chunk \in 0 .. Eos
  <2> DEFINE M == [from: Threads(file), chunk: 0 .. Eos]
  <2>1. ASSUME NEW s \in Streams(file), NEW k \in 1 .. Len(wire[s])
        PROVE  wire[s][k] \in M
    <3>1. wire[s] \in Seq(M)
      BY <1>1 DEF TypeOK
    <3> HIDE DEF M
    <3>. QED BY <3>1
  <2>. QED BY <2>1
<1>8. OwnPackets'
  <2> SUFFICES ASSUME NEW s \in Streams(file), NEW k \in 1 .. Len(wire'[s])
               PROVE  /\ StreamOf(file, wire'[s][k].from) = s
                      /\ wire'[s][k].chunk # Eos => wire'[s][k].chunk < out'[wire'[s][k].from]
    BY <1>1 DEF OwnPackets
  <2>1. CASE s = x /\ k = n + 1
    BY <1>2, <1>4, <1>5, <1>6, <2>1
  <2>2. CASE ~(s = x /\ k = n + 1)
    <3>1. k \in 1 .. Len(wire[s]) /\ wire'[s][k] = wire[s][k]
      BY <1>4, <2>2
    <3>2. /\ StreamOf(file, wire[s][k].from) = s
          /\ wire[s][k].chunk # Eos => wire[s][k].chunk < out[wire[s][k].from]
      BY <3>1 DEF OwnPackets
    <3>3. out'[wire[s][k].from] >= out[wire[s][k].from]
      BY <1>2, <1>5, <1>7, <3>1
    <3>4. /\ wire[s][k].chunk \in Int /\ out[wire[s][k].from] \in Int
          /\ out'[wire[s][k].from] \in Int
      BY <1>2, <1>5, <1>7, <3>1 DEF Eos
    <3>. QED BY <3>1, <3>2, <3>3, <3>4
  <2>. QED BY <2>1, <2>2
<1>9. OncePerChunk'
  <2>1. ASSUME NEW k \in 1 .. n PROVE wire[x][k] # Packet(t, c)
    BY <1>2, <1>3, <1>6, <2>1 DEF OwnPackets
  <2> SUFFICES ASSUME NEW s \in Streams(file), NEW j \in 1 .. Len(wire'[s]),
                      NEW k \in 1 .. Len(wire'[s]),
                      wire'[s][j].chunk # Eos, wire'[s][j] = wire'[s][k]
               PROVE  j = k
    BY <1>1 DEF OncePerChunk
  <2>2. CASE s # x
    BY <1>4, <2>2 DEF OncePerChunk
  <2>3. CASE s = x
    <3>1. /\ j = n + 1 \/ (j \in 1 .. n /\ wire'[x][j] = wire[x][j])
          /\ k = n + 1 \/ (k \in 1 .. n /\ wire'[x][k] = wire[x][k])
      BY <1>4, <2>3
    <3>. QED BY <1>3, <1>4, <2>1, <2>3, <3>1 DEF OncePerChunk
  <2>. QED BY <2>2, <2>3
<1>10. AllOnWire'
  <2> SUFFICES ASSUME NEW u \in Threads(file), NEW a \in 0 .. out'[u] - 1
               PROVE  \E k \in 1 .. Len(wire'[StreamOf(file, u)]) :
                        wire'[StreamOf(file, u)][k] = Packet(u, a)
    BY <1>1 DEF AllOnWire
  <2>1. CASE u = t /\ a = c
    <3>1. n + 1 \in 1 .. Len(wire'[x]) /\ wire'[x][n + 1] = Packet(t, c)
      BY <1>4
    <3>. QED BY <2>1, <3>1
  <2>2. CASE ~(u = t /\ a = c)
    <3>1. a \in 0 .. out[u] - 1
      BY <1>2, <1>5, <2>2
    <3>2. PICK k \in 1 .. Len(wire[StreamOf(file, u)]) :
                 wire[StreamOf(file, u)][k] = Packet(u, a)
      BY <3>1 DEF AllOnWire
    <3>3. StreamOf(file, u) \in Streams(file)
      <4>1. file \in Files /\ Accepts(file)
        BY DEF IInv, TypeOK, RunsAccepted, EndsInOrder, Transmit
      <4>. QED BY <4>1, StreamOfThread
    <3>4. CASE StreamOf(file, u) = x
      <4>1. k \in 1 .. n /\ k \in 1 .. n + 1
        BY <1>4, <3>4
      <4>2. wire'[x][k] = Packet(u, a) /\ k \in 1 .. Len(wire'[x])
        BY <1>4, <3>2, <3>4, <4>1
      <4>. QED BY <3>4, <4>2
    <3>5. CASE StreamOf(file, u) # x
      BY <1>4, <3>2, <3>3, <3>5
    <3>. QED BY <3>4, <3>5
  <2>. QED BY <2>1, <2>2
<1>. QED BY <1>8, <1>9, <1>10

\* An end-of-stream packet changes nothing about the chunks before it.
LEMMA EosData ==
    ASSUME IInv, OwnPackets, OncePerChunk, AllOnWire,
           NEW t \in Threads(file), NetworkEnds(t)
    PROVE  OwnPackets' /\ OncePerChunk' /\ AllOnWire'
<1> DEFINE x == StreamOf(file, t)
           n == Len(wire[x])
<1>1. TypeOK /\ UNCHANGED <<file, out>>
  BY DEF IInv, NetworkEnds
<1>2. CASE ~SendsEos(file, t)
  BY <1>1, <1>2 DEF NetworkEnds, OwnPackets, OncePerChunk, AllOnWire
<1>3. CASE SendsEos(file, t)
  <2>1. Put(t, Eos) /\ Eos \in 0 .. Eos
    BY <1>3, SimulateL0Assumption DEF NetworkEnds, Eos
  <2>2. x \in Streams(file)
    BY UpHasStream DEF NetworkEnds
  <2>3. /\ \A s \in Streams(file) : s # x => wire'[s] = wire[s]
        /\ Len(wire'[x]) = n + 1 /\ n \in Nat
        /\ wire'[x][n + 1] = Packet(t, Eos)
        /\ \A k \in 1 .. n : wire'[x][k] = wire[x][k]
    BY <1>1, <2>1, <2>2, PutFacts
  <2>4. Packet(t, Eos).from = t /\ Packet(t, Eos).chunk = Eos
    BY DEF Packet
  <2>5. OwnPackets'
    <3> SUFFICES ASSUME NEW s \in Streams(file), NEW k \in 1 .. Len(wire'[s])
                 PROVE  /\ StreamOf(file, wire'[s][k].from) = s
                        /\ wire'[s][k].chunk # Eos => wire'[s][k].chunk < out[wire'[s][k].from]
      BY <1>1 DEF OwnPackets
    <3>1. CASE s = x /\ k = n + 1
      BY <2>3, <2>4, <3>1
    <3>2. CASE ~(s = x /\ k = n + 1)
      <4>1. k \in 1 .. Len(wire[s]) /\ wire'[s][k] = wire[s][k]
        BY <2>3, <3>2
      <4>. QED BY <4>1 DEF OwnPackets
    <3>. QED BY <3>1, <3>2
  <2>6. OncePerChunk'
    <3> SUFFICES ASSUME NEW s \in Streams(file), NEW j \in 1 .. Len(wire'[s]),
                        NEW k \in 1 .. Len(wire'[s]),
                        wire'[s][j].chunk # Eos, wire'[s][j] = wire'[s][k]
                 PROVE  j = k
      BY <1>1 DEF OncePerChunk
    <3>1. ASSUME NEW i \in 1 .. Len(wire'[s]), wire'[s][i].chunk # Eos
          PROVE  i \in 1 .. Len(wire[s]) /\ wire'[s][i] = wire[s][i]
      BY <2>3, <2>4, <3>1
    <3>2. wire'[s][k].chunk # Eos
      OBVIOUS
    <3>. QED BY <3>1, <3>2 DEF OncePerChunk
  <2>7. AllOnWire'
    <3> SUFFICES ASSUME NEW u \in Threads(file), NEW a \in 0 .. out[u] - 1
                 PROVE  \E k \in 1 .. Len(wire'[StreamOf(file, u)]) :
                          wire'[StreamOf(file, u)][k] = Packet(u, a)
      BY <1>1 DEF AllOnWire
    <3>1. PICK k \in 1 .. Len(wire[StreamOf(file, u)]) :
                 wire[StreamOf(file, u)][k] = Packet(u, a)
      BY DEF AllOnWire
    <3>2. StreamOf(file, u) \in Streams(file)
      <4>1. file \in Files /\ Accepts(file)
        BY DEF IInv, TypeOK, RunsAccepted, EndsInOrder, NetworkEnds
      <4>. QED BY <4>1, StreamOfThread
    <3>3. CASE StreamOf(file, u) = x
      <4>1. k \in 1 .. n /\ k \in 1 .. n + 1
        BY <2>3, <3>3
      <4>. QED BY <2>3, <3>1, <3>3, <4>1
    <3>4. CASE StreamOf(file, u) # x
      BY <2>3, <3>1, <3>2, <3>4
    <3>. QED BY <3>3, <3>4
  <2>. QED BY <2>5, <2>6, <2>7
<1>. QED BY <1>2, <1>3

\* Packets are only added to the wire.
LEMMA WireGrows ==
    ASSUME IInv, [NodeNext]_allVars
    PROVE  /\ UNCHANGED file
           /\ \A s \in Streams(file) :
                /\ Len(wire[s]) \in Nat /\ Len(wire'[s]) \in Nat
                /\ Len(wire[s]) <= Len(wire'[s])
                /\ \A k \in 1 .. Len(wire[s]) : wire'[s][k] = wire[s][k]
<1> DEFINE Grown == \A s \in Streams(file) :
                      /\ Len(wire[s]) \in Nat /\ Len(wire'[s]) \in Nat
                      /\ Len(wire[s]) <= Len(wire'[s])
                      /\ \A k \in 1 .. Len(wire[s]) : wire'[s][k] = wire[s][k]
<1>1. TypeOK /\ wire \in [Streams(file) -> Seq([from: Threads(file), chunk: 0 .. Eos])]
  BY DEF IInv, TypeOK
<1>2. \A s \in Streams(file) : Len(wire[s]) \in Nat
  BY <1>1
<1>3. CASE UNCHANGED <<file, wire>>
  BY <1>2, <1>3
<1>4. ASSUME NEW t \in Threads(file), Transmit(t) PROVE UNCHANGED file /\ Grown
  <2>1. StreamOf(file, t) \in Streams(file) /\ Put(t, out[t]) /\ UNCHANGED file
    BY <1>4, UpHasStream DEF Transmit
  <2>2. out[t] \in 0 .. Eos
    BY <1>1 DEF TypeOK, Eos
  <2>. QED BY <1>1, <1>2, <2>1, <2>2, PutFacts
<1>5. ASSUME NEW t \in Threads(file), NetworkEnds(t) PROVE UNCHANGED file /\ Grown
  <2>1. StreamOf(file, t) \in Streams(file) /\ UNCHANGED file
    BY <1>5, UpHasStream DEF NetworkEnds
  <2>2. CASE SendsEos(file, t)
    <3>1. Put(t, Eos) /\ Eos \in 0 .. Eos
      BY <1>5, <2>2, SimulateL0Assumption DEF NetworkEnds, Eos
    <3>. QED BY <1>1, <1>2, <2>1, <3>1, PutFacts
  <2>3. CASE ~SendsEos(file, t)
    BY <1>2, <1>5, <2>1, <2>3 DEF NetworkEnds
  <2>. QED BY <2>2, <2>3
<1>6. Next => UNCHANGED <<file, wire>> \/ (\E t \in Threads(file) : Transmit(t) \/ NetworkEnds(t))
  BY DEF Next, Network, Main, Load, Start, Join, EndStream, JoinNetwork, Sender,
     ReadFails, SendChunk, SenderReturns
<1>7. Next \/ UNCHANGED <<file, wire>>
  BY DEF NodeNext, NodeStart, Receive, Simulate, Idle, allVars, vars
<1>. QED BY <1>3, <1>4, <1>5, <1>6, <1>7

\* What has been received stays.
LEMMA ReadStep == IInv /\ ReadInv /\ [NodeNext]_allVars => ReadInv'
<1> SUFFICES ASSUME IInv, ReadInv, [NodeNext]_allVars PROVE ReadInv'
  OBVIOUS
<1>1. /\ UNCHANGED file
      /\ \A s \in Streams(file) :
           /\ Len(wire[s]) \in Nat /\ Len(wire'[s]) \in Nat /\ Len(wire[s]) <= Len(wire'[s])
           /\ \A k \in 1 .. Len(wire[s]) : wire'[s][k] = wire[s][k]
  BY WireGrows
<1>2. CASE UNCHANGED <<read, over>>
  BY <1>1, <1>2 DEF ReadInv
<1>3. ASSUME NEW s \in Streams(file), Receive(s) PROVE ReadInv'
  <2>1. /\ UNCHANGED <<file, wire>> /\ s \notin over /\ read[s] < Len(wire[s])
        /\ read' = [read EXCEPT ![s] = @ + 1]
        /\ over' = over \/ (over' = over \cup {s} /\ wire[s][read[s] + 1].chunk = Eos)
    BY <1>3 DEF Receive, vars
  <2>2. read[s] \in Nat /\ Len(wire[s]) \in Nat
    BY <1>1 DEF ReadInv
  <2>. QED BY <2>1, <2>2 DEF ReadInv
<1>. QED BY <1>2, <1>3 DEF NodeNext, NodeStart, Simulate, Idle, allVars, nodeVars

LEMMA DataStep == IInv /\ DataInv /\ [NodeNext]_allVars => DataInv'
<1> SUFFICES ASSUME IInv, DataInv, [NodeNext]_allVars PROVE DataInv'
  OBVIOUS
<1>1. SendersInv /\ OwnPackets /\ OncePerChunk /\ AllOnWire
  BY DEF DataInv
<1>2. ReadInv'
  BY ReadStep DEF DataInv
<1>3. CASE Next
  <2>1. SendersInv'
    BY <1>1, <1>3, SendersStep
  <2>2. CASE \E t \in Threads(file) : Transmit(t)
    BY <1>1, <1>2, <2>1, <2>2, TransmitData DEF DataInv
  <2>3. CASE \E t \in Threads(file) : NetworkEnds(t)
    BY <1>1, <1>2, <2>1, <2>3, EosData DEF DataInv
  <2>4. CASE Main \/ \E t \in Threads(file) : Sender(t)
    <3>1. OwnPackets' /\ OncePerChunk' /\ AllOnWire'
      BY <1>1, <2>4 DEF Main, Load, Start, Join, EndStream, JoinNetwork, Sender,
         ReadFails, SendChunk, SenderReturns, OwnPackets, OncePerChunk, AllOnWire
    <3>. QED BY <1>2, <2>1, <3>1 DEF DataInv
  <2>. QED BY <1>2, <1>3, <2>1, <2>2, <2>3, <2>4 DEF DataInv, Next, Network
<1>4. CASE UNCHANGED vars
  BY <1>1, <1>2, <1>4 DEF vars, DataInv, SendersInv, OwnPackets, OncePerChunk, AllOnWire
<1>. QED BY <1>3, <1>4 DEF NodeNext, NodeStart, Receive, Simulate, Idle, allVars

LEMMA DataInvHolds == NodeSpec => []DataInv
<1>1. IInv /\ DataInv /\ [NodeNext]_allVars => DataInv'
  BY DataStep
<1>. QED BY <1>1, InitDataInv, Safety, PTL DEF NodeSpec, allVars

-----------------------------------------------------------------------------
(* The division of a stream's frequencies over its threads.                *)

\* Frequency g belongs to block number g \div q of blocks of q.
LEMMA Blocks ==
    ASSUME NEW q \in Nat \ {0}, NEW g \in Nat, NEW p \in Nat
    PROVE  g \in p * q .. (p + 1) * q - 1 <=> p = g \div q
<1> DEFINE r == g \div q
           a == p * q
           b == r * q
<1>1. r \in Nat /\ b <= g /\ g < b + q
  BY SMT
<1>2. a \in Nat /\ b \in Nat /\ (p + 1) * q = a + q
  BY <1>1
<1>3. p < r => a + q <= b
  <2> HIDE DEF r
  <2> SUFFICES ASSUME p < r PROVE a + q <= b
    OBVIOUS
  <2>1. (p + 1) * q <= r * q
    BY <1>1
  <2>. QED BY <1>2, <2>1
<1>4. r < p => b + q <= a
  <2> HIDE DEF r
  <2> SUFFICES ASSUME r < p PROVE b + q <= a
    OBVIOUS
  <2>1. (r + 1) * q <= p * q /\ (r + 1) * q = b + q
    BY <1>1
  <2>. QED BY <2>1
<1>5. p = r => a = b
  OBVIOUS
<1> HIDE DEF r, a, b
<1>6. g \in a .. a + q - 1 <=> p = r
  BY <1>1, <1>2, <1>3, <1>4, <1>5
<1>. QED BY <1>2, <1>6 DEF r, a

\* What is needed of an accepted file: d threads per stream, q frequencies each.
LEMMA Division ==
    ASSUME NEW f \in Files, Accepts(f)
    PROVE  /\ ThreadsPerStream(f) \in Nat \ {0} /\ FreqsPerThread(f) \in Nat \ {0}
           /\ FreqsPerThread(f) * ThreadsPerStream(f) = NFreq /\ NFreq \in Nat
           /\ NStreams(f) \in Nat \ {0}
           /\ f.nthreads = ThreadsPerStream(f) * NStreams(f)
<1> DEFINE S == NStreams(f)
           n == f.nthreads
           d == ThreadsPerStream(f)
           q == FreqsPerThread(f)
<1>1. n \in Nat \ {0} /\ S \in Nat \ {0} /\ n % S = 0 /\ d \in Nat \ {0}
  BY FileFacts, ThreadsPerStreamPositive DEF Accepts
<1>2. n = d * S
  <2> HIDE DEF n, S
  <2>1. n = (n \div S) * S
    BY <1>1, SMT
  <2>. QED BY <2>1 DEF d, n, S, ThreadsPerStream
<1>3. q * d = NFreq /\ NFreq \in Nat \ {0}
  BY PacketFacts, SimulateL0Assumption DEF PowersOfTwo
<1>4. q \in Nat
  BY <1>1, <1>3 DEF FreqsPerThread
<1>5. q # 0
  <2> HIDE DEF q, d
  <2>. QED BY <1>1, <1>3
<1>. QED BY <1>1, <1>2, <1>3, <1>4, <1>5

\* Every frequency has a thread in every stream,
LEMMA SomeThread ==
    ASSUME NEW f \in Files, Accepts(f), NEW s \in Streams(f), NEW g \in 0 .. NFreq - 1
    PROVE  \E t \in Threads(f) : StreamOf(f, t) = s /\ g \in FreqsOf(f, t)
<1> DEFINE S == NStreams(f)
           d == ThreadsPerStream(f)
           q == FreqsPerThread(f)
           p == g \div q
           t == s * d + p
<1>1. /\ d \in Nat \ {0} /\ q \in Nat \ {0} /\ q * d = NFreq /\ NFreq \in Nat
      /\ S \in Nat \ {0} /\ f.nthreads = d * S
  BY Division
<1>2. s \in Nat /\ s < S /\ g \in Nat /\ g < q * d
  BY <1>1 DEF Streams
<1>3. p \in Nat /\ p * q <= g
  <2> HIDE DEF q
  <2>. QED BY <1>1, <1>2, SMT
<1>4. p < d
  <2> HIDE DEF p, q, d
  <2> SUFFICES ASSUME p >= d PROVE FALSE
    BY <1>1, <1>3
  <2>1. p * q >= d * q
    BY <1>1, <1>3
  <2>. QED BY <1>1, <1>2, <1>3, <2>1
<1>5. t \in Nat /\ t < d * S /\ t \div d = s /\ t % d = p
  <2> HIDE DEF p, q, d, S
  <2>1. (s + 1) * d <= S * d
    BY <1>1, <1>2
  <2>2. s * d \in Nat /\ (s + 1) * d = s * d + d
    BY <1>1, <1>2
  <2>3. t \in Nat /\ t < d * S
    BY <1>1, <1>2, <1>3, <1>4, <2>1, <2>2
  <2>4. t \in s * d .. (s + 1) * d - 1
    BY <1>1, <1>3, <1>4, <2>2, <2>3
  <2>5. t \div d = s
    BY <1>1, <1>2, <2>3, <2>4, Blocks
  <2>6. t % d = t - d * (t \div d)
    <3> HIDE DEF t
    <3>. QED BY <1>1, <2>3, SMT
  <2>7. t % d = p
    BY <1>1, <1>2, <1>3, <2>2, <2>5, <2>6
  <2>. QED BY <2>3, <2>5, <2>7
<1>6. t \in Threads(f)
  BY <1>1, <1>5 DEF Threads
<1>7. StreamOf(f, t) = s /\ PlaceOf(f, t) = p
  BY <1>5 DEF StreamOf, PlaceOf
<1>8. g \in p * q .. (p + 1) * q - 1
  <2>1. p = g \div q
    OBVIOUS
  <2> HIDE DEF p, q
  <2>. QED BY <1>1, <1>2, <1>3, <2>1, Blocks
<1>9. g \in FreqsOf(f, t)
  BY <1>7, <1>8 DEF FreqsOf
<1>. QED BY <1>6, <1>7, <1>9

\* and not two.
LEMMA OneThread ==
    ASSUME NEW f \in Files, Accepts(f), NEW t \in Threads(f), NEW u \in Threads(f),
           StreamOf(f, t) = StreamOf(f, u),
           NEW g \in 0 .. NFreq - 1, g \in FreqsOf(f, t), g \in FreqsOf(f, u)
    PROVE  t = u
<1> DEFINE d == ThreadsPerStream(f)
           q == FreqsPerThread(f)
           x == t % d
           y == u % d
<1>1. /\ d \in Nat \ {0} /\ q \in Nat \ {0} /\ NFreq \in Nat
      /\ t \in Nat /\ u \in Nat /\ g \in Nat
  BY Division, FileFacts DEF Threads
<1>2. x \in Nat /\ y \in Nat /\ t = d * (t \div d) + x /\ u = d * (u \div d) + y
  <2> HIDE DEF d
  <2>. QED BY <1>1, SMT
<1>3. g \in x * q .. (x + 1) * q - 1 /\ g \in y * q .. (y + 1) * q - 1
  BY DEF FreqsOf, PlaceOf
<1>4. t \div d = u \div d
  BY DEF StreamOf
<1>5. x = y
  <2> HIDE DEF q, x, y
  <2>1. x = g \div q /\ y = g \div q
    BY <1>1, <1>2, <1>3, Blocks
  <2>. QED BY <2>1
<1> HIDE DEF x, y, d
<1>. QED BY <1>1, <1>2, <1>4, <1>5

LEMMA AtMostOne ==
    ASSUME NEW A, \A x, y \in A : x = y
    PROVE  Cardinality(A) <= 1
<1>1. CASE A = {}
  BY <1>1, FS_EmptySet
<1>2. CASE A # {}
  <2>1. PICK x : x \in A
    BY <1>2
  <2>2. A = {x}
    BY <2>1
  <2>. QED BY <2>2, FS_Singleton
<1>. QED BY <1>1, <1>2

\* Of a stream that has ended, nothing is missing and nothing doubled: every
\* beam it assembles has each frequency of each chunk exactly once, unless a
\* chunk file could not be read (simulate-l0.cpp:65-82, 150, 183).
THEOREM EndedStreamsAreComplete == NodeSpec => []EndedHaveAll
<1>1. IInv /\ DataInv /\ NodeInv => EndedHaveAll
  <2> SUFFICES ASSUME IInv, DataInv, NodeInv, NEW s \in over, NEW b \in StreamBeams(node, s),
                      NEW g \in 0 .. NFreq - 1, NEW c \in 0 .. job.nchunks - 1
               PROVE  /\ Cardinality(Carrying(s, b, g, c)) <= 1
                      /\ failed = {} => Carrying(s, b, g, c) # {}
    BY DEF EndedHaveAll
  <2> DEFINE n == Len(wire[s])
             M == [from: Threads(file), chunk: 0 .. Eos]
  <2>1. /\ TypeOK /\ RunsAccepted /\ EndsInOrder /\ EosMeansDone /\ EosIsLast
        /\ SendersInv /\ OwnPackets /\ OncePerChunk /\ AllOnWire /\ ReadInv
    BY DEF IInv, DataInv
  <2>2. s \in Streams(file) /\ wire[s] \in Seq(M) /\ n \in Nat /\ file \in Files
    <3>1. s \in Streams(file) /\ file \in Files
      BY <2>1 DEF ReadInv, TypeOK
    <3>2. wire[s] \in Seq(M)
      BY <2>1, <3>1 DEF TypeOK
    <3> HIDE DEF M
    <3>. QED BY <3>1, <3>2
  <2>3. \A k \in 1 .. n : wire[s][k] \in M
    <3> HIDE DEF M
    <3>. QED BY <2>2
  <2>4. read[s] = n /\ n \in 1 .. n /\ wire[s][n].chunk = Eos
    <3>1. read[s] \in 1 .. n /\ wire[s][read[s]].chunk = Eos
      BY <2>1, <2>2 DEF ReadInv
    <3>. QED BY <2>1, <2>2, <3>1 DEF EosIsLast
  <2>5. \A t \in Threads(file) : StreamOf(file, t) = s => net[t] = "done"
    BY <2>1, <2>2, <2>4 DEF EosMeansDone
  <2>6. Accepts(file)
    <3>1. wire[s][n].from \in Threads(file) /\ StreamOf(file, wire[s][n].from) = s
      BY <2>1, <2>2, <2>3, <2>4 DEF OwnPackets
    <3>2. net[wire[s][n].from] = "done"
      BY <2>5, <3>1
    <3>. QED BY <2>1, <3>1, <3>2 DEF EndsInOrder, RunsAccepted
  <2>7. c \in Nat /\ c < job.nchunks /\ c # Eos /\ job.nchunks \in Nat
    BY <2>1, SimulateL0Assumption DEF TypeOK, Eos
  <2>8. \A t \in Threads(file) : StreamOf(file, t) = s => b \in BeamsOf(file, t)
    BY DEF NodeInv, BeamsOf, StreamBeams, BeamsPerStream
  <2>9. ASSUME NEW j \in Carrying(s, b, g, c), NEW k \in Carrying(s, b, g, c)
        PROVE  j = k
    <3>1. /\ j \in 1 .. n /\ wire[s][j].chunk = c /\ g \in FreqsOf(file, wire[s][j].from)
          /\ k \in 1 .. n /\ wire[s][k].chunk = c /\ g \in FreqsOf(file, wire[s][k].from)
      BY <2>4 DEF Carrying
    <3>2. /\ wire[s][j] \in M /\ wire[s][k] \in M
          /\ StreamOf(file, wire[s][j].from) = s /\ StreamOf(file, wire[s][k].from) = s
      BY <2>1, <2>2, <2>3, <3>1 DEF OwnPackets
    <3>3. wire[s][j].from = wire[s][k].from
      BY <2>2, <2>6, <3>1, <3>2, OneThread
    <3>4. wire[s][j] = wire[s][k]
      BY <3>1, <3>2, <3>3
    <3>. QED BY <2>1, <2>2, <2>7, <3>1, <3>4 DEF OncePerChunk
  <2>10. ASSUME failed = {} PROVE Carrying(s, b, g, c) # {}
    <3>1. PICK t \in Threads(file) : StreamOf(file, t) = s /\ g \in FreqsOf(file, t)
      BY <2>2, <2>6, SomeThread
    <3>2. out[t] = job.nchunks
      BY <2>1, <2>5, <2>10, <3>1 DEF SendersInv
    <3>3. PICK k \in 1 .. n : wire[s][k] = Packet(t, c)
      BY <2>1, <2>7, <3>1, <3>2 DEF AllOnWire
    <3>4. k \in Carrying(s, b, g, c)
      BY <2>4, <2>8, <3>1, <3>3 DEF Carrying, Packet
    <3>. QED BY <3>4
  <2>11. Cardinality(Carrying(s, b, g, c)) <= 1
    BY <2>9, AtMostOne
  <2>. QED BY <2>10, <2>11
<1>. QED BY <1>1, Safety, DataInvHolds, NodeInvHolds, PTL

-----------------------------------------------------------------------------
(* Why the simulation comes to its end.  Every step but Idle passes one of *)
(* a finite number of milestones, and never loses one; short of the end    *)
(* some thread can take a step; and at the end every stream has had its    *)
(* end-of-stream packet.                                                   *)

Kinds == {"node", "load", "start", "join", "end", "returned", "ended", "net",
          "sent", "out", "read"}

Milestones == Kinds \X (Threads(file) \X (0 .. Eos))

\* Has milestone k of thread t (and chunk or packet c) been passed?
Passed(k, t, c) ==
    \/ k = "node"     /\ nodePc # "off"
    \/ k = "load"     /\ pc # "load"
    \/ k = "start"    /\ ((pc = "start" /\ t < next) \/ pc \in {"join", "end", "returned"})
    \/ k = "join"     /\ ((pc = "join" /\ t < next) \/ pc \in {"end", "returned"})
    \/ k = "end"      /\ ((pc = "end" /\ t < next) \/ pc = "returned")
    \/ k = "returned" /\ sender[t] = "done"
    \/ k = "ended"    /\ t \in ended
    \/ k = "net"      /\ net[t] = "done"
    \/ k = "sent"     /\ c < sent[t]
    \/ k = "out"      /\ c < out[t]
    \/ k = "read"     /\ \E s \in Streams(file) : \E n \in 1 .. read[s] : wire[s][n] = Packet(t, c)

Done == {m \in Milestones : Passed(m[1], m[2][1], m[2][2])}

\* Where main is in its loops tells what has become of senders and ostreams.
OrderInv ==
    /\ Loaded => \A t \in Threads(file) : net[t] # "none"
    /\ pc \in {"load", "start"} => \A t \in Threads(file) :
         pc = "load" \/ t >= next => sender[t] = "none"
    /\ pc = "refused" => \A t \in Threads(file) : sender[t] = "none"
    /\ pc = "start" => \A t \in Threads(file) : t < next => sender[t] # "none"
    /\ pc \in {"join", "end", "returned"} => \A t \in Threads(file) : sender[t] # "none"
    /\ pc = "load" => next = 0

LEMMA OrderStep == IInv /\ OrderInv /\ Next => OrderInv'
<1> SUFFICES ASSUME IInv, OrderInv, Next PROVE OrderInv'
  OBVIOUS
<1>1. /\ file.nthreads \in Nat \ {0} /\ Threads(file) = 0 .. file.nthreads - 1
      /\ next \in Threads(file)
      /\ sender \in [Threads(file) -> {"none", "running", "done"}]
      /\ net \in [Threads(file) -> {"none", "up", "done"}]
  BY FileFacts DEF IInv, TypeOK, Threads
<1>2. CASE Load
  BY <1>1, <1>2 DEF Load, OrderInv, Loaded
<1>3. CASE Start
  BY <1>1, <1>3 DEF Start, LoopTo, OrderInv, Loaded
<1>4. CASE Join \/ EndStream \/ JoinNetwork
  BY <1>1, <1>4 DEF Join, EndStream, JoinNetwork, LoopTo, OrderInv, Loaded
<1>5. ASSUME NEW t \in Threads(file), Sender(t) PROVE OrderInv'
  BY <1>1, <1>5 DEF Sender, ReadFails, SendChunk, SenderReturns, OrderInv, Loaded
<1>6. ASSUME NEW t \in Threads(file), Network(t) PROVE OrderInv'
  BY <1>1, <1>6 DEF Network, Transmit, NetworkEnds, OrderInv, Loaded
<1>. QED BY <1>2, <1>3, <1>4, <1>5, <1>6 DEF Next, Main

LEMMA OrderInvHolds == NodeSpec => []OrderInv
<1>1. NodeInit => OrderInv
  <2> SUFFICES ASSUME NodeInit PROVE OrderInv
    OBVIOUS
  <2>. QED BY DEF NodeInit, Init, OrderInv, Loaded
<1>2. IInv /\ OrderInv /\ [NodeNext]_allVars => OrderInv'
  <2> SUFFICES ASSUME IInv, OrderInv, [NodeNext]_allVars PROVE OrderInv'
    OBVIOUS
  <2>1. Next \/ UNCHANGED vars
    BY DEF NodeNext, NodeStart, Receive, Simulate, Idle, allVars
  <2>2. CASE UNCHANGED vars
    BY <2>2 DEF vars, OrderInv, Loaded
  <2>. QED BY <2>1, <2>2, OrderStep
<1>. QED BY <1>1, <1>2, Safety, PTL DEF NodeSpec, allVars

LEMMA MilestonesFinite ==
    ASSUME TypeOK
    PROVE  IsFiniteSet(Milestones)
<1>1. /\ IsFiniteSet(Kinds)
      /\ IsFiniteSet(Threads(file))
      /\ IsFiniteSet(0 .. Eos)
  <2>1. file.nthreads - 1 \in Int /\ Eos \in Int
    BY FileFacts, SimulateL0Assumption DEF TypeOK, Eos
  <2>2. IsFiniteSet(Kinds)
    <3>1. ASSUME NEW a, NEW b, NEW c, NEW d PROVE IsFiniteSet({a, b, c, d})
      <4>1. IsFiniteSet({a})
        BY FS_Singleton
      <4>2. IsFiniteSet({a} \cup {b})
        BY <4>1, FS_AddElement
      <4>3. IsFiniteSet(({a} \cup {b}) \cup {c})
        BY <4>2, FS_AddElement
      <4>4. IsFiniteSet((({a} \cup {b}) \cup {c}) \cup {d})
        BY <4>3, FS_AddElement
      <4>5. {a, b, c, d} = (({a} \cup {b}) \cup {c}) \cup {d}
        OBVIOUS
      <4>. QED BY <4>4, <4>5
    <3> DEFINE A == {"node", "load", "start", "join"}
               B == {"end", "returned", "ended", "net"}
               C == {"sent", "out", "read", "node"}
    <3>2. Kinds = (A \cup B) \cup C
      BY DEF Kinds
    <3>3. IsFiniteSet(A) /\ IsFiniteSet(B) /\ IsFiniteSet(C)
      BY <3>1, Zenon
    <3> HIDE DEF A, B, C
    <3>4. IsFiniteSet((A \cup B) \cup C)
      BY <3>3, FS_Union
    <3>. QED BY <3>2, <3>4
  <2>3. IsFiniteSet(0 .. file.nthreads - 1) /\ IsFiniteSet(0 .. Eos)
    BY <2>1, FS_Interval
  <2>. QED BY <2>2, <2>3 DEF Threads
<1>. QED BY <1>1, FS_Product DEF Milestones

\* No milestone is lost.
LEMMA PassedStays ==
    ASSUME IInv, DataInv, OrderInv, [NodeNext]_allVars,
           NEW k \in Kinds, NEW t \in Threads(file), NEW c \in 0 .. Eos,
           Passed(k, t, c)
    PROVE  Passed(k, t, c)'
<1>1. /\ file.nthreads \in Nat \ {0} /\ Threads(file) = 0 .. file.nthreads - 1
      /\ next \in Threads(file) /\ next \in Nat /\ t \in Nat
      /\ sender \in [Threads(file) -> {"none", "running", "done"}]
      /\ net \in [Threads(file) -> {"none", "up", "done"}]
      /\ sent \in [Threads(file) -> 0 .. MaxChunks] /\ out \in [Threads(file) -> 0 .. MaxChunks]
      /\ MaxChunks \in Nat
  BY FileFacts, SimulateL0Assumption DEF IInv, TypeOK, Threads
<1>2. CASE k = "read"
  <2>1. PICK s \in Streams(file) : \E n \in 1 .. read[s] : wire[s][n] = Packet(t, c)
    BY <1>2 DEF Passed
  <2>2. PICK n \in 1 .. read[s] : wire[s][n] = Packet(t, c)
    BY <2>1
  <2>3. /\ UNCHANGED file /\ wire'[s][n] = wire[s][n]
        /\ read[s] \in Nat /\ Len(wire[s]) \in Nat /\ read[s] <= Len(wire[s])
    <3>1. read[s] \in Nat /\ read[s] <= Len(wire[s])
      BY DEF DataInv, ReadInv
    <3>. QED BY <2>2, <3>1, WireGrows
  <2>4. read'[s] \in Nat /\ read'[s] >= read[s]
    BY <2>3 DEF DataInv, ReadInv, NodeNext, NodeStart, Receive, Simulate, Idle, allVars, nodeVars
  <2>5. n \in 1 .. read'[s] /\ wire'[s][n] = Packet(t, c)
    BY <2>2, <2>3, <2>4
  <2>. QED BY <1>2, <2>3, <2>5 DEF Passed, Packet
<1>3. CASE k # "read"
  <2>1. CASE UNCHANGED vars
    BY <1>3, <2>1 DEF vars, NodeNext, NodeStart, Receive, Simulate, Idle, allVars, nodeVars, Passed
  <2>2. CASE Next /\ UNCHANGED nodePc
    <3>1. CASE Load
      BY <1>1, <1>3, <2>2, <3>1 DEF Load, Passed, IInv, EndsInOrder, Loaded
    <3>2. CASE Start
      BY <1>1, <1>3, <2>2, <3>2 DEF Start, LoopTo, Passed, OrderInv
    <3>3. CASE Join \/ EndStream \/ JoinNetwork
      BY <1>1, <1>3, <2>2, <3>3 DEF Join, EndStream, JoinNetwork, LoopTo, Passed
    <3>4. ASSUME NEW u \in Threads(file), Sender(u) PROVE Passed(k, t, c)'
      <4>1. CASE ReadFails(u) \/ SenderReturns(u)
        BY <1>1, <1>3, <2>2, <4>1 DEF ReadFails, SenderReturns, Passed
      <4>2. CASE SendChunk(u)
        <5>1. sent'[t] \in Int /\ sent'[t] >= sent[t] /\ sent[t] \in Int /\ c \in Int
          <6>1. sent[t] \in 0 .. MaxChunks /\ sent[t] \in Int /\ c \in Int
            BY <1>1 DEF Eos
          <6>2. sent' = [sent EXCEPT ![u] = @ + 1]
            BY <4>2 DEF SendChunk
          <6>3. sent'[t] = sent[t] \/ sent'[t] = sent[t] + 1
            BY <1>1, <6>2
          <6>. QED BY <6>1, <6>3
        <5>2. c < sent[t] => c < sent'[t]
          BY <5>1
        <5>3. CASE k = "sent"
          BY <5>2, <5>3 DEF Passed
        <5>4. CASE k # "sent"
          BY <1>3, <2>2, <4>2, <5>4 DEF SendChunk, Passed
        <5>. QED BY <5>3, <5>4
      <4>. QED BY <3>4, <4>1, <4>2 DEF Sender
    <3>5. ASSUME NEW u \in Threads(file), Network(u) PROVE Passed(k, t, c)'
      BY <1>1, <1>3, <2>2, <3>5 DEF Network, Transmit, NetworkEnds, Passed
    <3>. QED BY <2>2, <3>1, <3>2, <3>3, <3>4, <3>5 DEF Next, Main
  <2>. QED BY <2>1, <2>2 DEF NodeNext, NodeStart, Receive, Simulate, Idle, allVars, nodeVars
<1>. QED BY <1>2, <1>3

LEMMA NewMilestone ==
    ASSUME IInv, DataInv, OrderInv, [NodeNext]_allVars,
           NEW k \in Kinds, NEW t \in Threads(file), NEW c \in 0 .. Eos,
           ~Passed(k, t, c), Passed(k, t, c)'
    PROVE  Done \subseteq Done' /\ Done # Done'
<1>1. UNCHANGED Milestones
  <2>1. UNCHANGED file
    BY WireGrows
  <2>. QED BY <2>1 DEF Milestones, Threads, Eos
<1>2. ASSUME NEW m \in Done PROVE m \in Done'
  <2>1. m \in Milestones /\ Passed(m[1], m[2][1], m[2][2])
    BY DEF Done
  <2>2. m[1] \in Kinds /\ m[2][1] \in Threads(file) /\ m[2][2] \in 0 .. Eos
    BY <2>1 DEF Milestones
  <2>3. Passed(m[1], m[2][1], m[2][2])'
    BY <2>1, <2>2, PassedStays
  <2>. QED BY <1>1, <2>1, <2>3 DEF Done
<1>3. <<k, <<t, c>>>> \in Done' /\ <<k, <<t, c>>>> \notin Done
  <2>1. <<k, <<t, c>>>> \in Milestones
    BY DEF Milestones
  <2>. QED BY <1>1, <2>1 DEF Done
<1>. QED BY <1>2, <1>3

LEMMA StepIsProgress ==
    ASSUME IInv, DataInv, OrderInv, NodeNext, ~Idle
    PROVE  Done \subseteq Done' /\ Done # Done'
<1>1. /\ file.nthreads \in Nat \ {0} /\ Threads(file) = 0 .. file.nthreads - 1
      /\ next \in Threads(file) /\ next \in Nat
      /\ sender \in [Threads(file) -> {"none", "running", "done"}]
      /\ net \in [Threads(file) -> {"none", "up", "done"}]
      /\ ended \subseteq Threads(file)
  BY FileFacts DEF IInv, TypeOK, Threads
<1>2. /\ sent \in [Threads(file) -> 0 .. MaxChunks] /\ out \in [Threads(file) -> 0 .. MaxChunks]
      /\ MaxChunks \in Nat /\ Eos = MaxChunks
  BY SimulateL0Assumption DEF IInv, TypeOK, Eos
<1>3. \A k \in {"node", "load", "start", "join", "end", "returned", "ended", "net", "sent",
                "out", "read"} : k \in Kinds
  BY DEF Kinds
<1>4. 0 \in 0 .. Eos /\ 0 \in Threads(file)
  BY <1>1, <1>2
<1>5. ASSUME NEW k \in Kinds, NEW t \in Threads(file), NEW c \in 0 .. Eos,
             ~Passed(k, t, c), Passed(k, t, c)'
      PROVE  Done \subseteq Done' /\ Done # Done'
  BY <1>5, NewMilestone
<1>6. CASE NodeStart
  <2>1. ~Passed("node", 0, 0) /\ Passed("node", 0, 0)'
    BY <1>6 DEF NodeStart, Passed
  <2>. QED BY <1>3, <1>4, <1>5, <2>1
<1>7. ASSUME NEW s \in Streams(file), Receive(s) PROVE Done \subseteq Done' /\ Done # Done'
  <2> DEFINE n == read[s] + 1
             M == [from: Threads(file), chunk: 0 .. Eos]
  <2>1. /\ TypeOK /\ EosIsLast /\ OncePerChunk /\ ReadInv
        /\ UNCHANGED <<file, wire>> /\ read[s] < Len(wire[s])
        /\ read' = [read EXCEPT ![s] = @ + 1]
    BY <1>7 DEF IInv, DataInv, Receive, vars
  <2>2. wire[s] \in Seq(M)
    BY <2>1 DEF TypeOK
  <2>3. read[s] \in Nat /\ Len(wire[s]) \in Nat /\ n \in 1 .. Len(wire[s]) /\ read'[s] = n
    BY <2>1, <2>2 DEF ReadInv
  <2>4. wire[s][n] \in M
    <3> HIDE DEF M, n
    <3>. QED BY <2>2, <2>3
  <2>5. PICK t \in Threads(file), c \in 0 .. Eos : wire[s][n] = Packet(t, c)
    BY <2>4 DEF Packet
  <2>6. Passed("read", t, c)'
    <3>1. \E k \in 1 .. read'[s] : wire'[s][k] = Packet(t, c)
      BY <2>1, <2>3, <2>5
    <3>2. (\E r \in Streams(file) : \E k \in 1 .. read[r] : wire[r][k] = Packet(t, c))'
      BY <2>1, <3>1 DEF Packet
    <3>. QED BY <3>2 DEF Passed
  <2>7. ~Passed("read", t, c)
    <3> SUFFICES ASSUME NEW r \in Streams(file), NEW k \in 1 .. read[r],
                        wire[r][k] = Packet(t, c)
                 PROVE  FALSE
      BY DEF Passed
    <3>1. k \in 1 .. Len(wire[r])
      <4>1. read[r] \in Nat /\ read[r] <= Len(wire[r])
        BY <2>1 DEF ReadInv
      <4>2. Len(wire[r]) \in Nat
        BY <2>1 DEF TypeOK
      <4>. QED BY <4>1, <4>2
    <3>2. r = StreamOf(file, t) /\ s = StreamOf(file, t)
      <4>1. Packet(t, c).from = t
        BY DEF Packet
      <4>. QED BY <2>3, <2>5, <3>1, <4>1 DEF DataInv, OwnPackets
    <3>3. wire[s][k] = wire[s][n] /\ k \in 1 .. Len(wire[s]) /\ k < n
      BY <2>3, <2>5, <3>1, <3>2
    <3>4. CASE c = Eos
      <4>1. k = Len(wire[s])
        BY <2>1, <2>5, <3>3, <3>4 DEF EosIsLast, Packet
      <4>. QED BY <2>3, <3>3, <4>1
    <3>5. CASE c # Eos
      <4>1. wire[s][k].chunk # Eos
        BY <2>5, <3>3, <3>5 DEF Packet
      <4>2. k = n
        BY <2>1, <2>3, <3>3, <4>1 DEF OncePerChunk
      <4>. QED BY <2>3, <3>3, <4>2
    <3>. QED BY <3>4, <3>5
  <2>. QED BY <1>3, <1>5, <2>6, <2>7
<1>8. CASE Load
  <2>1. ~Passed("load", 0, 0) /\ Passed("load", 0, 0)'
    BY <1>8 DEF Load, Passed
  <2>. QED BY <1>3, <1>4, <1>5, <2>1
<1>9. CASE Start
  <2>1. PICK n \in Threads(file) : n = next
    BY <1>1
  <2>2. ~Passed("start", n, 0) /\ Passed("start", n, 0)'
    BY <2>1, <1>1, <1>9 DEF Start, LoopTo, Passed
  <2>. QED BY <1>3, <1>4, <1>5, <2>2
<1>10. CASE Join
  <2>1. PICK n \in Threads(file) : n = next
    BY <1>1
  <2>2. ~Passed("join", n, 0) /\ Passed("join", n, 0)'
    BY <2>1, <1>1, <1>10 DEF Join, LoopTo, Passed
  <2>. QED BY <1>3, <1>4, <1>5, <2>2
<1>11. CASE EndStream
  <2>1. PICK n \in Threads(file) : n = next
    BY <1>1
  <2>2. ~Passed("ended", n, 0) /\ Passed("ended", n, 0)'
    BY <2>1, <1>1, <1>11 DEF EndStream, Passed
  <2>. QED BY <1>3, <1>4, <1>5, <2>2
<1>12. CASE JoinNetwork
  <2>1. PICK n \in Threads(file) : n = next
    BY <1>1
  <2>2. ~Passed("end", n, 0) /\ Passed("end", n, 0)'
    BY <2>1, <1>1, <1>12 DEF JoinNetwork, LoopTo, Passed
  <2>. QED BY <1>3, <1>4, <1>5, <2>2
<1>13. ASSUME NEW t \in Threads(file), ReadFails(t) \/ SenderReturns(t)
       PROVE  Done \subseteq Done' /\ Done # Done'
  <2>1. ~Passed("returned", t, 0) /\ Passed("returned", t, 0)'
    BY <1>1, <1>13 DEF ReadFails, SenderReturns, Passed
  <2>. QED BY <1>3, <1>4, <1>5, <2>1
<1>14. ASSUME NEW t \in Threads(file), SendChunk(t)
       PROVE  Done \subseteq Done' /\ Done # Done'
  <2>1. PICK c \in 0 .. Eos : c = sent[t]
    BY <1>2
  <2>2. sent'[t] = c + 1 /\ c \in Int
    BY <1>2, <1>14, <2>1 DEF SendChunk
  <2>3. ~Passed("sent", t, c) /\ Passed("sent", t, c)'
    <3>1. ~(c < sent[t]) /\ c < sent'[t]
      BY <2>1, <2>2
    <3>. QED BY <3>1 DEF Passed
  <2>. QED BY <1>3, <1>5, <2>3
<1>15. ASSUME NEW t \in Threads(file), Transmit(t)
       PROVE  Done \subseteq Done' /\ Done # Done'
  <2>1. PICK c \in 0 .. Eos : c = out[t]
    BY <1>2
  <2>2. out'[t] = c + 1 /\ c \in Int
    BY <1>2, <1>15, <2>1 DEF Transmit
  <2>3. ~Passed("out", t, c) /\ Passed("out", t, c)'
    <3>1. ~(c < out[t]) /\ c < out'[t]
      BY <2>1, <2>2
    <3>. QED BY <3>1 DEF Passed
  <2>. QED BY <1>3, <1>5, <2>3
<1>16. ASSUME NEW t \in Threads(file), NetworkEnds(t)
       PROVE  Done \subseteq Done' /\ Done # Done'
  <2>1. ~Passed("net", t, 0) /\ Passed("net", t, 0)'
    BY <1>1, <1>16 DEF NetworkEnds, Passed
  <2>. QED BY <1>3, <1>4, <1>5, <2>1
<1>. QED
  BY <1>6, <1>7, <1>8, <1>9, <1>10, <1>11, <1>12, <1>13, <1>14, <1>15, <1>16
     DEF NodeNext, Simulate, Next, Main, Sender, Network

Progress == UNCHANGED Milestones /\ Done \subseteq Done' /\ Done # Done'

\* No loop polls and nothing is done over: every step passes a milestone for
\* good, and the milestones of a simulation are finitely many, so that it ends
\* if only some thread that can run does.
THEOREM StepsAreProgress ==
    NodeSpec => [](Done \subseteq Milestones /\ IsFiniteSet(Milestones)) /\ [][Progress]_allVars
<1>1. IInv => Done \subseteq Milestones /\ IsFiniteSet(Milestones)
  BY MilestonesFinite DEF IInv, Done
<1>2. IInv /\ DataInv /\ OrderInv /\ [NodeNext]_allVars => [Progress]_allVars
  <2> SUFFICES ASSUME IInv, DataInv, OrderInv, NodeNext, ~UNCHANGED allVars
               PROVE  Progress
    OBVIOUS
  <2>1. ~Idle
    BY DEF Idle, allVars
  <2>2. UNCHANGED Milestones
    <3>1. UNCHANGED file
      BY WireGrows
    <3>. QED BY <3>1 DEF Milestones, Threads, Eos
  <2>. QED BY <2>1, <2>2, StepIsProgress DEF Progress
<1>. QED BY <1>1, <1>2, Safety, DataInvHolds, OrderInvHolds, PTL DEF NodeSpec, allVars

-----------------------------------------------------------------------------
(* What main, a sender, a network thread and a stream of the node need to  *)
(* take their next step.                                                   *)

CanMain ==
    \/ pc \in {"load", "start"}
    \/ pc = "join" /\ sender[next] = "done"
    \/ pc = "end" /\ (next \in ended => net[next] = "done")

CanSend(t) ==
    /\ sender[t] = "running"
    /\ \/ job.mode = "files" /\ sent[t] = 0
       \/ sent[t] < job.nchunks /\ sent[t] - out[t] < RingSize
       \/ sent[t] = job.nchunks

CanTransmit(t) == net[t] = "up" /\ (out[t] < sent[t] \/ (t \in ended /\ out[t] = sent[t]))

CanReceive(s) == nodePc = "up" /\ s \notin over /\ read[s] < Len(wire[s])

CanStep ==
    \/ nodePc = "off"
    \/ CanMain
    \/ \E t \in Threads(file) : CanSend(t) \/ CanTransmit(t)
    \/ \E s \in Streams(file) : CanReceive(s)

\* Main waits for a sender, the sender for room in its ring buffer, and the
\* network thread that makes room for nobody: as long as the simulation is not
\* through and the node has not received all, some thread can take a step, and
\* then none can (simulate-l0.cpp:183, simulate-l0.cpp:349).
THEOREM NeverStuck == NodeSpec => [](CanStep <=> ~Finished)
<1>1. IInv /\ SendersInv /\ ReadInv /\ OrderInv => (CanStep <=> ~Finished)
  <2> SUFFICES ASSUME IInv, SendersInv, ReadInv, OrderInv PROVE CanStep <=> ~Finished
    OBVIOUS
  <2>1. /\ next \in Threads(file)
        /\ pc \in {"load", "refused", "start", "join", "end", "returned"}
        /\ sender \in [Threads(file) -> {"none", "running", "done"}]
        /\ net \in [Threads(file) -> {"none", "up", "done"}]
        /\ RingSize \in Nat \ {0} /\ job.nchunks \in Nat
    BY SimulateL0Assumption DEF IInv, TypeOK
  <2>2. \A t \in Threads(file) : sent[t] \in Nat /\ out[t] \in Nat
    BY SimulateL0Assumption DEF IInv, TypeOK
  <2>3. \A s \in Streams(file) : read[s] \in Nat /\ Len(wire[s]) \in Nat
    BY DEF IInv, TypeOK, ReadInv
  <2>4. ASSUME ~CanStep PROVE Finished
    <3>1. nodePc # "off" /\ pc \notin {"load", "start"}
      BY <2>4 DEF CanStep, CanMain
    <3>2. pc # "join"
      <4> SUFFICES ASSUME pc = "join" PROVE FALSE
        OBVIOUS
      <4>1. sender[next] = "running" /\ net[next] # "none"
        BY <2>1, <2>4 DEF CanStep, CanMain, OrderInv, Loaded
      <4>2. net[next] = "up"
        BY <2>1, <4>1 DEF SendersInv
      <4>3. /\ ~(sent[next] < job.nchunks /\ sent[next] - out[next] < RingSize)
            /\ sent[next] # job.nchunks /\ ~(out[next] < sent[next])
        BY <2>1, <2>4, <4>1, <4>2 DEF CanStep, CanSend, CanTransmit
      <4>. QED BY <2>1, <2>2, <4>3 DEF SendersInv
    <3>3. pc # "end"
      <4> SUFFICES ASSUME pc = "end" PROVE FALSE
        OBVIOUS
      <4>1. next \in ended /\ net[next] = "up"
        BY <2>1, <2>4 DEF CanStep, CanMain, OrderInv, Loaded
      <4>2. ~(out[next] < sent[next]) /\ out[next] # sent[next]
        BY <2>1, <2>4, <4>1 DEF CanStep, CanTransmit
      <4>. QED BY <2>1, <2>2, <4>2 DEF SendersInv
    <3>4. ASSUME nodePc = "up", NEW s \in Streams(file)
          PROVE  s \in over \/ read[s] = Len(wire[s])
      BY <2>3, <2>4, <3>4 DEF CanStep, CanReceive, ReadInv
    <3>. QED BY <2>1, <3>1, <3>2, <3>3, <3>4 DEF Finished
  <2>5. ASSUME Finished PROVE ~CanStep
    <3>1. nodePc # "off" /\ ~CanMain
      BY <2>5 DEF Finished, CanMain
    <3>2. ASSUME NEW t \in Threads(file) PROVE ~CanSend(t) /\ ~CanTransmit(t)
      <4>1. CASE pc = "refused"
        BY <4>1 DEF OrderInv, IInv, EndsInOrder, Loaded, CanSend, CanTransmit
      <4>2. CASE pc = "returned"
        BY <4>2 DEF SendersInv, IInv, EndsInOrder, CanSend, CanTransmit
      <4>. QED BY <2>5, <4>1, <4>2 DEF Finished
    <3>3. ASSUME NEW s \in Streams(file) PROVE ~CanReceive(s)
      BY <2>3, <2>5 DEF Finished, CanReceive
    <3>. QED BY <3>1, <3>2, <3>3 DEF CanStep
  <2>. QED BY <2>4, <2>5
<1>2. DataInv => SendersInv /\ ReadInv
  BY DEF DataInv
<1>. QED BY <1>1, <1>2, Safety, DataInvHolds, OrderInvHolds, PTL

-----------------------------------------------------------------------------
(* Every stream has its end-of-stream packet, and ends by it.              *)

LEMMA LastThread ==
    ASSUME NEW f \in Files, Accepts(f), NEW s \in Streams(f)
    PROVE  \E t \in Threads(f) : StreamOf(f, t) = s /\ SendsEos(f, t)
<1> DEFINE S == NStreams(f)
           d == ThreadsPerStream(f)
           t == s * d + (d - 1)
<1>1. d \in Nat \ {0} /\ S \in Nat \ {0} /\ f.nthreads = d * S
  BY Division
<1>2. s \in Nat /\ s < S
  BY <1>1 DEF Streams
<1>3. t \in Nat /\ t < d * S /\ t \div d = s /\ t % d = d - 1
  <2> HIDE DEF d, S
  <2>1. (s + 1) * d <= S * d
    BY <1>1, <1>2
  <2>2. s * d \in Nat /\ (s + 1) * d = s * d + d
    BY <1>1, <1>2
  <2>3. t \in Nat /\ t < d * S /\ t \in s * d .. (s + 1) * d - 1
    BY <1>1, <1>2, <2>1, <2>2
  <2>4. t \div d = s
    BY <1>1, <1>2, <2>3, Blocks
  <2>5. t % d = t - d * (t \div d)
    <3> HIDE DEF t
    <3>. QED BY <1>1, <2>3, SMT
  <2>. QED BY <1>1, <1>2, <2>2, <2>3, <2>4, <2>5
<1>4. t \in Threads(f)
  BY <1>1, <1>3 DEF Threads
<1>. QED BY <1>3, <1>4 DEF StreamOf, SendsEos, PlaceOf

\* The ostream of a stream's last thread leaves an end-of-stream packet behind.
EosSent ==
    \A t \in Threads(file) :
        net[t] = "done" /\ SendsEos(file, t) =>
            \E k \in 1 .. Len(wire[StreamOf(file, t)]) :
                wire[StreamOf(file, t)][k].chunk = Eos

\* A stream that has received one is over, unless the node ignores them.
NoEosRead ==
    ~node.ignoreEos =>
        \A s \in Streams(file) \ over : \A k \in 1 .. read[s] : wire[s][k].chunk # Eos

LEMMA EosSentStep == IInv /\ EosSent /\ [NodeNext]_allVars => EosSent'
<1> SUFFICES ASSUME IInv, EosSent, [NodeNext]_allVars, NEW t \in Threads(file)', (net[t] = "done")',
                    SendsEos(file, t)'
             PROVE  (\E k \in 1 .. Len(wire[StreamOf(file, t)]) :
                        wire[StreamOf(file, t)][k].chunk = Eos)'
  BY DEF EosSent
<1> DEFINE x == StreamOf(file, t)
<1>1. /\ UNCHANGED file
      /\ \A s \in Streams(file) :
           /\ Len(wire[s]) \in Nat /\ Len(wire'[s]) \in Nat /\ Len(wire[s]) <= Len(wire'[s])
           /\ \A k \in 1 .. Len(wire[s]) : wire'[s][k] = wire[s][k]
  BY WireGrows
<1>2. /\ t \in Threads(file) /\ SendsEos(file, t)
      /\ net \in [Threads(file) -> {"none", "up", "done"}]
  BY <1>1 DEF IInv, TypeOK, Threads, SendsEos, PlaceOf, ThreadsPerStream, NStreams
<1>3. CASE net[t] = "done"
  <2>1. PICK k \in 1 .. Len(wire[x]) : wire[x][k].chunk = Eos
    BY <1>2, <1>3 DEF EosSent
  <2>2. x \in Streams(file)
    <3>1. file \in Files /\ Accepts(file)
      BY <1>2, <1>3 DEF IInv, TypeOK, RunsAccepted, EndsInOrder
    <3>. QED BY <1>2, <3>1, StreamOfThread
  <2>3. k \in 1 .. Len(wire'[x]) /\ wire'[x][k].chunk = Eos
    BY <1>1, <2>1, <2>2
  <2>. QED BY <1>1, <2>3 DEF Eos
<1>4. CASE net[t] # "done"
  <2>1. NetworkEnds(t)
    <3>1. net'[t] # net[t]
      BY <1>4
    <3>2. Next
      BY <3>1 DEF NodeNext, NodeStart, Receive, Simulate, Idle, allVars, vars
    <3>. QED
      BY <1>1, <1>2, <3>1, <3>2
         DEF Next, Main, Load, Start, Join, EndStream, JoinNetwork, Sender, ReadFails,
             SendChunk, SenderReturns, Network, Transmit, NetworkEnds
  <2>2. TypeOK /\ x \in Streams(file) /\ Put(t, Eos) /\ Eos \in 0 .. Eos
    BY <1>2, <2>1, UpHasStream, SimulateL0Assumption DEF IInv, NetworkEnds, Eos
  <2>3. /\ Len(wire'[x]) = Len(wire[x]) + 1 /\ Len(wire[x]) \in Nat
        /\ wire'[x][Len(wire[x]) + 1] = Packet(t, Eos)
    BY <1>1, <1>2, <2>2, PutFacts
  <2>4. Len(wire'[x]) \in 1 .. Len(wire'[x]) /\ wire'[x][Len(wire'[x])].chunk = Eos
    BY <2>3 DEF Packet
  <2>. QED BY <1>1, <2>4 DEF Eos
<1>. QED BY <1>3, <1>4

LEMMA EosHolds == NodeSpec => [](EosSent /\ NoEosRead)
<1>1. NodeInit => EosSent /\ NoEosRead
  BY DEF NodeInit, Init, EosSent, NoEosRead
<1>2. IInv /\ ReadInv /\ EosSent /\ NoEosRead /\ [NodeNext]_allVars => EosSent' /\ NoEosRead'
  <2> SUFFICES ASSUME IInv, ReadInv, EosSent, NoEosRead, [NodeNext]_allVars
               PROVE  EosSent' /\ NoEosRead'
    OBVIOUS
  <2>1. EosSent'
    BY EosSentStep
  <2>2. NoEosRead'
    <3>1. /\ UNCHANGED file
          /\ \A s \in Streams(file) :
               /\ Len(wire[s]) \in Nat /\ Len(wire'[s]) \in Nat /\ Len(wire[s]) <= Len(wire'[s])
               /\ \A k \in 1 .. Len(wire[s]) : wire'[s][k] = wire[s][k]
      BY WireGrows
    <3>2. \A s \in Streams(file) : read[s] \in Nat /\ read[s] <= Len(wire[s])
      BY DEF ReadInv
    <3>3. CASE UNCHANGED <<node, read, over>>
      BY <3>1, <3>2, <3>3 DEF NoEosRead, Eos
    <3>4. ASSUME NEW s \in Streams(file), Receive(s) PROVE NoEosRead'
      <4>1. /\ UNCHANGED <<file, wire, node>>
            /\ read' = [read EXCEPT ![s] = @ + 1] /\ read \in [Streams(file) -> Nat]
            /\ over' = IF wire[s][read[s] + 1].chunk = Eos /\ ~node.ignoreEos
                       THEN over \cup {s} ELSE over
        BY <3>4 DEF Receive, vars, ReadInv
      <4>. QED BY <4>1 DEF NoEosRead, Eos
    <3>. QED BY <3>3, <3>4 DEF NodeNext, NodeStart, Simulate, Idle, allVars, nodeVars
  <2>. QED BY <2>1, <2>2
<1>3. DataInv => ReadInv
  BY DEF DataInv
<1>. QED BY <1>1, <1>2, <1>3, Safety, DataInvHolds, PTL DEF NodeSpec, allVars

EveryStreamEnded ==
    Finished /\ nodePc = "up" /\ pc = "returned" /\ ~node.ignoreEos => over = Streams(file)

\* Wherever a simulation stops, no stream is left waiting for more: each had an
\* end-of-stream packet from its last thread, also one whose chunk files could
\* not be read, and has received it.
THEOREM FinishedMeansEnded == NodeSpec => []EveryStreamEnded
<1>1. IInv /\ ReadInv /\ EosSent /\ NoEosRead => EveryStreamEnded
  <2> SUFFICES ASSUME IInv, ReadInv, EosSent, NoEosRead, Finished, nodePc = "up",
                      pc = "returned", ~node.ignoreEos, NEW s \in Streams(file), s \notin over
               PROVE  FALSE
    BY DEF ReadInv, EveryStreamEnded
  <2>1. file \in Files /\ Accepts(file)
    BY DEF IInv, TypeOK, RunsAccepted, Loaded
  <2>2. PICK t \in Threads(file) : StreamOf(file, t) = s /\ SendsEos(file, t)
    BY <2>1, LastThread
  <2>3. net[t] = "done"
    BY DEF IInv, EndsInOrder
  <2>4. PICK k \in 1 .. Len(wire[s]) : wire[s][k].chunk = Eos
    BY <2>2, <2>3 DEF EosSent
  <2>5. read[s] = Len(wire[s])
    BY DEF Finished
  <2>. QED BY <2>4, <2>5 DEF NoEosRead
<1>2. DataInv => ReadInv
  BY DEF DataInv
<1>. QED BY <1>1, <1>2, Safety, DataInvHolds, EosHolds, PTL
=============================================================================
