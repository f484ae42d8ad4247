-------------------------- MODULE L1Server_proofs --------------------------
(***************************************************************************)
(* The safety properties of L1Server, for any number of streams and beams, *)
(* any mask counters, with and without the -t flag, and with dedispersion  *)
(* threads that may fail; and that at startup and at shutdown the threads  *)
(* neither wait for each other in a circle nor do anything over.           *)
(***************************************************************************)
EXTENDS L1Server, FiniteSetTheorems, TLAPS

BeforeRpc == {"prometheus", "spawn", "waitBonsai"}

\* main has joined all dedispersion threads.
Late == {"devices", "shutdownRpc", "joinStream", "joinRpc", "resetPrometheus", "done"}

\* The mask map holds what has been put, and a beam that has announced its
\* dedisperser has put everything.
AnnounceInv ==
    /\ \A b \in Beams : toPut[b] \subseteq Counters[b]
    /\ \A b \in bonsai : toPut[b] = {}
    /\ \A s \in Streams :
         maskMap[s] = {e \in Beams \X CounterNames :
             StreamOf(e[1]) = s /\ e[2] \in Counters[e[1]] \ toPut[e[1]]}

\* An RPC server has been made after all dedispersers were announced.
CapturedInv ==
    /\ mainPc \notin BeforeRpc => bonsai = Beams
    /\ \A s \in Streams : rpc[s] # "none" =>
         /\ bonsai = Beams
         /\ captured[s] = {b \in Beams : StreamOf(b) = s}

\* What main and the dedispersion threads have waited for.
JoinedInv ==
    /\ ~HasL1b => l1b = {}
    /\ \A b \in Beams :
         /\ dedisp[b] \in {"waitL1b", "exited"} => stream[StreamOf(b)] = "ended"
         /\ dedisp[b] = "exited" => b \notin l1b
    /\ mainPc = "joinDedispersion" =>
         \A b \in Beams : b < i => dedisp[b] = "exited"
    /\ mainPc \in Late => \A b \in Beams : dedisp[b] = "exited"
    /\ ~devicesOpen => mainPc \in Late
    /\ mainPc = "joinRpc" => \A s \in Streams : s < i => rpc[s] = "exited"
    /\ mainPc \in {"resetPrometheus", "done"} => \A s \in Streams : rpc[s] = "exited"
    /\ mainPc = "resetPrometheus" =>
         \A s \in Streams : s < i => prom[s] \in {"none", "closed"}
    /\ mainPc = "done" => \A s \in Streams : prom[s] \in {"none", "closed"}

IInv == TypeOK /\ AnnounceInv /\ CapturedInv /\ JoinedInv

-----------------------------------------------------------------------------
(* How beams are numbered.                                                 *)

LEMMA Sizes ==
    /\ NumStreams \in Nat /\ BeamsPerStream \in Nat
    /\ NumStreams > 0 /\ BeamsPerStream > 0
    /\ NumStreams * BeamsPerStream \in Nat
    /\ NumStreams <= NumStreams * BeamsPerStream
  BY L1ServerAssumption, SMT

LEMMA NumBeams == Cardinality(Beams) = NumStreams * BeamsPerStream
<1>1. /\ 0 \in Int /\ NumStreams * BeamsPerStream - 1 \in Int
      /\ ~(0 > NumStreams * BeamsPerStream - 1)
  BY Sizes
<1>2. Cardinality(0 .. NumStreams * BeamsPerStream - 1)
        = (NumStreams * BeamsPerStream - 1) - 0 + 1
  BY <1>1, FS_Interval
<1>. QED BY <1>2, Sizes DEF Beams

LEMMA Division ==
    ASSUME NEW d \in Nat, d > 0, NEW b \in Nat
    PROVE  /\ b \div d \in Nat
           /\ (b \div d) * d <= b /\ b < (b \div d) * d + d
  BY SMT

LEMMA Multiples ==
    ASSUME NEW d \in Nat, d > 0, NEW m \in Nat, NEW n \in Nat, m < n
    PROVE  m * d \in Nat /\ n * d \in Nat /\ m * d + d <= n * d
  BY SMT

LEMMA StreamOfMultiple ==
    ASSUME NEW s \in Nat, NEW b \in Nat,
           s * BeamsPerStream <= b, b < s * BeamsPerStream + BeamsPerStream
    PROVE  StreamOf(b) = s
<1> DEFINE q == b \div BeamsPerStream
<1>1. /\ q \in Nat /\ q * BeamsPerStream <= b
      /\ b < q * BeamsPerStream + BeamsPerStream
  BY Sizes, Division
<1> HIDE DEF q
<1>2. ~(q < s)
  BY <1>1, Sizes, Multiples
<1>3. ~(s < q)
  BY <1>1, Sizes, Multiples
<1>. QED BY <1>1, <1>2, <1>3 DEF StreamOf, q

LEMMA StreamOfBeam == ASSUME NEW b \in Beams PROVE StreamOf(b) \in Streams
<1> DEFINE q == b \div BeamsPerStream
<1>1. b \in Nat /\ b < NumStreams * BeamsPerStream
  BY Sizes DEF Beams
<1>2. q \in Nat /\ q * BeamsPerStream <= b
  BY <1>1, Sizes, Division
<1> HIDE DEF q
<1>3. NumStreams * BeamsPerStream <= q * BeamsPerStream \/ q < NumStreams
  <2>1. NumStreams < q => NumStreams * BeamsPerStream <= q * BeamsPerStream
    BY <1>2, Sizes, Multiples
  <2>. QED BY <1>2, <2>1, Sizes
<1>. QED BY <1>1, <1>2, <1>3, Sizes DEF Streams, StreamOf, q

\* The beams of a stream are those that are numbered so, and there is one.
LEMMA BeamsOfStream ==
    ASSUME NEW s \in Streams
    PROVE  /\ BeamsOf(s) = {b \in Beams : StreamOf(b) = s}
           /\ \E b \in Beams : StreamOf(b) = s
<1>1. s \in Nat /\ s < NumStreams
  BY Sizes DEF Streams
<1>2. /\ s * BeamsPerStream \in Nat
      /\ s * BeamsPerStream + BeamsPerStream <= NumStreams * BeamsPerStream
  BY <1>1, Sizes, Multiples
<1>3. ASSUME NEW ib \in 0 .. BeamsPerStream - 1
      PROVE  /\ s * BeamsPerStream + ib \in Beams
             /\ StreamOf(s * BeamsPerStream + ib) = s
  <2>1. ib \in Nat /\ ib < BeamsPerStream
    BY Sizes
  <2>2. /\ s * BeamsPerStream + ib \in Nat
        /\ s * BeamsPerStream <= s * BeamsPerStream + ib
        /\ s * BeamsPerStream + ib < s * BeamsPerStream + BeamsPerStream
    BY <1>2, <2>1, Sizes
  <2>. QED BY <1>1, <1>2, <2>2, StreamOfMultiple, Sizes DEF Beams
<1>4. ASSUME NEW b \in Beams, StreamOf(b) = s
      PROVE  b \in BeamsOf(s)
  <2>1. b \in Nat
    BY Sizes DEF Beams
  <2>2. s * BeamsPerStream <= b /\ b < s * BeamsPerStream + BeamsPerStream
    BY <1>4, <2>1, Sizes, Division DEF StreamOf
  <2>3. /\ b - s * BeamsPerStream \in 0 .. BeamsPerStream - 1
        /\ b = s * BeamsPerStream + (b - s * BeamsPerStream)
    BY <1>2, <2>1, <2>2, Sizes
  <2>. QED BY <2>3 DEF BeamsOf
<1>5. 0 \in 0 .. BeamsPerStream - 1
  BY Sizes
<1>. QED BY <1>3, <1>4, <1>5 DEF BeamsOf

-----------------------------------------------------------------------------
(* Initial states, and the loops of main.                                  *)

LEMMA InitInv == Init => IInv
<1> SUFFICES ASSUME Init PROVE IInv
  OBVIOUS
<1>1. 0 \in Beams
  BY Sizes DEF Beams
<1>2. TypeOK
  BY <1>1, L1ServerAssumption DEF Init, TypeOK
<1>3. AnnounceInv
  BY DEF Init, AnnounceInv
<1>4. CapturedInv /\ JoinedInv
  BY DEF Init, CapturedInv, JoinedInv, BeforeRpc, Late
<1>. QED BY <1>2, <1>3, <1>4 DEF IInv

LEMMA Loop ==
    ASSUME i \in Beams, NEW pc, NEW next, pc # next,
           NEW n \in {NumStreams, Cardinality(Beams)}, LoopTo(pc, n, next)
    PROVE  /\ i' \in Beams
           /\ \/ mainPc' = pc /\ i' = i + 1
              \/ mainPc' = next /\ i' = 0 /\ \A k \in 0 .. n - 1 : k < i + 1
<1>1. n \in Nat /\ n > 0 /\ n <= NumStreams * BeamsPerStream
  BY Sizes, NumBeams
<1>2. i \in Nat /\ i < NumStreams * BeamsPerStream
  BY Sizes DEF Beams
<1>. QED BY <1>1, <1>2, Sizes DEF LoopTo, Beams

-----------------------------------------------------------------------------
(* The steps, by what they may change.                                     *)

MainBuilds == MainPrometheus \/ MainSpawn \/ MainPollBonsai \/ MainWaitBonsai \/ MainMakeRpc

MainJoins ==
    \/ MainJoinDedispersion \/ MainEndDevices \/ MainShutdownRpc
    \/ MainJoinStream \/ MainJoinRpc \/ MainResetPrometheus

Dedispersion(b) == DedispersionThread(b) \/ DedispersionFails(b) \/ L1bExits(b)

Readers(s) == ScrapeBegin(s) \/ ScrapeEnd(s) \/ RpcThread(s)

Network(s) == L0Ends(s) \/ StreamThreadsExit(s)

LEMMA Cases ==
    ASSUME [Next]_vars
    PROVE  \/ UNCHANGED vars
           \/ MainBuilds
           \/ MainJoins
           \/ \E b \in Beams : Dedispersion(b)
           \/ \E s \in Streams : Readers(s) \/ Network(s)
  BY DEF Next, Step, MainThread, MainBuilds, MainJoins, Dedispersion, Readers, Network

LEMMA TypeStep == TypeOK /\ [Next]_vars => TypeOK'
<1> SUFFICES ASSUME TypeOK, [Next]_vars PROVE TypeOK'
  OBVIOUS
<1> DEFINE Pcs == {"prometheus", "spawn", "waitBonsai", "makeRpc", "joinDedispersion",
                   "devices", "shutdownRpc", "joinStream", "joinRpc", "resetPrometheus",
                   "done"}
<1>1. i \in Beams /\ mainPc \in Pcs
  BY DEF TypeOK
<1>2. CASE UNCHANGED vars
  BY <1>2 DEF vars, TypeOK
<1>3. CASE MainBuilds
  <2>1. CASE MainPrometheus
    <3>1. i' \in Beams /\ mainPc' \in {"prometheus", "spawn"}
      BY <1>1, <2>1, Loop DEF MainPrometheus
    <3>. QED BY <2>1, <3>1 DEF MainPrometheus, TypeOK
  <2>2. CASE MainSpawn
    <3>1. i' \in Beams /\ mainPc' \in {"spawn", "waitBonsai"}
      BY <1>1, <2>2, Loop DEF MainSpawn
    <3>. QED BY <2>2, <3>1 DEF MainSpawn, TypeOK
  <2>3. CASE MainPollBonsai
    BY <2>3 DEF MainPollBonsai, vars, TypeOK
  <2>4. CASE MainWaitBonsai
    BY <2>4 DEF MainWaitBonsai, TypeOK
  <2>5. CASE MainMakeRpc
    <3>1. i' \in Beams /\ mainPc' \in {"makeRpc", "joinDedispersion"}
      BY <1>1, <2>5, Loop DEF MainMakeRpc
    <3>2. BeamsOf(i) \cap bonsai \subseteq Beams
      BY DEF TypeOK
    <3>. QED BY <2>5, <3>1, <3>2 DEF MainMakeRpc, TypeOK
  <2>. QED BY <1>3, <2>1, <2>2, <2>3, <2>4, <2>5 DEF MainBuilds
<1>4. CASE MainJoins
  <2>1. CASE MainJoinDedispersion
    <3>1. i' \in Beams /\ mainPc' \in {"joinDedispersion", "devices"}
      BY <1>1, <2>1, Loop DEF MainJoinDedispersion
    <3>. QED BY <2>1, <3>1 DEF MainJoinDedispersion, TypeOK
  <2>2. CASE MainEndDevices
    BY <2>2 DEF MainEndDevices, TypeOK
  <2>3. CASE MainShutdownRpc
    BY <2>3 DEF MainShutdownRpc, End, TypeOK
  <2>4. CASE MainJoinStream
    <3>1. i' \in Beams /\ mainPc' \in {"shutdownRpc", "joinRpc"}
      BY <1>1, <2>4, Loop DEF MainJoinStream
    <3>. QED BY <2>4, <3>1 DEF MainJoinStream, TypeOK
  <2>5. CASE MainJoinRpc
    <3>1. i' \in Beams /\ mainPc' \in {"joinRpc", "resetPrometheus"}
      BY <1>1, <2>5, Loop DEF MainJoinRpc
    <3>. QED BY <2>5, <3>1 DEF MainJoinRpc, TypeOK
  <2>6. CASE MainResetPrometheus
    <3>1. i' \in Beams /\ mainPc' \in {"resetPrometheus", "done"}
      BY <1>1, <2>6, Loop DEF MainResetPrometheus
    <3>. QED BY <2>6, <3>1 DEF MainResetPrometheus, TypeOK
  <2>. QED BY <1>4, <2>1, <2>2, <2>3, <2>4, <2>5, <2>6 DEF MainJoins
<1>5. ASSUME NEW b \in Beams, Dedispersion(b)
      PROVE  TypeOK'
  <2>1. ASSUME NEW k \in CounterNames, PutMaskCounter(b, k)
        PROVE  TypeOK'
    <3>1. StreamOf(b) \in Streams
      BY StreamOfBeam
    <3>2. maskMap' \in [Streams -> SUBSET (Beams \X CounterNames)]
      BY <2>1, <3>1 DEF PutMaskCounter, TypeOK
    <3>3. toPut' \in [Beams -> SUBSET CounterNames]
      BY <2>1 DEF PutMaskCounter, TypeOK
    <3>4. aborted' \in BOOLEAN
      BY <2>1 DEF PutMaskCounter
    <3>. QED BY <2>1, <3>2, <3>3, <3>4 DEF PutMaskCounter, TypeOK
  <2>2. CASE SetBonsai(b)
    BY <2>2 DEF SetBonsai, TypeOK
  <2>3. CASE PipelineEnds(b) \/ DedispersionExit(b)
    BY <2>3 DEF PipelineEnds, DedispersionExit, TypeOK
  <2>4. CASE DedispersionFails(b) \/ L1bExits(b)
    BY <2>4 DEF DedispersionFails, L1bExits, TypeOK
  <2>. QED BY <1>5, <2>1, <2>2, <2>3, <2>4 DEF Dedispersion, DedispersionThread, StartsUp
<1>6. ASSUME NEW s \in Streams, Readers(s)
      PROVE  TypeOK'
  <2>1. CASE ScrapeBegin(s) \/ ScrapeEnd(s)
    BY <2>1 DEF ScrapeBegin, ScrapeEnd, TypeOK
  <2>2. CASE RpcThread(s)
    BY <2>2 DEF RpcThread, RpcTop, RpcTimeout, RpcMaskedBegin, RpcMaskedEnd, RpcShutdown,
                RpcJoined, RpcStep, End, TypeOK
  <2>. QED BY <1>6, <2>1, <2>2 DEF Readers
<1>7. ASSUME NEW s \in Streams, Network(s)
      PROVE  TypeOK'
  BY <1>7 DEF Network, L0Ends, StreamThreadsExit, End, TypeOK
<1>. QED BY <1>2, <1>3, <1>4, <1>5, <1>6, <1>7, Cases

\* What main, the readers and the network leave alone.
LEMMA AnnounceFrame ==
    ASSUME [Next]_vars
    PROVE  \/ UNCHANGED <<toPut, bonsai, maskMap>>
           \/ \E b \in Beams : \/ SetBonsai(b)
                               \/ \E k \in CounterNames : PutMaskCounter(b, k)
<1>1. UNCHANGED vars \/ MainBuilds => UNCHANGED <<toPut, bonsai, maskMap>>
  BY DEF vars, MainBuilds, MainPrometheus, MainSpawn, MainPollBonsai, MainWaitBonsai,
         MainMakeRpc
<1>2. MainJoins => UNCHANGED <<toPut, bonsai, maskMap>>
  BY DEF MainJoins, MainJoinDedispersion, MainEndDevices, MainShutdownRpc,
         MainJoinStream, MainJoinRpc, MainResetPrometheus
<1>3. ASSUME NEW s \in Streams, Readers(s) \/ Network(s)
      PROVE  UNCHANGED <<toPut, bonsai, maskMap>>
  BY <1>3 DEF Readers, ScrapeBegin, ScrapeEnd, RpcThread, RpcTop, RpcTimeout,
              RpcMaskedBegin, RpcMaskedEnd, RpcShutdown, RpcJoined, RpcStep,
              Network, L0Ends, StreamThreadsExit
<1>4. ASSUME NEW b \in Beams,
             PipelineEnds(b) \/ DedispersionExit(b) \/ DedispersionFails(b) \/ L1bExits(b)
      PROVE  UNCHANGED <<toPut, bonsai, maskMap>>
  BY <1>4 DEF PipelineEnds, DedispersionExit, DedispersionFails, L1bExits
<1>. QED BY <1>1, <1>2, <1>3, <1>4, Cases DEF Dedispersion, DedispersionThread, StartsUp

LEMMA AnnounceStep == TypeOK /\ AnnounceInv /\ [Next]_vars => AnnounceInv'
<1> SUFFICES ASSUME TypeOK, AnnounceInv, [Next]_vars PROVE AnnounceInv'
  OBVIOUS
<1>1. CASE UNCHANGED <<toPut, bonsai, maskMap>>
  BY <1>1 DEF AnnounceInv
<1>2. ASSUME NEW b \in Beams, SetBonsai(b)
      PROVE  AnnounceInv'
  BY <1>2 DEF SetBonsai, AnnounceInv
<1>3. ASSUME NEW b \in Beams, NEW k \in CounterNames, PutMaskCounter(b, k)
      PROVE  AnnounceInv'
  <2>1. /\ k \in toPut[b] /\ toPut[b] \subseteq Counters[b]
        /\ toPut' = [toPut EXCEPT ![b] = @ \ {k}]
        /\ maskMap' = [maskMap EXCEPT ![StreamOf(b)] = @ \cup {<<b, k>>}]
        /\ bonsai' = bonsai
        /\ toPut \in [Beams -> SUBSET CounterNames]
        /\ maskMap \in [Streams -> SUBSET (Beams \X CounterNames)]
    BY <1>3 DEF PutMaskCounter, AnnounceInv, TypeOK
  <2>2. /\ \A c \in Beams : toPut'[c] = IF c = b THEN toPut[c] \ {k} ELSE toPut[c]
        /\ \A s \in Streams : maskMap'[s] = IF s = StreamOf(b)
                                            THEN maskMap[s] \cup {<<b, k>>} ELSE maskMap[s]
    BY <2>1
  <2>3. \A c \in Beams : toPut'[c] \subseteq Counters[c]
    BY <2>2 DEF AnnounceInv
  <2>4. \A c \in bonsai' : toPut'[c] = {}
    BY <2>1, <2>2 DEF AnnounceInv, TypeOK
  <2>5. ASSUME NEW s \in Streams, NEW e \in Beams \X CounterNames
        PROVE  e \in maskMap'[s]
                 <=> StreamOf(e[1]) = s /\ e[2] \in Counters[e[1]] \ toPut'[e[1]]
    <3>1. /\ e[1] \in Beams /\ e[2] \in CounterNames /\ e = <<e[1], e[2]>>
      OBVIOUS
    <3>2. e \in maskMap[s] <=> StreamOf(e[1]) = s /\ e[2] \in Counters[e[1]] \ toPut[e[1]]
      BY DEF AnnounceInv
    <3>3. e = <<b, k>> <=> e[1] = b /\ e[2] = k
      BY <3>1
    <3>. QED BY <2>1, <2>2, <3>1, <3>2, <3>3
  <2>6. \A s \in Streams : maskMap'[s] \subseteq Beams \X CounterNames
    BY <2>1, <2>2
  <2>7. \A s \in Streams :
          maskMap'[s] = {e \in Beams \X CounterNames :
              StreamOf(e[1]) = s /\ e[2] \in Counters[e[1]] \ toPut'[e[1]]}
    BY <2>5, <2>6
  <2>. QED BY <2>3, <2>4, <2>7 DEF AnnounceInv
<1>. QED BY <1>1, <1>2, <1>3, AnnounceFrame

LEMMA CapturedStep == TypeOK /\ CapturedInv /\ [Next]_vars => CapturedInv'
<1> SUFFICES ASSUME TypeOK, CapturedInv, [Next]_vars PROVE CapturedInv'
  OBVIOUS
<1>1. bonsai = Beams => bonsai' = Beams
  <2>1. bonsai' \subseteq Beams
    BY TypeStep DEF TypeOK
  <2>2. \A b \in Beams : SetBonsai(b) => bonsai' = bonsai \cup {b}
    BY DEF SetBonsai
  <2>3. \A b \in Beams, k \in CounterNames : PutMaskCounter(b, k) => bonsai' = bonsai
    BY DEF PutMaskCounter
  <2>. QED BY <2>1, <2>2, <2>3, AnnounceFrame
<1>2. CASE UNCHANGED <<mainPc, rpc, captured>>
  BY <1>1, <1>2 DEF CapturedInv
<1>3. CASE MainBuilds
  <2>1. CASE MainPrometheus
    <3>1. mainPc' \in BeforeRpc /\ mainPc \in BeforeRpc
      BY <2>1, Loop DEF MainPrometheus, BeforeRpc, TypeOK
    <3>. QED BY <1>1, <2>1, <3>1 DEF MainPrometheus, CapturedInv
  <2>2. CASE MainSpawn
    <3>1. mainPc' \in BeforeRpc /\ mainPc \in BeforeRpc
      BY <2>2, Loop DEF MainSpawn, BeforeRpc, TypeOK
    <3>. QED BY <1>1, <2>2, <3>1 DEF MainSpawn, CapturedInv
  <2>3. CASE MainPollBonsai
    BY <1>2, <2>3 DEF MainPollBonsai, vars
  <2>4. CASE MainWaitBonsai
    BY <2>4 DEF MainWaitBonsai, CapturedInv
  <2>5. CASE MainMakeRpc
    <3>1. bonsai = Beams /\ mainPc = "makeRpc"
      BY <2>5 DEF MainMakeRpc, CapturedInv, BeforeRpc
    <3>2. \A s \in Streams : BeamsOf(s) \cap bonsai = {b \in Beams : StreamOf(b) = s}
      BY <3>1, BeamsOfStream
    <3>3. /\ \A s \in Streams : s # i => rpc'[s] = rpc[s] /\ captured'[s] = captured[s]
          /\ i \in Streams => captured'[i] = BeamsOf(i) \cap bonsai
      BY <2>5 DEF MainMakeRpc, TypeOK
    <3>. QED BY <1>1, <3>1, <3>2, <3>3 DEF CapturedInv
  <2>. QED BY <1>3, <2>1, <2>2, <2>3, <2>4, <2>5 DEF MainBuilds
<1>4. CASE MainJoins
  <2>1. /\ mainPc \notin BeforeRpc
        /\ UNCHANGED <<rpc, captured>>
    BY <1>4 DEF MainJoins, MainJoinDedispersion, MainEndDevices, MainShutdownRpc,
                MainJoinStream, MainJoinRpc, MainResetPrometheus, BeforeRpc
  <2>. QED BY <1>1, <2>1 DEF CapturedInv
<1>5. ASSUME NEW b \in Beams, Dedispersion(b)
      PROVE  UNCHANGED <<mainPc, rpc, captured>>
  BY <1>5 DEF Dedispersion, DedispersionThread, StartsUp, PutMaskCounter, SetBonsai,
              PipelineEnds, DedispersionExit, DedispersionFails, L1bExits
<1>6. ASSUME NEW s \in Streams, Readers(s) \/ Network(s)
      PROVE  CapturedInv'
  <2>1. /\ UNCHANGED <<mainPc, captured>>
        /\ \A r \in Streams : rpc'[r] # "none" => rpc[r] # "none"
    BY <1>6 DEF Readers, ScrapeBegin, ScrapeEnd, RpcThread, RpcTop, RpcTimeout,
                RpcMaskedBegin, RpcMaskedEnd, RpcShutdown, RpcJoined, RpcStep,
                Network, L0Ends, StreamThreadsExit, TypeOK
  <2>. QED BY <1>1, <2>1 DEF CapturedInv
<1>. QED BY <1>2, <1>3, <1>4, <1>5, <1>6, Cases DEF vars

\* What lasts: a thread that has exited and a stream that has ended stay so
\* (but for main starting threads), and closed devices and servers stay closed.
LEMMA Lasting ==
    ASSUME TypeOK, [Next]_vars
    PROVE  /\ \A s \in Streams : stream[s] = "ended" => stream'[s] = "ended"
           /\ \A b \in Beams : dedisp[b] = "exited" =>
                dedisp'[b] = "exited" \/ MainSpawn
           /\ \A s \in Streams : rpc[s] = "exited" =>
                rpc'[s] = "exited" \/ MainMakeRpc
           /\ \A s \in Streams : prom[s] \in {"none", "closed"} =>
                prom'[s] \in {"none", "closed"} \/ MainPrometheus
<1>1. CASE UNCHANGED vars
  BY <1>1 DEF vars
<1>2. CASE MainBuilds
  BY <1>2 DEF MainBuilds, MainPrometheus, MainSpawn, MainPollBonsai, MainWaitBonsai,
              MainMakeRpc, vars
<1>3. CASE MainJoins
  BY <1>3 DEF MainJoins, MainJoinDedispersion, MainEndDevices, MainShutdownRpc, End,
              MainJoinStream, MainJoinRpc, MainResetPrometheus, TypeOK
<1>4. ASSUME NEW b \in Beams, Dedispersion(b)
      PROVE  /\ UNCHANGED <<stream, rpc, prom>>
             /\ \A c \in Beams : dedisp[c] = "exited" => dedisp'[c] = "exited"
  BY <1>4 DEF Dedispersion, DedispersionThread, StartsUp, PutMaskCounter, SetBonsai,
              PipelineEnds, DedispersionExit, DedispersionFails, L1bExits, TypeOK
<1>5. ASSUME NEW s \in Streams, Readers(s)
      PROVE  /\ dedisp' = dedisp
             /\ \A r \in Streams :
                  /\ stream[r] = "ended" => stream'[r] = "ended"
                  /\ rpc[r] = "exited" => rpc'[r] = "exited"
                  /\ prom[r] \in {"none", "closed"} => prom'[r] \in {"none", "closed"}
  <2>1. CASE ScrapeBegin(s) \/ ScrapeEnd(s)
    BY <2>1 DEF ScrapeBegin, ScrapeEnd, TypeOK
  <2>2. CASE RpcThread(s)
    BY <2>2 DEF RpcThread, RpcTop, RpcTimeout, RpcMaskedBegin, RpcMaskedEnd, RpcShutdown,
                RpcJoined, RpcStep, End, TypeOK
  <2>. QED BY <1>5, <2>1, <2>2 DEF Readers
<1>6. ASSUME NEW s \in Streams, Network(s)
      PROVE  /\ UNCHANGED <<dedisp, rpc, prom>>
             /\ \A r \in Streams : stream[r] = "ended" => stream'[r] = "ended"
  BY <1>6 DEF Network, L0Ends, StreamThreadsExit, End, TypeOK
<1>. QED BY <1>1, <1>2, <1>3, <1>4, <1>5, <1>6, Cases

\* main moves on alone, and it alone closes the devices.
LEMMA MainFrame ==
    ASSUME [Next]_vars
    PROVE  MainBuilds \/ MainJoins \/ UNCHANGED <<mainPc, i, devicesOpen>>
<1>1. ASSUME NEW b \in Beams, Dedispersion(b)
      PROVE  UNCHANGED <<mainPc, i, devicesOpen>>
  BY <1>1 DEF Dedispersion, DedispersionThread, StartsUp, PutMaskCounter, SetBonsai,
              PipelineEnds, DedispersionExit, DedispersionFails, L1bExits
<1>2. ASSUME NEW s \in Streams, Readers(s) \/ Network(s)
      PROVE  UNCHANGED <<mainPc, i, devicesOpen>>
  BY <1>2 DEF Readers, ScrapeBegin, ScrapeEnd, RpcThread, RpcTop, RpcTimeout,
              RpcMaskedBegin, RpcMaskedEnd, RpcShutdown, RpcJoined, RpcStep,
              Network, L0Ends, StreamThreadsExit
<1>. QED BY <1>1, <1>2, Cases DEF vars

\* A dedispersion thread is past its pipeline once its stream has ended, and
\* exits once its L1b child has.
LEMMA ExitedStep ==
    ASSUME TypeOK, JoinedInv, [Next]_vars
    PROVE  /\ ~HasL1b => l1b' = {}
           /\ \A b \in Beams :
                /\ dedisp'[b] \in {"waitL1b", "exited"} => stream'[StreamOf(b)] = "ended"
                /\ dedisp'[b] = "exited" => b \notin l1b'
<1> USE DEF JoinedInv
<1>1. \A b \in Beams : StreamOf(b) \in Streams
  BY StreamOfBeam
<1>2. \A s \in Streams : stream[s] = "ended" => stream'[s] = "ended"
  BY Lasting
<1>3. CASE UNCHANGED vars \/ MainJoins \/ (\E s \in Streams : Readers(s) \/ Network(s))
  <2>1. UNCHANGED <<dedisp, l1b>>
    BY <1>3 DEF vars, MainJoins, MainJoinDedispersion, MainEndDevices, MainShutdownRpc,
         MainJoinStream, MainJoinRpc, MainResetPrometheus,
         Readers, ScrapeBegin, ScrapeEnd, RpcThread, RpcTop, RpcTimeout,
         RpcMaskedBegin, RpcMaskedEnd, RpcShutdown, RpcJoined, RpcStep,
         Network, L0Ends, StreamThreadsExit
  <2>. QED BY <1>1, <1>2, <2>1
<1>4. CASE MainBuilds
  <2>1. /\ l1b' = l1b
        /\ \A b \in Beams : dedisp'[b] \in {dedisp[b], "starting", "running"}
    BY <1>4 DEF MainBuilds, MainPrometheus, MainSpawn, MainPollBonsai, MainWaitBonsai,
         MainMakeRpc, vars, TypeOK
  <2>. QED BY <1>1, <1>2, <2>1
<1>5. ASSUME NEW c \in Beams, Dedispersion(c)
      PROVE  /\ l1b' \subseteq l1b
             /\ \A b \in Beams :
                  /\ dedisp'[b] \in {dedisp[b], "running", "waitL1b", "exited"}
                  /\ dedisp'[b] \in {"waitL1b", "exited"} =>
                       dedisp[b] = dedisp'[b] \/ stream[StreamOf(b)] = "ended"
                  /\ dedisp'[b] = "exited" => dedisp[b] = "exited" \/ b \notin l1b
  <2>1. l1b \subseteq Beams /\ dedisp \in [Beams -> {"none", "starting", "running", "waitL1b", "exited"}]
    BY DEF TypeOK
  <2>2. CASE StartsUp(c) \/ DedispersionFails(c) \/ L1bExits(c)
    BY <2>1, <2>2 DEF StartsUp, PutMaskCounter, SetBonsai, DedispersionFails, L1bExits
  <2>3. CASE PipelineEnds(c)
    <3>1. ~HasL1b => c \notin l1b
      OBVIOUS
    <3>. QED BY <2>1, <2>3, <3>1 DEF PipelineEnds
  <2>4. CASE DedispersionExit(c)
    <3>1. stream[StreamOf(c)] = "ended"
      BY <2>4 DEF DedispersionExit
    <3>. QED BY <2>1, <2>4, <3>1 DEF DedispersionExit
  <2>. QED BY <1>5, <2>2, <2>3, <2>4 DEF Dedispersion, DedispersionThread
<1>. QED BY <1>1, <1>2, <1>3, <1>4, <1>5, Cases

LEMMA JoinedStep == TypeOK /\ JoinedInv /\ [Next]_vars => JoinedInv'
<1> SUFFICES ASSUME TypeOK, JoinedInv, [Next]_vars PROVE JoinedInv'
  OBVIOUS
<1> USE DEF Late
<1>1. /\ ~HasL1b => l1b' = {}
      /\ \A b \in Beams :
           /\ dedisp'[b] \in {"waitL1b", "exited"} => stream'[StreamOf(b)] = "ended"
           /\ dedisp'[b] = "exited" => b \notin l1b'
  BY ExitedStep
<1>2. /\ mainPc # "spawn" => \A b \in Beams : dedisp[b] = "exited" => dedisp'[b] = "exited"
      /\ mainPc # "makeRpc" => \A s \in Streams : rpc[s] = "exited" => rpc'[s] = "exited"
      /\ mainPc # "prometheus" =>
           \A s \in Streams : prom[s] \in {"none", "closed"} => prom'[s] \in {"none", "closed"}
  BY Lasting DEF MainSpawn, MainMakeRpc, MainPrometheus
<1>3. i \in Int /\ \A b \in Beams : b \in Int /\ b \in 0 .. Cardinality(Beams) - 1
  BY Sizes, NumBeams DEF TypeOK, Beams
<1>4. \A s \in Streams : s \in Int /\ s \in 0 .. NumStreams - 1
  BY Sizes DEF Streams
<1>5. CASE UNCHANGED <<mainPc, i, devicesOpen>>
  BY <1>1, <1>2, <1>5 DEF JoinedInv
<1>6. CASE MainBuilds
  <2>1. /\ mainPc \in {"prometheus", "spawn", "waitBonsai", "makeRpc"}
        /\ devicesOpen' = devicesOpen
    BY <1>6 DEF MainBuilds, MainPrometheus, MainSpawn, MainPollBonsai, MainWaitBonsai,
                MainMakeRpc, vars
  <2>2. \/ mainPc' \in {"prometheus", "spawn", "waitBonsai", "makeRpc"}
        \/ mainPc' = "joinDedispersion" /\ i' = 0
    BY <1>6, Loop DEF MainBuilds, MainPrometheus, MainSpawn, MainPollBonsai,
                MainWaitBonsai, MainMakeRpc, vars, TypeOK
  <2>3. devicesOpen'
    BY <2>1 DEF JoinedInv, TypeOK
  <2>. QED BY <1>1, <1>3, <2>2, <2>3 DEF JoinedInv
<1>7. CASE MainJoins
  <2>1. CASE MainJoinDedispersion
    <3>1. /\ mainPc = "joinDedispersion" /\ dedisp[i] = "exited"
          /\ UNCHANGED <<devicesOpen, rpc, prom>>
          /\ LoopTo("joinDedispersion", Cardinality(Beams), "devices")
      BY <2>1 DEF MainJoinDedispersion
    <3>2. \/ mainPc' = "joinDedispersion" /\ i' = i + 1
          \/ mainPc' = "devices" /\ \A k \in 0 .. Cardinality(Beams) - 1 : k < i + 1
      BY <3>1, Loop DEF TypeOK
    <3>3. \A b \in Beams : b < i + 1 => dedisp'[b] = "exited"
      <4>1. \A b \in Beams : b < i + 1 => b = i \/ b < i
        BY <1>3
      <4>. QED BY <1>2, <3>1, <4>1 DEF JoinedInv
    <3>4. devicesOpen'
      BY <3>1 DEF JoinedInv
    <3>5. CASE mainPc' = "joinDedispersion"
      BY <1>1, <3>2, <3>3, <3>4, <3>5 DEF JoinedInv
    <3>6. CASE mainPc' = "devices"
      <4>1. \A b \in Beams : dedisp'[b] = "exited"
        BY <1>3, <3>2, <3>3, <3>6
      <4>. QED BY <1>1, <3>4, <3>6, <4>1 DEF JoinedInv
    <3>. QED BY <3>2, <3>5, <3>6
  <2>2. CASE MainEndDevices
    <3>1. mainPc = "devices" /\ mainPc' = "shutdownRpc"
      BY <2>2 DEF MainEndDevices
    <3>. QED BY <1>1, <1>2, <3>1 DEF JoinedInv
  <2>3. CASE MainShutdownRpc
    <3>1. mainPc = "shutdownRpc" /\ mainPc' = "joinStream" /\ devicesOpen' = devicesOpen
      BY <2>3 DEF MainShutdownRpc
    <3>. QED BY <1>1, <1>2, <3>1 DEF JoinedInv
  <2>4. CASE MainJoinStream
    <3>1. mainPc = "joinStream" /\ devicesOpen' = devicesOpen
      BY <2>4 DEF MainJoinStream
    <3>2. mainPc' = "shutdownRpc" \/ (mainPc' = "joinRpc" /\ i' = 0)
      BY <2>4, Loop DEF MainJoinStream, TypeOK
    <3>3. \A s \in Streams : ~(s < 0)
      BY <1>4
    <3>. QED BY <1>1, <1>2, <3>1, <3>2, <3>3 DEF JoinedInv
  <2>5. CASE MainJoinRpc
    <3>1. /\ mainPc = "joinRpc" /\ rpc[i] = "exited"
          /\ UNCHANGED <<devicesOpen, rpc>>
          /\ LoopTo("joinRpc", NumStreams, "resetPrometheus")
      BY <2>5 DEF MainJoinRpc
    <3>2. \/ mainPc' = "joinRpc" /\ i' = i + 1
          \/ /\ mainPc' = "resetPrometheus" /\ i' = 0
             /\ \A k \in 0 .. NumStreams - 1 : k < i + 1
      BY <3>1, Loop DEF TypeOK
    <3>3. \A s \in Streams : s < i + 1 => rpc'[s] = "exited"
      <4>1. \A s \in Streams : s < i + 1 => s = i \/ s < i
        BY <1>3, <1>4
      <4>. QED BY <3>1, <4>1 DEF JoinedInv
    <3>4. \A b \in Beams : dedisp'[b] = "exited"
      BY <1>2, <3>1 DEF JoinedInv
    <3>5. CASE mainPc' = "joinRpc"
      BY <1>1, <3>2, <3>3, <3>4, <3>5 DEF JoinedInv
    <3>6. CASE mainPc' = "resetPrometheus"
      <4>1. \A s \in Streams : rpc'[s] = "exited" /\ ~(s < 0)
        BY <1>4, <3>2, <3>3, <3>6
      <4>. QED BY <1>1, <3>2, <3>4, <3>6, <4>1 DEF JoinedInv
    <3>. QED BY <3>2, <3>5, <3>6
  <2>6. CASE MainResetPrometheus
    <3>1. /\ mainPc = "resetPrometheus" /\ prom[i] # "scraping"
          /\ prom' = [prom EXCEPT ![i] = IF @ = "idle" THEN "closed" ELSE @]
          /\ UNCHANGED <<devicesOpen, rpc>>
          /\ LoopTo("resetPrometheus", NumStreams, "done")
      BY <2>6 DEF MainResetPrometheus
    <3>2. \/ mainPc' = "resetPrometheus" /\ i' = i + 1
          \/ mainPc' = "done" /\ \A k \in 0 .. NumStreams - 1 : k < i + 1
      BY <3>1, Loop DEF TypeOK
    <3>3. \A s \in Streams : s < i + 1 => prom'[s] \in {"none", "closed"}
      <4>1. \A s \in Streams : s < i + 1 => s = i \/ s < i
        BY <1>3, <1>4
      <4>2. i \in Streams => prom'[i] \in {"none", "closed"}
        BY <3>1 DEF TypeOK
      <4>. QED BY <1>2, <3>1, <4>1, <4>2 DEF JoinedInv
    <3>4. /\ \A b \in Beams : dedisp'[b] = "exited"
          /\ \A s \in Streams : rpc'[s] = "exited"
      BY <1>2, <3>1 DEF JoinedInv
    <3>5. CASE mainPc' = "resetPrometheus"
      BY <1>1, <3>2, <3>3, <3>4, <3>5 DEF JoinedInv
    <3>6. CASE mainPc' = "done"
      <4>1. \A s \in Streams : prom'[s] \in {"none", "closed"}
        BY <1>4, <3>2, <3>3, <3>6
      <4>. QED BY <1>1, <3>4, <3>6, <4>1 DEF JoinedInv
    <3>. QED BY <3>2, <3>5, <3>6
  <2>. QED BY <1>7, <2>1, <2>2, <2>3, <2>4, <2>5, <2>6 DEF MainJoins
<1>. QED BY <1>5, <1>6, <1>7, MainFrame

-----------------------------------------------------------------------------
(* The theorems.                                                           *)

\* The invariant that the properties follow from.
THEOREM Safety == Spec => []IInv
<1>1. Init => IInv
  BY InitInv
<1>2. IInv /\ [Next]_vars => IInv'
  BY TypeStep, AnnounceStep, CapturedStep, JoinedStep DEF IInv
<1>. QED BY <1>1, <1>2, PTL DEF Spec

\* The types of the state of main and of the threads it starts.
THEOREM TypeCorrect == Spec => []TypeOK
<1>1. IInv => TypeOK
  BY DEF IInv
<1>. QED BY <1>1, Safety, PTL

\* An RPC server, however many streams and beams there are, holds the
\* dedispersers and mask counters of its stream (ch-frb-l1.cpp:1368-1402).
THEOREM ServersSeeTheirStream == Spec => []RpcSeesWholeStream
<1>1. IInv => RpcSeesWholeStream
  <2> SUFFICES ASSUME IInv, NEW s \in Streams, rpc[s] # "none"
               PROVE  /\ captured[s] = {b \in Beams : StreamOf(b) = s}
                      /\ maskMap[s] = {e \in Beams \X CounterNames :
                           StreamOf(e[1]) = s /\ e[2] \in Counters[e[1]]}
    BY DEF RpcSeesWholeStream
  <2>1. bonsai = Beams /\ captured[s] = {b \in Beams : StreamOf(b) = s}
    BY DEF IInv, CapturedInv
  <2>2. \A e \in Beams \X CounterNames : toPut[e[1]] = {}
    BY <2>1 DEF IInv, AnnounceInv
  <2>. QED BY <2>1, <2>2 DEF IInv, AnnounceInv
<1>. QED BY <1>1, Safety, PTL

\* The output devices are closed after the last stream and the last
\* dedispersion thread (ch-frb-l1.cpp:1490-1498).
THEOREM StreamsEndFirst == Spec => []DevicesOutliveStreams
<1>1. IInv => DevicesOutliveStreams
  <2>1. IInv /\ ~devicesOpen =>
          \A b \in Beams : dedisp[b] = "exited" /\ stream[StreamOf(b)] = "ended"
    BY DEF IInv, JoinedInv
  <2>. QED BY <2>1, BeamsOfStream DEF DevicesOutliveStreams
<1>. QED BY <1>1, Safety, PTL

\* main returns when all threads and L1b children have (ch-frb-l1.cpp:920-927,
\* 1488-1510).
THEOREM MainIsLast == Spec => []AllThreadsJoined
<1>1. IInv => AllThreadsJoined
  BY DEF IInv, TypeOK, JoinedInv, AllThreadsJoined, Late
<1>. QED BY <1>1, Safety, PTL

\* No thread adds to a mask map that an RPC thread walks (mask_stats.hpp:31-37).
THEOREM WalkedMapsStay == Spec => RpcReadsFrozenMap
<1>1. IInv /\ [Next]_vars
        => [\A s \in Streams : rpc[s] = "iterating" => UNCHANGED maskMap[s]]_vars
  <2> SUFFICES ASSUME IInv, [Next]_vars, NEW s \in Streams, rpc[s] = "iterating"
               PROVE  maskMap'[s] = maskMap[s]
    OBVIOUS
  <2>1. \A b \in Beams : toPut[b] = {}
    BY DEF IInv, CapturedInv, AnnounceInv
  <2>2. ASSUME NEW b \in Beams
        PROVE  /\ SetBonsai(b) => maskMap' = maskMap
               /\ \A k \in CounterNames : ~PutMaskCounter(b, k)
    BY <2>1 DEF SetBonsai, PutMaskCounter
  <2>. QED BY <2>2, AnnounceFrame
<1>. QED BY <1>1, Safety, PTL DEF Spec, RpcReadsFrozenMap

-----------------------------------------------------------------------------
(* Waiting, at startup and at shutdown.                                    *)

OverStreams == {"prometheus", "makeRpc", "shutdownRpc", "joinStream", "joinRpc",
                "resetPrometheus"}

Started == {"waitBonsai", "makeRpc", "joinDedispersion"} \cup Late

Serving == {"joinDedispersion"} \cup Late

\* What main has started, told to stop, and how far its loops are.
ProgressInv ==
    /\ mainPc \in OverStreams => i \in Streams
    /\ mainPc \in {"waitBonsai", "devices"} => i = 0
    /\ mainPc = "prometheus" => \A b \in Beams : dedisp[b] = "none"
    /\ mainPc = "spawn" => \A b \in Beams : dedisp[b] = "none" <=> b >= i
    /\ mainPc \in Started => \A b \in Beams : dedisp[b] # "none"
    /\ \A b \in Beams :
         /\ ~Toy => (dedisp[b] \in {"running", "waitL1b", "exited"} <=> b \in bonsai)
         /\ Toy  => dedisp[b] # "starting" /\ b \notin bonsai
    /\ mainPc \in BeforeRpc => \A s \in Streams : rpc[s] = "none"
    /\ mainPc = "makeRpc" => \A s \in Streams : rpc[s] # "none" <=> s < i
    /\ mainPc \in Serving => \A s \in Streams : rpc[s] # "none"
    /\ \A s \in Streams :
         /\ shutdown[s] => rpc[s] # "none" /\ stream[s] # "running"
         /\ mainPc = "shutdownRpc" /\ s < i => shutdown[s]
         /\ mainPc = "joinStream" /\ s <= i => shutdown[s]
         /\ mainPc \in {"joinRpc", "resetPrometheus", "done"} => shutdown[s]

\* What main needs to go on,
MainReady ==
    \/ mainPc \in {"prometheus", "spawn", "makeRpc", "devices", "shutdownRpc"}
    \/ mainPc = "waitBonsai" /\ bonsai = Beams
    \/ mainPc = "joinDedispersion" /\ dedisp[i] = "exited"
    \/ mainPc = "joinStream" /\ stream[i] = "ended"
    \/ mainPc = "joinRpc" /\ rpc[i] = "exited"
    \/ mainPc = "resetPrometheus" /\ prom[i] # "scraping"

\* and the threads that it waits for.
AwaitedReady ==
    \/ mainPc = "waitBonsai" /\ \E b \in Beams \ bonsai : dedisp[b] = "starting"
    \/ /\ mainPc = "joinDedispersion" /\ i \notin l1b
       /\ \/ dedisp[i] = "running" /\ stream[StreamOf(i)] \in {"ending", "ended"}
          \/ dedisp[i] = "waitL1b"
    \/ mainPc = "joinStream" /\ stream[i] = "ending"
    \/ /\ mainPc = "joinRpc" /\ shutdown[i]
       /\ rpc[i] \in {"top", "recv", "iterating"} \/ (rpc[i] = "joining" /\ stream[i] = "ended")
    \/ mainPc = "resetPrometheus" /\ prom[i] = "scraping"

\* main waits for a stream to be over.
AwaitsStream ==
    /\ mainPc = "joinDedispersion" /\ dedisp[i] = "running"
    /\ stream[StreamOf(i)] = "running"

\* main waits for an L1b child: the thread that main is to join cannot exit
\* before it, and may be writing to its pipe.
AwaitsChild ==
    /\ mainPc = "joinDedispersion" /\ i \in l1b
    /\ dedisp[i] \in {"running", "waitL1b"} /\ stream[StreamOf(i)] # "running"

NoVainWait ==
    ~Toy /\ mainPc # "done" => MainReady \/ AwaitedReady \/ AwaitsStream \/ AwaitsChild

ToyServesNobody ==
    Toy => mainPc \in BeforeRpc /\ bonsai = {} /\ \A s \in Streams : rpc[s] = "none"

LEMMA InitProgress == Init => ProgressInv
<1> SUFFICES ASSUME Init PROVE ProgressInv
  OBVIOUS
<1>1. 0 \in Streams
  BY Sizes DEF Streams
<1>. QED BY <1>1 DEF Init, ProgressInv, OverStreams, Started, Serving, BeforeRpc, Late

\* The loop over the streams ends with the last of them.
LEMMA StreamLoop ==
    ASSUME i \in Streams, NEW pc, NEW next, pc # next, LoopTo(pc, NumStreams, next)
    PROVE  \/ mainPc' = pc /\ i' = i + 1 /\ i' \in Streams
           \/ mainPc' = next /\ i' = 0 /\ \A s \in Streams : s < i + 1
BY Sizes DEF LoopTo, Streams

LEMMA BeamLoop ==
    ASSUME i \in Beams, NEW pc, NEW next, pc # next, LoopTo(pc, Cardinality(Beams), next)
    PROVE  \/ mainPc' = pc /\ i' = i + 1
           \/ mainPc' = next /\ i' = 0 /\ \A b \in Beams : b < i + 1
BY Sizes, NumBeams DEF LoopTo, Beams

LEMMA MainProgress ==
    ASSUME TypeOK, CapturedInv, JoinedInv, ProgressInv, MainThread
    PROVE  ProgressInv'
<1> USE DEF OverStreams, Started, Serving, BeforeRpc, Late
<1>1. /\ i \in Beams /\ 0 \in Streams
      /\ rpc \in [Streams -> {"none", "top", "recv", "iterating", "joining", "exited"}]
      /\ dedisp \in [Beams -> {"none", "starting", "running", "waitL1b", "exited"}]
      /\ shutdown \in [Streams -> BOOLEAN]
      /\ stream \in [Streams -> {"running", "ending", "ended"}]
      /\ Toy \in BOOLEAN
  BY Sizes, L1ServerAssumption DEF TypeOK, Streams
<1>2. (\A b \in Beams : b \in Int) /\ (\A s \in Streams : s \in Int)
  BY Sizes DEF Beams, Streams
<1>3. CASE MainPrometheus
  <2>1. \/ mainPc' = "prometheus" /\ i' = i + 1 /\ i' \in Streams
        \/ mainPc' = "spawn" /\ i' = 0 /\ \A s \in Streams : s < i + 1
    BY <1>3, StreamLoop DEF MainPrometheus, ProgressInv
  <2>2. \A b \in Beams : b >= 0
    BY Sizes DEF Beams
  <2>. QED BY <1>1, <1>3, <2>1, <2>2 DEF MainPrometheus, ProgressInv
<1>4. CASE MainSpawn
  <2>1. \/ mainPc' = "spawn" /\ i' = i + 1
        \/ mainPc' = "waitBonsai" /\ i' = 0 /\ \A b \in Beams : b < i + 1
    BY <1>1, <1>4, BeamLoop DEF MainSpawn
  <2>. QED BY <1>1, <1>2, <1>4, <2>1 DEF MainSpawn, ProgressInv
<1>5. CASE MainPollBonsai
  BY <1>5 DEF MainPollBonsai, vars, ProgressInv
<1>6. CASE MainWaitBonsai
  BY <1>1, <1>2, <1>6 DEF MainWaitBonsai, ProgressInv, Streams
<1>7. CASE MainMakeRpc
  <2>1. \/ mainPc' = "makeRpc" /\ i' = i + 1 /\ i' \in Streams
        \/ mainPc' = "joinDedispersion" /\ i' = 0 /\ \A s \in Streams : s < i + 1
    BY <1>7, StreamLoop DEF MainMakeRpc, ProgressInv
  <2>. QED BY <1>1, <1>2, <1>7, <2>1 DEF MainMakeRpc, ProgressInv
<1>8. CASE MainJoinDedispersion
  <2>1. \/ mainPc' = "joinDedispersion" /\ i' = i + 1
        \/ mainPc' = "devices" /\ i' = 0
    BY <1>1, <1>8, BeamLoop DEF MainJoinDedispersion
  <2>. QED BY <1>1, <1>8, <2>1 DEF MainJoinDedispersion, ProgressInv
<1>9. CASE MainEndDevices
  BY <1>1, <1>2, <1>9 DEF MainEndDevices, ProgressInv, Streams
<1>10. CASE MainShutdownRpc
  BY <1>1, <1>2, <1>10 DEF MainShutdownRpc, End, ProgressInv
<1>11. CASE MainJoinStream
  <2>1. \/ mainPc' = "shutdownRpc" /\ i' = i + 1 /\ i' \in Streams
        \/ mainPc' = "joinRpc" /\ i' = 0 /\ \A s \in Streams : s < i + 1
    BY <1>11, StreamLoop DEF MainJoinStream, ProgressInv
  <2>. QED BY <1>1, <1>2, <1>11, <2>1 DEF MainJoinStream, ProgressInv
<1>12. CASE MainJoinRpc
  <2>1. \/ mainPc' = "joinRpc" /\ i' = i + 1 /\ i' \in Streams
        \/ mainPc' = "resetPrometheus" /\ i' = 0 /\ \A s \in Streams : s < i + 1
    BY <1>12, StreamLoop DEF MainJoinRpc, ProgressInv
  <2>. QED BY <1>1, <1>2, <1>12, <2>1 DEF MainJoinRpc, ProgressInv
<1>13. CASE MainResetPrometheus
  <2>1. \/ mainPc' = "resetPrometheus" /\ i' = i + 1 /\ i' \in Streams
        \/ mainPc' = "done" /\ i' = 0 /\ \A s \in Streams : s < i + 1
    BY <1>13, StreamLoop DEF MainResetPrometheus, ProgressInv
  <2>. QED BY <1>1, <1>2, <1>13, <2>1 DEF MainResetPrometheus, ProgressInv
<1>. QED
  BY <1>3, <1>4, <1>5, <1>6, <1>7, <1>8, <1>9, <1>10, <1>11, <1>12, <1>13 DEF MainThread

LEMMA ProgressStep ==
    ASSUME TypeOK, CapturedInv, JoinedInv, ProgressInv, [Next]_vars
    PROVE  ProgressInv'
<1>1. /\ rpc \in [Streams -> {"none", "top", "recv", "iterating", "joining", "exited"}]
      /\ dedisp \in [Beams -> {"none", "starting", "running", "waitL1b", "exited"}]
      /\ shutdown \in [Streams -> BOOLEAN]
      /\ stream \in [Streams -> {"running", "ending", "ended"}]
      /\ Toy \in BOOLEAN /\ bonsai \subseteq Beams
  BY L1ServerAssumption DEF TypeOK
<1>2. CASE UNCHANGED vars
  BY <1>2 DEF vars, ProgressInv
<1>3. CASE MainThread
  BY <1>3, MainProgress
<1>4. ASSUME NEW b \in Beams, Dedispersion(b) PROVE ProgressInv'
  <2>1. CASE (\E k \in CounterNames : PutMaskCounter(b, k)) \/ DedispersionFails(b)
    BY <2>1 DEF PutMaskCounter, DedispersionFails, ProgressInv
  <2>2. CASE SetBonsai(b)
    BY <1>1, <2>2 DEF SetBonsai, ProgressInv
  <2>3. CASE PipelineEnds(b) \/ DedispersionExit(b) \/ L1bExits(b)
    BY <1>1, <2>3 DEF PipelineEnds, DedispersionExit, L1bExits, ProgressInv
  <2>. QED BY <1>4, <2>1, <2>2, <2>3 DEF Dedispersion, DedispersionThread, StartsUp
<1>5. ASSUME NEW s \in Streams, ScrapeBegin(s) \/ ScrapeEnd(s) PROVE ProgressInv'
  BY <1>5 DEF ScrapeBegin, ScrapeEnd, ProgressInv
<1>6. ASSUME NEW s \in Streams, RpcThread(s) PROVE ProgressInv'
  <2>1. /\ UNCHANGED <<mainPc, i, dedisp, bonsai>>
        /\ rpc[s] # "none"
        /\ \E to \in {"top", "recv", "iterating", "joining", "exited"} :
             rpc' = [rpc EXCEPT ![s] = to]
        /\ \/ UNCHANGED <<shutdown, stream>>
           \/ shutdown' = [shutdown EXCEPT ![s] = TRUE] /\ End(s)
    BY <1>6 DEF RpcThread, RpcTop, RpcTimeout, RpcMaskedBegin, RpcMaskedEnd, RpcShutdown,
       RpcJoined, RpcStep
  <2>2. \A r \in Streams : rpc'[r] # "none" <=> rpc[r] # "none"
    BY <1>1, <2>1
  <2>3. \A r \in Streams :
          /\ shutdown[r] => shutdown'[r]
          /\ stream[r] # "running" => stream'[r] # "running"
          /\ shutdown'[r] => shutdown[r] \/ (r = s /\ stream'[r] # "running")
    BY <1>1, <2>1 DEF End
  <2>. QED BY <2>1, <2>2, <2>3 DEF ProgressInv
<1>7. ASSUME NEW s \in Streams, Network(s) PROVE ProgressInv'
  BY <1>1, <1>7 DEF Network, L0Ends, StreamThreadsExit, End, ProgressInv
<1>. QED
  BY <1>2, <1>3, <1>4, <1>5, <1>6, <1>7, Cases
     DEF MainBuilds, MainJoins, MainThread, Readers

LEMMA ProgressHolds == Spec => []ProgressInv
<1>1. Init => ProgressInv
  BY InitProgress
<1>2. IInv /\ ProgressInv /\ [Next]_vars => ProgressInv'
  BY ProgressStep DEF IInv
<1>. QED BY <1>1, <1>2, Safety, PTL DEF Spec

\* However many streams and threads there are, they never wait for each other
\* in a circle: main can go on, or the thread it waits for can, or it waits for
\* one of the two things outside the process, a stream that nobody has ended or
\* an L1b child that has not exited (ch-frb-l1.cpp:920-927, 1368-1402,
\* 1482-1510).  Nothing limits either wait.
THEOREM NobodyWaitsInVain == Spec => []NoVainWait
<1>1. IInv /\ ProgressInv => NoVainWait
  <2> SUFFICES ASSUME IInv, ProgressInv, ~Toy, mainPc # "done", ~MainReady, ~AwaitsStream,
                      ~AwaitsChild
               PROVE  AwaitedReady
    BY DEF NoVainWait
  <2> USE DEF OverStreams, Started, Serving, Late
  <2>1. /\ mainPc \in {"waitBonsai", "joinDedispersion", "joinStream", "joinRpc",
                       "resetPrometheus"}
        /\ i \in Beams /\ bonsai \subseteq Beams
        /\ rpc \in [Streams -> {"none", "top", "recv", "iterating", "joining", "exited"}]
        /\ dedisp \in [Beams -> {"none", "starting", "running", "waitL1b", "exited"}]
        /\ shutdown \in [Streams -> BOOLEAN]
        /\ stream \in [Streams -> {"running", "ending", "ended"}]
        /\ prom \in [Streams -> {"none", "idle", "scraping", "closed"}]
    BY DEF IInv, TypeOK, MainReady
  <2>2. CASE mainPc = "waitBonsai"
    <3>1. PICK b \in Beams : b \notin bonsai
      BY <2>1, <2>2 DEF MainReady
    <3>2. dedisp[b] = "starting"
      BY <2>1, <2>2, <3>1 DEF ProgressInv
    <3>. QED BY <2>2, <3>1, <3>2 DEF AwaitedReady
  <2>3. CASE mainPc = "joinDedispersion"
    <3>1. i \in bonsai
      BY <2>1, <2>3 DEF IInv, CapturedInv, BeforeRpc
    <3>2. dedisp[i] \in {"running", "waitL1b"} /\ StreamOf(i) \in Streams
      BY <2>1, <2>3, <3>1, StreamOfBeam DEF ProgressInv, MainReady
    <3>3. dedisp[i] = "waitL1b" => stream[StreamOf(i)] = "ended"
      BY <2>1 DEF IInv, JoinedInv
    <3>. QED BY <2>1, <2>3, <3>2, <3>3 DEF AwaitedReady, AwaitsStream, AwaitsChild
  <2>4. CASE mainPc = "joinStream"
    <3>1. i \in Streams /\ i <= i
      BY <2>4, Sizes DEF ProgressInv, Streams
    <3>2. stream[i] # "running"
      BY <2>4, <3>1 DEF ProgressInv
    <3>. QED BY <2>1, <2>4, <3>1, <3>2 DEF AwaitedReady, MainReady
  <2>5. CASE mainPc = "joinRpc"
    <3>1. i \in Streams /\ shutdown[i] /\ rpc[i] # "none" /\ rpc[i] # "exited"
      BY <2>1, <2>5 DEF ProgressInv, MainReady
    <3>2. stream[i] = "ended"
      <4>1. PICK b \in Beams : StreamOf(b) = i
        BY <3>1, BeamsOfStream
      <4>2. dedisp[b] = "exited"
        BY <2>5, <4>1 DEF IInv, JoinedInv
      <4>. QED BY <4>1, <4>2 DEF IInv, JoinedInv
    <3>. QED BY <2>1, <2>5, <3>1, <3>2 DEF AwaitedReady
  <2>6. CASE mainPc = "resetPrometheus"
    BY <2>6 DEF AwaitedReady, MainReady
  <2>. QED BY <2>1, <2>2, <2>3, <2>4, <2>5, <2>6
<1>. QED BY <1>1, Safety, ProgressHolds, PTL

\* With the -t flag no thread announces a dedisperser, and main waits for them
\* for good: there is never an RPC server (ch-frb-l1.cpp:932, 1368-1376).
THEOREM ToyNeverServes == Spec => []ToyServesNobody
<1>1. IInv /\ ProgressInv => ToyServesNobody
  <2> SUFFICES ASSUME IInv, ProgressInv, Toy PROVE ToyServesNobody
    BY DEF ToyServesNobody
  <2>1. bonsai = {} /\ bonsai # Beams
    <3>1. 0 \in Beams
      BY Sizes DEF Beams
    <3>. QED BY <3>1 DEF IInv, TypeOK, ProgressInv
  <2>. QED BY <2>1 DEF IInv, CapturedInv, ToyServesNobody
<1>. QED BY <1>1, Safety, ProgressHolds, PTL

-----------------------------------------------------------------------------
(* How far main and the threads are.                                       *)

Phase == [prometheus |-> 0, spawn |-> 1, waitBonsai |-> 2, makeRpc |-> 3,
          joinDedispersion |-> 4, devices |-> 5, shutdownRpc |-> 6, joinStream |-> 6,
          joinRpc |-> 7, resetPrometheus |-> 8, done |-> 9]

NumberOfBeams == NumStreams * BeamsPerStream

At(pc, k) == 2 * (NumberOfBeams * Phase[pc] + k) + IF pc = "joinStream" THEN 1 ELSE 0

MainAt == At(mainPc, i)

DedispersionRank == [none |-> 0, starting |-> 1, running |-> 2, waitL1b |-> 3, exited |-> 4]
StreamRank       == [running |-> 0, ending |-> 1, ended |-> 2]
RpcRank          == [none |-> 0, recv |-> 1, iterating |-> 2, joining |-> 2, top |-> 3,
                     exited |-> 4]

\* A server that has been told to shut down only finishes what it is doing.
RpcAt(s) == IF shutdown[s] THEN RpcRank[rpc[s]] ELSE 0

NoneGoesBack ==
    /\ MainAt <= MainAt'
    /\ \A b \in Beams :
         /\ DedispersionRank[dedisp[b]] <= DedispersionRank[dedisp'[b]]
         /\ toPut'[b] \subseteq toPut[b]
    /\ \A s \in Streams :
         /\ StreamRank[stream[s]] <= StreamRank[stream'[s]]
         /\ RpcAt(s) <= RpcAt(s)'

StepsLead ==
    /\ MainThread => MainAt < MainAt'
    /\ \A b \in Beams : DedispersionThread(b) =>
         \/ DedispersionRank[dedisp[b]] < DedispersionRank[dedisp'[b]]
         \/ toPut'[b] # toPut[b]
    /\ \A s \in Streams :
         /\ RpcThread(s) /\ shutdown[s] => RpcAt(s) < RpcAt(s)'
         /\ L0Ends(s) \/ StreamThreadsExit(s) => StreamRank[stream[s]] < StreamRank[stream'[s]]

LEMMA Ranks ==
    /\ DedispersionRank["none"] = 0 /\ DedispersionRank["starting"] = 1
    /\ DedispersionRank["running"] = 2 /\ DedispersionRank["waitL1b"] = 3
    /\ DedispersionRank["exited"] = 4
    /\ StreamRank["running"] = 0 /\ StreamRank["ending"] = 1 /\ StreamRank["ended"] = 2
    /\ RpcRank["none"] = 0 /\ RpcRank["recv"] = 1 /\ RpcRank["iterating"] = 2
    /\ RpcRank["joining"] = 2 /\ RpcRank["top"] = 3 /\ RpcRank["exited"] = 4
BY DEF DedispersionRank, StreamRank, RpcRank

LEMMA Phases ==
    /\ Phase["prometheus"] = 0 /\ Phase["spawn"] = 1 /\ Phase["waitBonsai"] = 2
    /\ Phase["makeRpc"] = 3 /\ Phase["joinDedispersion"] = 4 /\ Phase["devices"] = 5
    /\ Phase["shutdownRpc"] = 6 /\ Phase["joinStream"] = 6 /\ Phase["joinRpc"] = 7
    /\ Phase["resetPrometheus"] = 8 /\ Phase["done"] = 9
BY DEF Phase

LEMMA AtRange ==
    ASSUME NEW pc, Phase[pc] \in 0 .. 9, NEW k \in Beams
    PROVE  At(pc, k) \in Nat /\ At(pc, k) <= 20 * NumberOfBeams
<1> DEFINE B == NumberOfBeams
           m == Phase[pc]
           x == B * m
<1>1. B \in Nat /\ k \in Nat /\ k < B
  BY Sizes DEF Beams, NumberOfBeams
<1>2. x \in Nat /\ x <= 9 * B
  <2>1. m \in 0 .. 9
    OBVIOUS
  <2> HIDE DEF B, m
  <2>2. B * m <= B * 9
    BY <1>1, <2>1
  <2>. QED BY <1>1, <2>1, <2>2
<1>3. At(pc, k) = 2 * (x + k) + (IF pc = "joinStream" THEN 1 ELSE 0)
  BY DEF At
<1> HIDE DEF x, m, B
<1>4. 2 * (x + k) + (IF pc = "joinStream" THEN 1 ELSE 0) \in Nat
  BY <1>1, <1>2
<1>5. 2 * (x + k) + (IF pc = "joinStream" THEN 1 ELSE 0) <= 20 * B
  BY <1>1, <1>2
<1>. QED BY <1>3, <1>4, <1>5 DEF B

\* main from one place to a later one
LEMMA Later ==
    ASSUME NEW pc, Phase[pc] \in 0 .. 9, NEW j \in Beams,
           NEW qc, Phase[qc] \in 0 .. 9, NEW k \in Beams,
           \/ Phase[pc] < Phase[qc]
           \/ Phase[pc] = Phase[qc] /\ j < k
           \/ Phase[pc] = Phase[qc] /\ j = k /\ pc # "joinStream" /\ qc = "joinStream"
    PROVE  At(pc, j) < At(qc, k)
<1> DEFINE B == NumberOfBeams
           m == Phase[pc]
           n == Phase[qc]
           x == B * m
           y == B * n
<1>1. B \in Nat /\ j \in Nat /\ k \in Nat /\ j < B /\ k < B
  BY Sizes DEF Beams, NumberOfBeams
<1>2. m \in Nat /\ n \in Nat
  OBVIOUS
<1>3. x \in Nat /\ y \in Nat /\ (m < n => x + B <= y) /\ (m = n => x = y)
  <2> HIDE DEF B, m, n
  <2>1. x \in Nat /\ y \in Nat
    BY <1>1, <1>2
  <2>2. ASSUME m < n PROVE x + B <= y
    <3>1. B * (m + 1) <= B * n /\ B * (m + 1) = x + B
      BY <1>1, <1>2, <2>2
    <3>. QED BY <3>1
  <2>. QED BY <2>1, <2>2
<1>4. /\ At(pc, j) = 2 * (x + j) + (IF pc = "joinStream" THEN 1 ELSE 0)
      /\ At(qc, k) = 2 * (y + k) + (IF qc = "joinStream" THEN 1 ELSE 0)
  BY DEF At
<1>5. \/ m < n
      \/ m = n /\ j < k
      \/ m = n /\ j = k /\ pc # "joinStream" /\ qc = "joinStream"
  OBVIOUS
<1> HIDE DEF x, y, B, m, n
<1>. QED BY <1>1, <1>2, <1>3, <1>4, <1>5

LEMMA PhaseRange == TypeOK => Phase[mainPc] \in 0 .. 9 /\ i \in Beams
BY Phases DEF TypeOK

LEMMA MainAtRange == TypeOK => MainAt \in Nat /\ MainAt <= 20 * NumberOfBeams
BY PhaseRange, AtRange DEF MainAt

LEMMA MainLeads ==
    ASSUME TypeOK, TypeOK', ProgressInv, MainThread, ~UNCHANGED vars
    PROVE  MainAt < MainAt'
<1>1. i \in Beams /\ i' \in Beams /\ i \in Int
  BY Sizes DEF TypeOK, Beams
<1>2. ~MainPollBonsai
  BY DEF MainPollBonsai
<1> DEFINE On(pc, next) == mainPc = pc /\ \/ mainPc' = pc /\ i' = i + 1
                                          \/ mainPc' = next
<1>3. \/ On("prometheus", "spawn") \/ On("spawn", "waitBonsai")
      \/ On("makeRpc", "joinDedispersion") \/ On("joinDedispersion", "devices")
      \/ On("joinRpc", "resetPrometheus") \/ On("resetPrometheus", "done")
      \/ mainPc = "waitBonsai" /\ mainPc' = "makeRpc"
      \/ mainPc = "devices" /\ mainPc' = "shutdownRpc"
      \/ mainPc = "shutdownRpc" /\ mainPc' = "joinStream" /\ i' = i
      \/ mainPc = "joinStream" /\ mainPc' = "shutdownRpc" /\ i' = i + 1
      \/ mainPc = "joinStream" /\ mainPc' = "joinRpc"
  BY <1>2 DEF MainThread, MainPrometheus, MainSpawn, MainWaitBonsai, MainMakeRpc,
     MainJoinDedispersion, MainEndDevices, MainShutdownRpc, MainJoinStream, MainJoinRpc,
     MainResetPrometheus, LoopTo
<1>4. \/ Phase[mainPc] < Phase[mainPc']
      \/ Phase[mainPc] = Phase[mainPc'] /\ i < i'
      \/ Phase[mainPc] = Phase[mainPc'] /\ i = i' /\ mainPc # "joinStream" /\ mainPc' = "joinStream"
  BY <1>1, <1>3, Phases
<1>5. Phase[mainPc] \in 0 .. 9 /\ Phase[mainPc'] \in 0 .. 9
  BY Phases DEF TypeOK
<1>. QED BY <1>1, <1>4, <1>5, Later DEF MainAt

\* How a stream gets on, and what that is to its RPC server.
LEMMA EndLeads ==
    ASSUME TypeOK, NEW s \in Streams, End(s)
    PROVE  \A r \in Streams :
             /\ StreamRank[stream[r]] <= StreamRank[stream'[r]]
             /\ stream[s] = "running" => StreamRank[stream[s]] < StreamRank[stream'[s]]
BY Ranks DEF TypeOK, End

LEMMA StepLeads ==
    ASSUME TypeOK, TypeOK', ProgressInv, Next, ~UNCHANGED vars
    PROVE  NoneGoesBack /\ StepsLead
<1>1. /\ dedisp \in [Beams -> {"none", "starting", "running", "waitL1b", "exited"}]
      /\ toPut \in [Beams -> SUBSET CounterNames]
      /\ stream \in [Streams -> {"running", "ending", "ended"}]
      /\ rpc \in [Streams -> {"none", "top", "recv", "iterating", "joining", "exited"}]
      /\ shutdown \in [Streams -> BOOLEAN]
      /\ rpc' \in [Streams -> {"none", "top", "recv", "iterating", "joining", "exited"}]
  BY DEF TypeOK
<1>2. /\ \A b \in Beams : DedispersionRank[dedisp[b]] \in Nat
      /\ \A s \in Streams : StreamRank[stream[s]] \in Nat
      /\ \A s \in Streams : RpcRank[rpc[s]] \in 0 .. 4 /\ RpcRank[rpc'[s]] \in 0 .. 4
  BY <1>1, Ranks
<1>3. MainAt \in Nat /\ MainAt' \in Nat
  <2>1. Phase[mainPc'] \in 0 .. 9 /\ i' \in Beams
    BY Phases DEF TypeOK
  <2>2. MainAt' \in Nat
    BY <2>1, AtRange DEF MainAt
  <2>. QED BY <2>2, MainAtRange
<1>4. UNCHANGED <<mainPc, i>> => MainAt' = MainAt
  BY DEF MainAt
<1>5. UNCHANGED <<dedisp, toPut>> =>
        \A b \in Beams :
          /\ DedispersionRank[dedisp[b]] <= DedispersionRank[dedisp'[b]]
          /\ toPut'[b] \subseteq toPut[b]
  BY <1>2
<1>6. UNCHANGED stream =>
        \A s \in Streams : StreamRank[stream[s]] <= StreamRank[stream'[s]]
  BY <1>2
<1>7. UNCHANGED <<rpc, shutdown>> => \A s \in Streams : RpcAt(s) <= RpcAt(s)'
  BY <1>2 DEF RpcAt
<1>8. ASSUME MainThread PROVE NoneGoesBack /\ MainAt < MainAt'
  <2>1. MainAt < MainAt' /\ MainAt <= MainAt'
    <3>1. MainAt < MainAt'
      BY <1>8, MainLeads
    <3>. QED BY <1>3, <3>1
  <2>2. CASE MainSpawn
    <3>1. /\ UNCHANGED <<toPut, stream, rpc, shutdown>>
          /\ dedisp[i] = "none" /\ \E d \in {"starting", "running"} : dedisp' = [dedisp EXCEPT ![i] = d]
      <4>1. i <= i /\ i \in Beams
        BY Sizes DEF TypeOK, Beams
      <4>. QED BY <2>2, <4>1 DEF MainSpawn, ProgressInv
    <3>2. \A b \in Beams : DedispersionRank[dedisp[b]] <= DedispersionRank[dedisp'[b]]
      BY <1>1, <1>2, <3>1, Ranks
    <3>. QED BY <1>6, <1>7, <2>1, <3>1, <3>2 DEF NoneGoesBack
  <2>3. CASE MainMakeRpc
    <3>1. /\ UNCHANGED <<dedisp, toPut, stream, shutdown>>
          /\ i \in Streams /\ ~shutdown[i] /\ rpc' = [rpc EXCEPT ![i] = "top"]
      <4>1. i \in Streams /\ ~(i < i)
        BY <2>3, Sizes DEF MainMakeRpc, ProgressInv, OverStreams, Streams
      <4>. QED BY <2>3, <4>1 DEF MainMakeRpc, ProgressInv
    <3>2. \A s \in Streams : RpcAt(s) <= RpcAt(s)'
      BY <1>1, <1>2, <3>1 DEF RpcAt
    <3>. QED BY <1>5, <1>6, <2>1, <3>1, <3>2 DEF NoneGoesBack
  <2>4. CASE MainShutdownRpc
    <3>1. /\ UNCHANGED <<dedisp, toPut, rpc>>
          /\ i \in Streams /\ End(i) /\ shutdown' = [shutdown EXCEPT ![i] = TRUE]
      BY <2>4 DEF MainShutdownRpc, ProgressInv, OverStreams
    <3>2. \A s \in Streams : StreamRank[stream[s]] <= StreamRank[stream'[s]]
      BY <3>1, EndLeads
    <3>3. \A s \in Streams : RpcAt(s) <= RpcAt(s)'
      BY <1>1, <1>2, <3>1 DEF RpcAt
    <3>. QED BY <1>5, <2>1, <3>1, <3>2, <3>3 DEF NoneGoesBack
  <2>5. CASE UNCHANGED <<dedisp, toPut, stream, rpc, shutdown>>
    BY <1>5, <1>6, <1>7, <2>1, <2>5 DEF NoneGoesBack
  <2>. QED
    BY <1>8, <2>1, <2>2, <2>3, <2>4, <2>5
       DEF MainThread, MainPrometheus, MainPollBonsai, MainWaitBonsai, MainJoinDedispersion,
           MainEndDevices, MainJoinStream, MainJoinRpc, MainResetPrometheus, vars
<1>9. ASSUME NEW b \in Beams, DedispersionThread(b)
      PROVE  /\ NoneGoesBack
             /\ \/ DedispersionRank[dedisp[b]] < DedispersionRank[dedisp'[b]]
                \/ toPut'[b] # toPut[b]
  <2>1. UNCHANGED <<mainPc, i, stream, rpc, shutdown>>
    BY <1>9 DEF DedispersionThread, StartsUp, PutMaskCounter, SetBonsai, PipelineEnds,
       DedispersionExit
  <2>2. ASSUME NEW k \in CounterNames, PutMaskCounter(b, k)
        PROVE  toPut'[b] # toPut[b] /\ NoneGoesBack
    <3>1. toPut'[b] # toPut[b] /\ dedisp' = dedisp /\ \A c \in Beams : toPut'[c] \subseteq toPut[c]
      BY <1>1, <2>2 DEF PutMaskCounter
    <3>. QED BY <1>2, <1>3, <1>4, <1>6, <1>7, <2>1, <3>1 DEF NoneGoesBack
  <2>3. ASSUME SetBonsai(b) \/ PipelineEnds(b) \/ DedispersionExit(b)
        PROVE  DedispersionRank[dedisp[b]] < DedispersionRank[dedisp'[b]] /\ NoneGoesBack
    <3>1. /\ toPut' = toPut
          /\ DedispersionRank[dedisp[b]] < DedispersionRank[dedisp'[b]]
          /\ \A c \in Beams : DedispersionRank[dedisp[c]] <= DedispersionRank[dedisp'[c]]
      BY <1>1, <1>2, <2>3, Ranks DEF SetBonsai, PipelineEnds, DedispersionExit
    <3>. QED BY <1>3, <1>4, <1>6, <1>7, <2>1, <3>1 DEF NoneGoesBack
  <2>. QED BY <1>9, <2>2, <2>3 DEF DedispersionThread, StartsUp
<1>10. ASSUME NEW s \in Streams, RpcThread(s)
       PROVE  NoneGoesBack /\ (shutdown[s] => RpcAt(s) < RpcAt(s)')
  <2>1. UNCHANGED <<mainPc, i, dedisp, toPut>>
    BY <1>10 DEF RpcThread, RpcTop, RpcTimeout, RpcMaskedBegin, RpcMaskedEnd, RpcShutdown,
       RpcJoined, RpcStep
  <2>2. \A r \in Streams : StreamRank[stream[r]] <= StreamRank[stream'[r]]
    BY <1>6, <1>10, EndLeads DEF RpcThread, RpcTop, RpcTimeout, RpcMaskedBegin, RpcMaskedEnd,
       RpcShutdown, RpcJoined
  <2>3. /\ shutdown' = shutdown \/ shutdown' = [shutdown EXCEPT ![s] = TRUE]
        /\ \E to \in {"top", "recv", "iterating", "joining", "exited"} :
             /\ rpc' = [rpc EXCEPT ![s] = to]
             /\ shutdown[s] => RpcRank[rpc[s]] < RpcRank[to]
    BY <1>10, Ranks DEF RpcThread, RpcTop, RpcTimeout, RpcMaskedBegin, RpcMaskedEnd,
       RpcShutdown, RpcJoined, RpcStep
  <2>4. shutdown[s] => RpcAt(s) < RpcAt(s)'
    BY <1>1, <2>3 DEF RpcAt
  <2>5. \A r \in Streams : RpcAt(r) <= RpcAt(r)'
    BY <1>1, <1>2, <2>3 DEF RpcAt
  <2>. QED BY <1>3, <1>4, <1>5, <2>1, <2>2, <2>4, <2>5 DEF NoneGoesBack
<1>11. ASSUME NEW s \in Streams, Network(s)
       PROVE  NoneGoesBack /\ StreamRank[stream[s]] < StreamRank[stream'[s]]
  <2>1. UNCHANGED <<mainPc, i, dedisp, toPut, rpc, shutdown>>
    BY <1>11 DEF Network, L0Ends, StreamThreadsExit
  <2>2. /\ StreamRank[stream[s]] < StreamRank[stream'[s]]
        /\ \A r \in Streams : StreamRank[stream[r]] <= StreamRank[stream'[r]]
    <3>1. CASE L0Ends(s)
      BY <3>1, EndLeads DEF L0Ends
    <3>2. CASE StreamThreadsExit(s)
      BY <1>1, <1>2, <3>2, Ranks DEF StreamThreadsExit
    <3>. QED BY <1>11, <3>1, <3>2 DEF Network
  <2>. QED BY <1>3, <1>4, <1>5, <1>7, <2>1, <2>2 DEF NoneGoesBack
<1>12. ASSUME UNCHANGED <<mainPc, i, dedisp, toPut, stream, rpc, shutdown>>
       PROVE  NoneGoesBack
  BY <1>3, <1>4, <1>5, <1>6, <1>7, <1>12 DEF NoneGoesBack
<1>13. StepsLead
  BY <1>8, <1>9, <1>10, <1>11 DEF StepsLead, Network
<1>14. NoneGoesBack
  BY <1>8, <1>9, <1>10, <1>11, <1>12
     DEF Next, Step, DedispersionFails, L1bExits, ScrapeBegin, ScrapeEnd, Network
<1>. QED BY <1>13, <1>14

\* The rest of why the process exits: nothing that a thread does on its way is
\* done over.  main goes through its phases and loops once, a dedispersion
\* thread and a stream through their lives, and an RPC server that has been
\* told to shut down takes no further turn of its loop (ch-frb-l1.cpp:1482-1510,
\* l1-rpc.cpp:346).
THEOREM ThreadsGetOn ==
    Spec => [](MainAt \in 0 .. 20 * NumberOfBeams) /\ [][NoneGoesBack /\ StepsLead]_vars
<1>1. IInv => MainAt \in 0 .. 20 * NumberOfBeams
  <2>1. NumberOfBeams \in Nat
    BY Sizes DEF NumberOfBeams
  <2>. QED BY <2>1, MainAtRange DEF IInv
<1>2. IInv /\ IInv' /\ ProgressInv /\ [Next]_vars => [NoneGoesBack /\ StepsLead]_vars
  BY StepLeads DEF IInv
<1>. QED BY <1>1, <1>2, Safety, ProgressHolds, PTL DEF Spec
=============================================================================
