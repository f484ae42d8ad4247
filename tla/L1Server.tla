------------------------------ MODULE L1Server ------------------------------
(***************************************************************************)
(* How the L1 process comes up and goes down (ch-frb-l1.cpp): main builds  *)
(* the servers and joins the threads in a fixed order, one dedispersion    *)
(* thread per beam announces its mask counters and its dedisperser, and    *)
(* the RPC and prometheus servers of a stream read what was announced.     *)
(*                                                                         *)
(* Beams are numbered over all streams.  What an RPC server does with its  *)
(* write requests is in L1RpcServer; here it serves the requests that look *)
(* at the dedispersion threads, and shutdown.                              *)
(***************************************************************************)
EXTENDS Integers, FiniteSets

CONSTANTS
    NumStreams,
    BeamsPerStream,
    CounterNames,   \* names of mask counters in an RFI chain
    Counters,       \* beam -> the counters in its RFI chain
    Toy,            \* was the -t flag given?
    L1b,            \* does the configuration name an L1b executable?
    MayFail         \* may a dedispersion thread throw?

Streams == 0 .. NumStreams - 1
Beams   == 0 .. NumStreams * BeamsPerStream - 1

ASSUME L1ServerAssumption ==
    /\ NumStreams \in Nat \ {0}
    /\ BeamsPerStream \in Nat \ {0}
    /\ Counters \in [Beams -> SUBSET CounterNames]
    /\ Toy \in BOOLEAN
    /\ L1b \in BOOLEAN
    /\ MayFail \in BOOLEAN

StreamOf(b) == b \div BeamsPerStream

\* The beams whose dedispersers the RPC server of stream s is given.
BeamsOf(s) == {s * BeamsPerStream + ib : ib \in 0 .. BeamsPerStream - 1}

VARIABLES
    aborted,      \* an exception or a data race has ended the process
    mainPc,       \* where main is
    i,            \* its loop index
    maskMap,      \* stream -> <<beam, counter>> pairs in its mask_stats_map
    prom,         \* stream -> its prometheus server
    rpc,          \* stream -> its RPC thread
    shutdown,     \* stream -> L1RpcServer::_shutdown
    captured,     \* stream -> beams whose dedispersers its RPC server holds
    dedisp,       \* beam -> its dedispersion thread
    toPut,        \* beam -> counters it has still to announce
    bonsai,       \* beams whose dedisperser pointer is set
    l1b,          \* beams whose L1b child process is running
    stream,       \* stream -> the state of its intensity_network_stream
    devicesOpen   \* the output devices take requests

vars == <<aborted, mainPc, i, maskMap, prom, rpc, shutdown, captured, dedisp,
          toPut, bonsai, l1b, stream, devicesOpen>>

\* spawn_l1b_subprocesses(): one child per beam, unless -t is given.
HasL1b == L1b /\ ~Toy

Init ==
    /\ aborted = FALSE
    /\ mainPc = "prometheus" /\ i = 0
    /\ maskMap = [s \in Streams |-> {}]
    /\ prom = [s \in Streams |-> "none"]
    /\ rpc = [s \in Streams |-> "none"]
    /\ shutdown = [s \in Streams |-> FALSE]
    /\ captured = [s \in Streams |-> {}]
    /\ dedisp = [b \in Beams |-> "none"]
    /\ toPut = [b \in Beams |-> Counters[b]]
    /\ bonsai = {}
    /\ l1b = IF HasL1b THEN Beams ELSE {}
    /\ stream = [s \in Streams |-> "running"]
    /\ devicesOpen = TRUE

End(s) == stream' = [stream EXCEPT ![s] = IF @ = "running" THEN "ending" ELSE @]

-----------------------------------------------------------------------------
(* main().  Every loop of it is over i, from 0.                            *)

\* After the step for index i of the loop at pc over n elements.
LoopTo(pc, n, next) ==
    IF i + 1 < n THEN mainPc' = pc /\ i' = i + 1
                 ELSE mainPc' = next /\ i' = 0

\* make_prometheus_servers(): a server that cannot bind its address is left out.
MainPrometheus ==
    /\ mainPc = "prometheus"
    /\ \E p \in {"idle", "none"} : prom' = [prom EXCEPT ![i] = p]
    /\ LoopTo("prometheus", NumStreams, "spawn")
    /\ UNCHANGED <<aborted, maskMap, rpc, shutdown, captured, dedisp, toPut,
                   bonsai, l1b, stream, devicesOpen>>

\* spawn_dedispersion_threads()
MainSpawn ==
    /\ mainPc = "spawn"
    /\ dedisp' = [dedisp EXCEPT ![i] = IF Toy THEN "running" ELSE "starting"]
    /\ LoopTo("spawn", Cardinality(Beams), "waitBonsai")
    /\ UNCHANGED <<aborted, maskMap, prom, rpc, shutdown, captured, toPut,
                   bonsai, l1b, stream, devicesOpen>>

\* (mutant) waiting for the first beam only
MainWaitBonsaiFirst ==
    /\ mainPc = "waitBonsai"
    /\ 0 \in bonsai
    /\ mainPc' = "makeRpc"
    /\ UNCHANGED <<aborted, i, maskMap, prom, rpc, shutdown, captured, dedisp,
                   toPut, bonsai, l1b, stream, devicesOpen>>

\* make_rpc_servers() polls, under bonsai_dedisp_mutex, until all are there.
MainPollBonsai ==
    /\ mainPc = "waitBonsai"
    /\ bonsai # Beams
    /\ UNCHANGED vars

MainWaitBonsai ==
    /\ mainPc = "waitBonsai"
    /\ bonsai = Beams
    /\ mainPc' = "makeRpc"
    /\ UNCHANGED <<aborted, i, maskMap, prom, rpc, shutdown, captured, dedisp,
                   toPut, bonsai, l1b, stream, devicesOpen>>

MainMakeRpc ==
    /\ mainPc = "makeRpc"
    /\ captured' = [captured EXCEPT ![i] = BeamsOf(i) \cap bonsai]
    /\ rpc' = [rpc EXCEPT ![i] = "top"]
    /\ LoopTo("makeRpc", NumStreams, "joinDedispersion")
    /\ UNCHANGED <<aborted, maskMap, prom, shutdown, dedisp, toPut, bonsai,
                   l1b, stream, devicesOpen>>

\* (mutant) only the threads of the first stream are joined
MainJoinDedispersionShort ==
    /\ mainPc = "joinDedispersion"
    /\ dedisp[i] = "exited"
    /\ LoopTo("joinDedispersion", BeamsPerStream, "devices")
    /\ UNCHANGED <<aborted, maskMap, prom, rpc, shutdown, captured, dedisp,
                   toPut, bonsai, l1b, stream, devicesOpen>>

\* join_all_threads(), first loop
MainJoinDedispersion ==
    /\ mainPc = "joinDedispersion"
    /\ dedisp[i] = "exited"
    /\ LoopTo("joinDedispersion", Cardinality(Beams), "devices")
    /\ UNCHANGED <<aborted, maskMap, prom, rpc, shutdown, captured, dedisp,
                   toPut, bonsai, l1b, stream, devicesOpen>>

\* end_stream(true) and join_thread() on every output device
MainEndDevices ==
    /\ mainPc = "devices"
    /\ devicesOpen' = FALSE
    /\ mainPc' = "shutdownRpc"
    /\ UNCHANGED <<aborted, i, maskMap, prom, rpc, shutdown, captured, dedisp,
                   toPut, bonsai, stream, l1b>>

\* do_shutdown() ends the stream, sets the flag and joins the stream's threads.
MainShutdownRpc ==
    /\ mainPc = "shutdownRpc"
    /\ End(i)
    /\ shutdown' = [shutdown EXCEPT ![i] = TRUE]
    /\ mainPc' = "joinStream"
    /\ UNCHANGED <<aborted, i, maskMap, prom, rpc, captured, dedisp, toPut,
                   bonsai, l1b, devicesOpen>>

MainJoinStream ==
    /\ mainPc = "joinStream"
    /\ stream[i] = "ended"
    /\ LoopTo("shutdownRpc", NumStreams, "joinRpc")
    /\ UNCHANGED <<aborted, maskMap, prom, rpc, shutdown, captured, dedisp,
                   toPut, bonsai, l1b, stream, devicesOpen>>

MainJoinRpc ==
    /\ mainPc = "joinRpc"
    /\ rpc[i] = "exited"
    /\ LoopTo("joinRpc", NumStreams, "resetPrometheus")
    /\ UNCHANGED <<aborted, maskMap, prom, rpc, shutdown, captured, dedisp,
                   toPut, bonsai, l1b, stream, devicesOpen>>

\* The destructor of the web server stops it and waits for its workers.
MainResetPrometheus ==
    /\ mainPc = "resetPrometheus"
    /\ prom[i] # "scraping"
    /\ prom' = [prom EXCEPT ![i] = IF @ = "idle" THEN "closed" ELSE @]
    /\ LoopTo("resetPrometheus", NumStreams, "done")
    /\ UNCHANGED <<aborted, maskMap, rpc, shutdown, captured, dedisp, toPut,
                   bonsai, l1b, stream, devicesOpen>>

MainThread ==
    \/ MainPrometheus \/ MainSpawn
    \/ MainPollBonsai \/ MainWaitBonsai \/ MainMakeRpc
    \/ MainJoinDedispersion \/ MainEndDevices
    \/ MainShutdownRpc \/ MainJoinStream \/ MainJoinRpc \/ MainResetPrometheus

-----------------------------------------------------------------------------
(* The dedispersion thread of beam b.                                      *)

\* mask_stats_map::put() locks a mutex that no reader takes: with a reader in
\* the map, the process may go on or be lost.
PutMaskCounter(b, k) ==
    LET s == StreamOf(b) IN
    /\ dedisp[b] = "starting"
    /\ k \in toPut[b]
    /\ toPut' = [toPut EXCEPT ![b] = @ \ {k}]
    /\ maskMap' = [maskMap EXCEPT ![s] = @ \cup {<<b, k>>}]
    /\ aborted' \in {FALSE, prom[s] = "scraping" \/ rpc[s] = "iterating"}
    /\ UNCHANGED <<mainPc, i, prom, rpc, shutdown, captured, dedisp, bonsai,
                   l1b, stream, devicesOpen>>

\* (mutant) the dedisperser is announced before the mask counters
SetBonsaiFirst(b) ==
    /\ dedisp[b] = "starting"
    /\ b \notin bonsai
    /\ bonsai' = bonsai \cup {b}
    /\ dedisp' = [dedisp EXCEPT ![b] = IF toPut[b] = {} THEN "running" ELSE @]
    /\ UNCHANGED <<aborted, mainPc, i, maskMap, prom, rpc, shutdown, captured,
                   toPut, l1b, stream, devicesOpen>>

\* (mutant) an update of the other threads is lost, as without the mutex
SetBonsaiLosesOthers(b) ==
    /\ dedisp[b] = "starting"
    /\ toPut[b] = {}
    /\ bonsai' = {b}
    /\ dedisp' = [dedisp EXCEPT ![b] = "running"]
    /\ UNCHANGED <<aborted, mainPc, i, maskMap, prom, rpc, shutdown, captured,
                   toPut, l1b, stream, devicesOpen>>

\* set_bonsai(), then pipeline->run()
SetBonsai(b) ==
    /\ dedisp[b] = "starting"
    /\ toPut[b] = {}
    /\ bonsai' = bonsai \cup {b}
    /\ dedisp' = [dedisp EXCEPT ![b] = "running"]
    /\ UNCHANGED <<aborted, mainPc, i, maskMap, prom, rpc, shutdown, captured,
                   toPut, l1b, stream, devicesOpen>>

\* The stream has no more chunks: pipeline->run() returns, or the toy loop,
\* which is the end of its thread.
PipelineEnds(b) ==
    /\ dedisp[b] = "running"
    /\ stream[StreamOf(b)] = "ended"
    /\ dedisp' = [dedisp EXCEPT ![b] = IF HasL1b THEN "waitL1b" ELSE "exited"]
    /\ UNCHANGED <<aborted, mainPc, i, maskMap, prom, rpc, shutdown, captured,
                   toPut, bonsai, l1b, stream, devicesOpen>>

\* (mutant) the thread does not wait for its L1b child
DedispersionExitAtOnce(b) ==
    /\ dedisp[b] = "waitL1b"
    /\ dedisp' = [dedisp EXCEPT ![b] = "exited"]
    /\ UNCHANGED <<aborted, mainPc, i, maskMap, prom, rpc, shutdown, captured,
                   toPut, bonsai, l1b, stream, devicesOpen>>

\* wait_for_child(), without a limit
DedispersionExit(b) ==
    /\ dedisp[b] = "waitL1b"
    /\ b \notin l1b
    /\ dedisp' = [dedisp EXCEPT ![b] = "exited"]
    /\ UNCHANGED <<aborted, mainPc, i, maskMap, prom, rpc, shutdown, captured,
                   toPut, bonsai, l1b, stream, devicesOpen>>

\* An exception is printed and thrown on: std::terminate().
DedispersionFails(b) ==
    /\ MayFail
    /\ dedisp[b] \in {"starting", "running"}
    /\ aborted' = TRUE
    /\ UNCHANGED <<mainPc, i, maskMap, prom, rpc, shutdown, captured, dedisp,
                   toPut, bonsai, l1b, stream, devicesOpen>>

StartsUp(b) == (\E k \in CounterNames : PutMaskCounter(b, k)) \/ SetBonsai(b)

DedispersionThread(b) == StartsUp(b) \/ PipelineEnds(b) \/ DedispersionExit(b)

\* An L1b child is a program of its own, and comes to its end when it likes.
L1bExits(b) ==
    /\ b \in l1b
    /\ l1b' = l1b \ {b}
    /\ UNCHANGED <<aborted, mainPc, i, maskMap, prom, rpc, shutdown, captured,
                   dedisp, toPut, bonsai, stream, devicesOpen>>

-----------------------------------------------------------------------------
(* The readers of the mask_stats_map of stream s.                          *)

\* A scrape of /metrics walks the map if it is not empty.  A web server that
\* is being destroyed takes no new connection.
ScrapeBegin(s) ==
    /\ prom[s] = "idle"
    /\ ~(mainPc = "resetPrometheus" /\ i = s)
    /\ maskMap[s] # {}
    /\ prom' = [prom EXCEPT ![s] = "scraping"]
    /\ UNCHANGED <<aborted, mainPc, i, maskMap, rpc, shutdown, captured,
                   dedisp, toPut, bonsai, l1b, stream, devicesOpen>>

ScrapeEnd(s) ==
    /\ prom[s] = "scraping"
    /\ prom' = [prom EXCEPT ![s] = "idle"]
    /\ UNCHANGED <<aborted, mainPc, i, maskMap, rpc, shutdown, captured,
                   dedisp, toPut, bonsai, l1b, stream, devicesOpen>>

RpcStep(s, from, to) ==
    /\ rpc[s] = from
    /\ rpc' = [rpc EXCEPT ![s] = to]
    /\ UNCHANGED <<aborted, mainPc, i, maskMap, prom, captured, dedisp, toPut,
                   bonsai, l1b, devicesOpen>>

\* (mutant) the flag is not read
RpcTopForever(s) ==
    /\ RpcStep(s, "top", "recv")
    /\ UNCHANGED <<shutdown, stream>>

\* run(): the flag is read at the top of the loop, and a request that comes
\* after that is still served.
RpcTop(s) ==
    /\ RpcStep(s, "top", IF shutdown[s] THEN "exited" ELSE "recv")
    /\ UNCHANGED <<shutdown, stream>>

RpcTimeout(s) ==
    /\ RpcStep(s, "recv", "top")
    /\ UNCHANGED <<shutdown, stream>>

\* get_masked_frequencies
RpcMaskedBegin(s) ==
    /\ RpcStep(s, "recv", "iterating")
    /\ UNCHANGED <<shutdown, stream>>

RpcMaskedEnd(s) ==
    /\ RpcStep(s, "iterating", "top")
    /\ UNCHANGED <<shutdown, stream>>

\* The shutdown RPC, and the end of the stream it waits for.
RpcShutdown(s) ==
    /\ RpcStep(s, "recv", "joining")
    /\ shutdown' = [shutdown EXCEPT ![s] = TRUE]
    /\ End(s)

RpcJoined(s) ==
    /\ RpcStep(s, "joining", "top")
    /\ stream[s] = "ended"
    /\ UNCHANGED <<shutdown, stream>>

RpcThread(s) ==
    \/ RpcTop(s) \/ RpcTimeout(s) \/ RpcMaskedBegin(s) \/ RpcMaskedEnd(s)
    \/ RpcShutdown(s) \/ RpcJoined(s)

-----------------------------------------------------------------------------
(* The network streams.                                                    *)

\* Packets are read, and an end-of-stream packet seen, once a dedispersion
\* thread has started the stream.
L0Ends(s) ==
    /\ stream[s] = "running"
    /\ \E b \in BeamsOf(s) : dedisp[b] = "running"
    /\ End(s)
    /\ UNCHANGED <<aborted, mainPc, i, maskMap, prom, rpc, shutdown, captured,
                   dedisp, toPut, bonsai, l1b, devicesOpen>>

StreamThreadsExit(s) ==
    /\ stream[s] = "ending"
    /\ stream' = [stream EXCEPT ![s] = "ended"]
    /\ UNCHANGED <<aborted, mainPc, i, maskMap, prom, rpc, shutdown, captured,
                   dedisp, toPut, bonsai, l1b, devicesOpen>>

-----------------------------------------------------------------------------

Over == mainPc = "done" \/ aborted

Step ==
    \/ MainThread
    \/ \E b \in Beams : DedispersionThread(b) \/ DedispersionFails(b) \/ L1bExits(b)
    \/ \E s \in Streams :
         \/ ScrapeBegin(s) \/ ScrapeEnd(s)
         \/ RpcThread(s)
         \/ L0Ends(s) \/ StreamThreadsExit(s)

Next ==
    \/ ~Over /\ Step
    \/ Over /\ UNCHANGED vars

\* Threads run; nobody has to send a request, scrape, or end a stream, and no
\* L1b child has to exit, or to read what its pipeline writes to it (a pipe may
\* be blocking).  A loop over the map is finite.
Fairness ==
    /\ WF_vars(~Over /\ MainThread)
    /\ \A b \in Beams :
         /\ WF_vars(~Over /\ StartsUp(b))
         /\ WF_vars(~Over /\ b \notin l1b /\ (PipelineEnds(b) \/ DedispersionExit(b)))
    /\ \A s \in Streams :
         /\ WF_vars(~Over /\ RpcThread(s))
         /\ WF_vars(~Over /\ ScrapeEnd(s))
         /\ WF_vars(~Over /\ StreamThreadsExit(s))

Spec     == Init /\ [][Next]_vars
FairSpec == Spec /\ Fairness

-----------------------------------------------------------------------------
(* Properties.                                                             *)

TypeOK ==
    /\ aborted \in BOOLEAN
    /\ mainPc \in {"prometheus", "spawn", "waitBonsai", "makeRpc",
                   "joinDedispersion", "devices", "shutdownRpc", "joinStream",
                   "joinRpc", "resetPrometheus", "done"}
    /\ i \in Beams
    /\ maskMap \in [Streams -> SUBSET (Beams \X CounterNames)]
    /\ prom \in [Streams -> {"none", "idle", "scraping", "closed"}]
    /\ rpc \in [Streams -> {"none", "top", "recv", "iterating", "joining",
                        "exited"}]
    /\ shutdown \in [Streams -> BOOLEAN]
    /\ captured \in [Streams -> SUBSET Beams]
    /\ dedisp \in [Beams -> {"none", "starting", "running", "waitL1b", "exited"}]
    /\ toPut \in [Beams -> SUBSET CounterNames]
    /\ bonsai \subseteq Beams
    /\ l1b \subseteq Beams
    /\ stream \in [Streams -> {"running", "ending", "ended"}]
    /\ devicesOpen \in BOOLEAN

\* An RPC server is never there before all that it reads without a lock: the
\* dedispersers and the mask counters of exactly the beams of its stream
\* (ch-frb-l1.cpp:1368-1402, l1-rpc.cpp:937-971).
RpcSeesWholeStream ==
    \A s \in Streams : rpc[s] # "none" =>
        /\ captured[s] = {b \in Beams : StreamOf(b) = s}
        /\ maskMap[s] = {e \in Beams \X CounterNames :
                           StreamOf(e[1]) = s /\ e[2] \in Counters[e[1]]}

\* The stream that is shut down by RPC, or ends, first does not take the
\* output devices away from the other streams (ch-frb-l1.cpp:1490-1498).
DevicesOutliveStreams ==
    ~devicesOpen =>
        /\ \A s \in Streams : stream[s] = "ended"
        /\ \A b \in Beams : dedisp[b] = "exited"

\* No thread is left to use the server that main is about to destroy, and no
\* L1b child is left behind (which is what its thread waits for it for:
\* ch-frb-l1.cpp:920-927 asks whether it has to).
AllThreadsJoined ==
    mainPc = "done" =>
        /\ \A b \in Beams : dedisp[b] = "exited"
        /\ l1b = {}
        /\ \A s \in Streams : rpc[s] = "exited" /\ prom[s] \in {"none", "closed"}

\* The RPC thread walks the mask_stats_map without a lock, and never while a
\* dedispersion thread adds to it.
RpcReadsFrozenMap ==
    [][\A s \in Streams : rpc[s] = "iterating" => UNCHANGED maskMap[s]]_vars

\* Every stream having ended or been shut down, and every L1b child having
\* exited, the process comes to its end, although main, the RPC threads and the
\* dedispersion threads wait for each other and for the streams.  A child that
\* never exits keeps its dedispersion thread, and main, for ever
\* (ch-frb-l1.cpp:920-927).
ServerExits ==
    (\A s \in Streams : stream[s] # "running") /\ l1b = {} ~> Over

\* Unless a dedispersion thread fails, the RPC servers come up.
RpcServersComeUp == <>(aborted \/ \A s \in Streams : rpc[s] # "none")
=============================================================================
