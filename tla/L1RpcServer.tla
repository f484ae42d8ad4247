---------------------------- MODULE L1RpcServer ----------------------------
(***************************************************************************)
(* The write path of the L1 RPC server (l1-rpc.cpp) inside the process     *)
(* that owns it (ch-frb-l1.cpp): RPC clients, the RPC thread, one I/O      *)
(* thread per output device, and the main thread that waits for the end of *)
(* the stream and takes everything down.                                   *)
(*                                                                         *)
(* One action is one critical section, or one stretch of a thread's code   *)
(* that touches state no other thread reads.  A data RPC that only answers *)
(* (list_chunks, get_statistics, ...) has the shape of                     *)
(* get_writechunk_status; a request that is malformed, unknown, throws, or *)
(* has no reply (start_logging) has the shape of "bad".                    *)
(***************************************************************************)
EXTENDS Integers, Sequences, FiniteSets

CONSTANTS
    Clients,      \* zmq identities of the connected RPC clients
    NoClient,     \* the null client pointer of a write nobody asked for
    Chunks,       \* assembled chunks the ring buffers can hold
    Patterns,     \* filename patterns of the requests
    Files,        \* filenames
    FileName,     \* <<pattern, chunk>> -> the name format_filename() gives
    NumDevices,   \* output devices, numbered as in l1_server::output_devices
    DeviceOf,     \* file -> the device that serves its prefix, 0 if none
    MaxRequests,  \* bound: requests all clients send
    TestChunks,   \* bound: chunks written through the test-only C++ call
    RecvMayFail   \* may recv() fail with an error other than EAGAIN?

Devices == 1 .. NumDevices

ASSUME ConstantsAssumption ==
    /\ NoClient \notin Clients
    /\ NumDevices \in Nat
    /\ MaxRequests \in Nat
    /\ FileName \in [Patterns \X Chunks -> Files]
    /\ DeviceOf \in [Files -> 0 .. NumDevices]
    /\ TestChunks \subseteq Chunks
    /\ RecvMayFail \in BOOLEAN

VARIABLES
    \* the clients and the ROUTER socket
    alive,        \* clients the socket can still route to
    sent,         \* client -> number of requests sent (rpc_client.py: token)
    inbox,        \* client -> requests not yet received by the server
    delivered,    \* client -> messages the socket accepted for it, in order
    \* the RPC thread
    rpcPc,        \* where it is in run()
    cur,          \* the write_chunks request being handled
    todo,         \* chunks of its snapshot still to be enqueued
    reply,        \* the initial reply under construction
    \* shared by threads, under a mutex
    backendQueue, \* l1_backend_queue: finished writes to report
    status,       \* chunk_status_map
    shutdown,     \* L1RpcServer::_shutdown
    \* ch_frb_io: the output devices and the network stream
    deviceQueue,  \* accepted writes no I/O thread has taken
    deviceOpen,   \* device -> end_stream() has not been called
    ioPc,         \* device -> where its I/O thread is
    ioReq,        \* device -> the write its I/O thread is working on
    stream,       \* intensity_network_stream
    \* the main thread
    mainPc,       \* where it is in join_all_threads()
    idev,         \* its loop index over the output devices
    \* what happened to each write
    accepted, written, failed

clientVars  == <<alive, sent, inbox>>
rpcVars     == <<rpcPc, cur, todo, reply>>
deviceVars  == <<deviceQueue, deviceOpen, ioPc, ioReq>>
mainVars    == <<mainPc, idev>>
historyVars == <<accepted, written, failed>>

vars == <<clientVars, delivered, rpcVars, backendQueue, status, shutdown,
          deviceVars, stream, mainVars, historyVars>>

-----------------------------------------------------------------------------
(* Requests, writes and messages.                                          *)

Tokens    == 1 .. MaxRequests
Final     == {"SUCCEEDED", "FAILED"}
StatusSet == {"UNKNOWN", "QUEUED"} \cup Final

Requests ==
         [fn : {"write_chunks"}, token : Tokens, pattern : Patterns]
    \cup [fn : {"get_writechunk_status"}, token : Tokens, file : Files]
    \cup [fn : {"shutdown", "bad"}, token : Tokens]

\* An l1_write_request: of a client, or with neither client nor token.
Writes ==
         [client : Clients, token : Tokens, chunk : Chunks, file : Files]
    \cup [client : {NoClient}, token : {0}, chunk : Chunks, file : Files]

\* An l1_backend_queue::entry.
Entries == [write : Writes, success : BOOLEAN]

ListMsgs   == [kind : {"list"}, token : Tokens,
               accepted : SUBSET Chunks, refused : SUBSET Chunks]
ChunkMsgs  == [kind : {"chunk"}, token : Tokens, chunk : Chunks,
               file : Files, success : BOOLEAN]
StatusMsgs == [kind : {"status"}, token : Tokens, file : Files,
               status : StatusSet]
Messages   == ListMsgs \cup ChunkMsgs \cup StatusMsgs

NoReply == [accepted |-> {}, refused |-> {}]
NoCur   == [client |-> NoClient, token |-> 0]
NoWrite == [client |-> NoClient, token |-> 0]

ChunkMsg(e) == [kind |-> "chunk", token |-> e.write.token,
                chunk |-> e.write.chunk, file |-> e.write.file,
                success |-> e.success]

Pending == accepted \ (written \cup failed)

Init ==
    /\ alive = Clients
    /\ sent = [c \in Clients |-> 0]
    /\ inbox = [c \in Clients |-> <<>>]
    /\ delivered = [c \in Clients |-> <<>>]
    /\ rpcPc = "top" /\ cur = NoCur /\ todo = {} /\ reply = NoReply
    /\ backendQueue = <<>>
    /\ status = [f \in Files |-> "UNKNOWN"]
    /\ shutdown = FALSE
    /\ deviceQueue = {}
    /\ deviceOpen = [d \in Devices |-> TRUE]
    /\ ioPc = [d \in Devices |-> "idle"]
    /\ ioReq = [d \in Devices |-> NoWrite]
    /\ stream = "running"
    /\ mainPc = "dedispersion" /\ idev = 1
    /\ accepted = {} /\ written = {} /\ failed = {}

-----------------------------------------------------------------------------
(* Clients.  Each numbers its requests itself and may go away at any time; *)
(* the requests it has sent are still received.                            *)

\* (bound) the requests of all clients
Requested == {x \in Clients \X Tokens : x[2] <= sent[x[1]]}

ClientSend(c, r) ==
    /\ c \in alive
    /\ r.token = sent[c] + 1
    /\ Cardinality(Requested) < MaxRequests
    /\ sent' = [sent EXCEPT ![c] = @ + 1]
    /\ inbox' = [inbox EXCEPT ![c] = Append(@, r)]
    /\ UNCHANGED <<alive, delivered, rpcVars, backendQueue, status, shutdown,
                   deviceVars, stream, mainVars, historyVars>>

ClientLeave(c) ==
    /\ c \in alive
    /\ alive' = alive \ {c}
    /\ UNCHANGED <<sent, inbox, delivered, rpcVars, backendQueue, status,
                   shutdown, deviceVars, stream, mainVars, historyVars>>

-----------------------------------------------------------------------------
(* The output device pool (ch_frb_io).  A write goes to the device that    *)
(* serves its filename, if there is one and it still takes requests; the   *)
(* status becomes QUEUED inside the call.                                  *)

Accepts(f) == DeviceOf[f] # 0 /\ deviceOpen[DeviceOf[f]]

\* (mutant) the status says QUEUED even if the pool refuses the write
EnqueueWriteMarksAll(w) ==
    /\ status' = [status EXCEPT ![w.file] = "QUEUED"]
    /\ IF Accepts(w.file)
       THEN /\ deviceQueue' = deviceQueue \cup {w}
            /\ accepted' = accepted \cup {w}
       ELSE UNCHANGED <<deviceQueue, accepted>>

EnqueueWrite(w) ==
    IF Accepts(w.file)
    THEN /\ deviceQueue' = deviceQueue \cup {w}
         /\ accepted' = accepted \cup {w}
         /\ status' = [status EXCEPT ![w.file] = "QUEUED"]
    ELSE UNCHANGED <<deviceQueue, accepted, status>>

\* The I/O thread of device d takes a write.
IoTake(d) ==
    /\ ioPc[d] = "idle"
    /\ \E w \in deviceQueue :
         /\ DeviceOf[w.file] = d
         /\ deviceQueue' = deviceQueue \ {w}
         /\ ioReq' = [ioReq EXCEPT ![d] = w]
    /\ ioPc' = [ioPc EXCEPT ![d] = "writing"]
    /\ UNCHANGED <<clientVars, delivered, rpcVars, backendQueue, status,
                   shutdown, deviceOpen, stream, mainVars, historyVars>>

\* (mutant) the end of a write is not recorded in the status map
IoFinishSilently(d) ==
    /\ ioPc[d] = "writing"
    /\ \/ written' = written \cup {ioReq[d]} /\ UNCHANGED failed
       \/ failed' = failed \cup {ioReq[d]} /\ UNCHANGED written
    /\ ioPc' = [ioPc EXCEPT ![d] = "report"]
    /\ UNCHANGED <<clientVars, delivered, rpcVars, backendQueue, status,
                   shutdown, deviceQueue, deviceOpen, ioReq, stream, mainVars,
                   accepted>>

\* The write ends, well or badly: the first half of status_changed(), which
\* records the status.
IoFinish(d) ==
    /\ ioPc[d] = "writing"
    /\ LET w == ioReq[d] IN
         \/ /\ written' = written \cup {w}
            /\ status' = [status EXCEPT ![w.file] = "SUCCEEDED"]
            /\ UNCHANGED failed
         \/ /\ failed' = failed \cup {w}
            /\ status' = [status EXCEPT ![w.file] = "FAILED"]
            /\ UNCHANGED written
    /\ ioPc' = [ioPc EXCEPT ![d] = "report"]
    /\ UNCHANGED <<clientVars, delivered, rpcVars, backendQueue, shutdown,
                   deviceQueue, deviceOpen, ioReq, stream, mainVars, accepted>>

\* (mutant) the reply copies the status of the file, which another request may
\* have changed
IoReportFromMap(d) ==
    /\ ioPc[d] = "report"
    /\ backendQueue' = Append(backendQueue,
                              [write |-> ioReq[d],
                               success |-> status[ioReq[d].file] = "SUCCEEDED"])
    /\ ioPc' = [ioPc EXCEPT ![d] = "idle"]
    /\ ioReq' = [ioReq EXCEPT ![d] = NoWrite]
    /\ UNCHANGED <<clientVars, delivered, rpcVars, status, shutdown,
                   deviceQueue, deviceOpen, stream, mainVars, historyVars>>

\* The second half of status_changed(): the reply for the RPC thread.
IoReport(d) ==
    /\ ioPc[d] = "report"
    /\ backendQueue' = Append(backendQueue,
                              [write |-> ioReq[d],
                               success |-> ioReq[d] \in written])
    /\ ioPc' = [ioPc EXCEPT ![d] = "idle"]
    /\ ioReq' = [ioReq EXCEPT ![d] = NoWrite]
    /\ UNCHANGED <<clientVars, delivered, rpcVars, status, shutdown,
                   deviceQueue, deviceOpen, stream, mainVars, historyVars>>

\* (mutant) end_stream(wait = false): the thread leaves its queue behind
IoExitNoWait(d) ==
    /\ ioPc[d] = "idle"
    /\ ~deviceOpen[d]
    /\ ioPc' = [ioPc EXCEPT ![d] = "exited"]
    /\ UNCHANGED <<clientVars, delivered, rpcVars, backendQueue, status,
                   shutdown, deviceQueue, deviceOpen, ioReq, stream, mainVars,
                   historyVars>>

\* After end_stream(wait = true) the thread leaves once its queue is empty.
IoExit(d) ==
    /\ ioPc[d] = "idle"
    /\ ~deviceOpen[d]
    /\ \A w \in deviceQueue : DeviceOf[w.file] # d
    /\ ioPc' = [ioPc EXCEPT ![d] = "exited"]
    /\ UNCHANGED <<clientVars, delivered, rpcVars, backendQueue, status,
                   shutdown, deviceQueue, deviceOpen, ioReq, stream, mainVars,
                   historyVars>>

IoThread(d) == IoTake(d) \/ IoFinish(d) \/ IoReport(d) \/ IoExit(d)

-----------------------------------------------------------------------------
(* The RPC thread: run(), _check_backend_queue(), _handle_request().       *)

\* _send_frontend_message(): with ZMQ_ROUTER_MANDATORY a send to a client
\* that is gone is an error, which is logged and forgotten.
Send(c, m) ==
    delivered' = IF c \in alive
                 THEN [delivered EXCEPT ![c] = Append(@, m)]
                 ELSE delivered

\* (mutant) the backend queue is not looked at
RpcTopNoCheck ==
    /\ rpcPc = "top"
    /\ rpcPc' = IF shutdown THEN "exited" ELSE "recv"
    /\ UNCHANGED <<clientVars, delivered, cur, todo, reply, backendQueue,
                   status, shutdown, deviceVars, stream, mainVars, historyVars>>

RpcTop ==
    /\ rpcPc = "top"
    /\ rpcPc' = IF shutdown THEN "exited" ELSE "drain"
    /\ UNCHANGED <<clientVars, delivered, cur, todo, reply, backendQueue,
                   status, shutdown, deviceVars, stream, mainVars, historyVars>>

SendFirst(e) ==
    IF e.write.client = NoClient THEN UNCHANGED delivered
                                 ELSE Send(e.write.client, ChunkMsg(e))

\* (mutant) replies are also sent while the chunks are being enqueued
RpcSendReplyAnytime ==
    /\ rpcPc \in {"drain", "enqueue"}
    /\ backendQueue # <<>>
    /\ backendQueue' = Tail(backendQueue)
    /\ SendFirst(Head(backendQueue))
    /\ UNCHANGED <<clientVars, rpcVars, status, shutdown, deviceVars, stream,
                   mainVars, historyVars>>

\* (mutant) the queue is cleared after its first entry
RpcSendReplyClears ==
    /\ rpcPc = "drain"
    /\ backendQueue # <<>>
    /\ backendQueue' = <<>>
    /\ SendFirst(Head(backendQueue))
    /\ UNCHANGED <<clientVars, rpcVars, status, shutdown, deviceVars, stream,
                   mainVars, historyVars>>

\* (mutant) the entry stays in the queue
RpcSendReplyPeeks ==
    /\ rpcPc = "drain"
    /\ backendQueue # <<>>
    /\ SendFirst(Head(backendQueue))
    /\ UNCHANGED <<clientVars, rpcVars, backendQueue, status, shutdown,
                   deviceVars, stream, mainVars, historyVars>>

\* One turn of the loop of _check_backend_queue().
RpcSendReply ==
    /\ rpcPc = "drain"
    /\ backendQueue # <<>>
    /\ backendQueue' = Tail(backendQueue)
    /\ SendFirst(Head(backendQueue))
    /\ UNCHANGED <<clientVars, rpcVars, status, shutdown, deviceVars, stream,
                   mainVars, historyVars>>

RpcDrained ==
    /\ rpcPc = "drain"
    /\ backendQueue = <<>>
    /\ rpcPc' = "recv"
    /\ UNCHANGED <<clientVars, delivered, cur, todo, reply, backendQueue,
                   status, shutdown, deviceVars, stream, mainVars, historyVars>>

\* No request within 100 ms: back to the top of the loop.
RpcTimeout ==
    /\ rpcPc = "recv"
    /\ \A c \in Clients : inbox[c] = <<>>
    /\ rpcPc' = "top"
    /\ UNCHANGED <<clientVars, delivered, cur, todo, reply, backendQueue,
                   status, shutdown, deviceVars, stream, mainVars, historyVars>>

RpcRecvFails ==
    /\ RecvMayFail
    /\ rpcPc = "recv"
    /\ rpcPc' = "exited"
    /\ UNCHANGED <<clientVars, delivered, cur, todo, reply, backendQueue,
                   status, shutdown, deviceVars, stream, mainVars, historyVars>>

\* recv() hands over the oldest request of client c.
Receive(c, fn) ==
    /\ rpcPc = "recv"
    /\ inbox[c] # <<>>
    /\ Head(inbox[c]).fn = fn
    /\ inbox' = [inbox EXCEPT ![c] = Tail(@)]

\* A request that is dropped with a log line: wrong number of parts, unknown
\* function, wrong arguments, an exception in the handler.
RpcBad(c) ==
    /\ Receive(c, "bad")
    /\ rpcPc' = "top"
    /\ UNCHANGED <<alive, sent, delivered, cur, todo, reply, backendQueue,
                   status, shutdown, deviceVars, stream, mainVars, historyVars>>

RpcStatus(c) ==
    /\ Receive(c, "get_writechunk_status")
    /\ LET r == Head(inbox[c]) IN
         Send(c, [kind |-> "status", token |-> r.token, file |-> r.file,
                  status |-> status[r.file]])
    /\ rpcPc' = "top"
    /\ UNCHANGED <<alive, sent, cur, todo, reply, backendQueue, status,
                   shutdown, deviceVars, stream, mainVars, historyVars>>

\* write_chunks, first part: the snapshot of the ring buffers.  It is any set
\* of chunks; they are enqueued one after the other in an unspecified order.
RpcWriteChunks(c) ==
    /\ Receive(c, "write_chunks")
    /\ cur' = [client |-> c, token |-> Head(inbox[c]).token,
               pattern |-> Head(inbox[c]).pattern]
    /\ todo' \in SUBSET Chunks
    /\ reply' = NoReply
    /\ rpcPc' = "enqueue"
    /\ UNCHANGED <<alive, sent, delivered, backendQueue, status, shutdown,
                   deviceVars, stream, mainVars, historyVars>>

\* The body of the loop over the snapshot.
RpcEnqueue(k) ==
    /\ rpcPc = "enqueue"
    /\ k \in todo
    /\ LET f == FileName[<<cur.pattern, k>>] IN
         /\ EnqueueWrite([client |-> cur.client, token |-> cur.token,
                          chunk |-> k, file |-> f])
         /\ reply' = IF Accepts(f)
                     THEN [accepted |-> reply.accepted \cup {k},
                           refused  |-> reply.refused]
                     ELSE [accepted |-> reply.accepted,
                           refused  |-> reply.refused \cup {k}]
    /\ todo' = todo \ {k}
    /\ UNCHANGED <<clientVars, delivered, rpcPc, cur, backendQueue, shutdown,
                   deviceOpen, ioPc, ioReq, stream, mainVars, written, failed>>

\* (mutant) the refused chunks are announced like the others
RpcSendListUnchecked ==
    /\ rpcPc = "enqueue"
    /\ todo = {}
    /\ Send(cur.client, [kind |-> "list", token |-> cur.token,
                         accepted |-> reply.accepted \cup reply.refused,
                         refused |-> {}])
    /\ rpcPc' = "top"
    /\ cur' = NoCur
    /\ reply' = NoReply
    /\ UNCHANGED <<clientVars, todo, backendQueue, status, shutdown,
                   deviceVars, stream, mainVars, historyVars>>

\* The initial reply, once every chunk has been handed to the pool.
RpcSendList ==
    /\ rpcPc = "enqueue"
    /\ todo = {}
    /\ Send(cur.client, [kind |-> "list", token |-> cur.token,
                         accepted |-> reply.accepted,
                         refused |-> reply.refused])
    /\ rpcPc' = "top"
    /\ cur' = NoCur
    /\ reply' = NoReply
    /\ UNCHANGED <<clientVars, todo, backendQueue, status, shutdown,
                   deviceVars, stream, mainVars, historyVars>>

EndStream == stream' = IF stream = "running" THEN "ending" ELSE stream

\* (mutant) join_threads() without end_stream()
RpcShutdownOnlyJoins(c) ==
    /\ Receive(c, "shutdown")
    /\ shutdown' = TRUE
    /\ rpcPc' = "join"
    /\ UNCHANGED <<alive, sent, delivered, cur, todo, reply, backendQueue,
                   status, deviceVars, stream, mainVars, historyVars>>

\* The shutdown RPC: do_shutdown() up to join_threads().
RpcShutdown(c) ==
    /\ Receive(c, "shutdown")
    /\ EndStream
    /\ shutdown' = TRUE
    /\ rpcPc' = "join"
    /\ UNCHANGED <<alive, sent, delivered, cur, todo, reply, backendQueue,
                   status, deviceVars, mainVars, historyVars>>

RpcJoined ==
    /\ rpcPc = "join"
    /\ stream = "ended"
    /\ rpcPc' = "top"
    /\ UNCHANGED <<clientVars, delivered, cur, todo, reply, backendQueue,
                   status, shutdown, deviceVars, stream, mainVars, historyVars>>

RpcThread ==
    \/ RpcTop \/ RpcSendReply \/ RpcDrained \/ RpcTimeout
    \/ \E c \in Clients :
         RpcBad(c) \/ RpcStatus(c) \/ RpcWriteChunks(c) \/ RpcShutdown(c)
    \/ \E k \in Chunks : RpcEnqueue(k)
    \/ RpcSendList \/ RpcJoined

\* L1RpcServer::enqueue_write_request(), called by a test thread: a write
\* without a client.  When the pool refuses it, it throws and changes nothing.
TestEnqueue(k, p) ==
    LET w == [client |-> NoClient, token |-> 0, chunk |-> k,
              file |-> FileName[<<p, k>>]]
    IN  /\ \A v \in accepted : v.client = NoClient => v.chunk # k
        /\ Accepts(w.file)
        /\ EnqueueWrite(w)
        /\ UNCHANGED <<clientVars, delivered, rpcVars, backendQueue, shutdown,
                       deviceOpen, ioPc, ioReq, stream, mainVars, written,
                       failed>>

-----------------------------------------------------------------------------
(* The stream and the main thread.                                         *)

\* The L0 senders end the stream.
L0Ends ==
    /\ stream = "running"
    /\ EndStream
    /\ UNCHANGED <<clientVars, delivered, rpcVars, backendQueue, status,
                   shutdown, deviceVars, mainVars, historyVars>>

\* The network and assembler threads run out of work and exit.
StreamThreadsExit ==
    /\ stream = "ending"
    /\ stream' = "ended"
    /\ UNCHANGED <<clientVars, delivered, rpcVars, backendQueue, status,
                   shutdown, deviceVars, mainVars, historyVars>>

\* The dedispersion threads have seen the last chunk and are joined, when they
\* have done waiting for their L1b children.
MainJoinDedispersion ==
    /\ mainPc = "dedispersion"
    /\ stream = "ended"
    /\ mainPc' = "devices"
    /\ UNCHANGED <<clientVars, delivered, rpcVars, backendQueue, status,
                   shutdown, deviceVars, stream, idev, historyVars>>

\* output_devices[idev]->end_stream(true)
MainEndDevice ==
    /\ mainPc = "devices"
    /\ idev <= NumDevices
    /\ deviceOpen' = [deviceOpen EXCEPT ![idev] = FALSE]
    /\ mainPc' = "joinDevice"
    /\ UNCHANGED <<clientVars, delivered, rpcVars, backendQueue, status,
                   shutdown, deviceQueue, ioPc, ioReq, stream, idev,
                   historyVars>>

\* output_devices[idev]->join_thread()
MainJoinDevice ==
    /\ mainPc = "joinDevice"
    /\ ioPc[idev] = "exited"
    /\ idev' = idev + 1
    /\ mainPc' = "devices"
    /\ UNCHANGED <<clientVars, delivered, rpcVars, backendQueue, status,
                   shutdown, deviceVars, stream, historyVars>>

\* rpc_servers[istream]->do_shutdown(), up to join_threads()
MainShutdownRpc ==
    /\ mainPc = "devices"
    /\ idev > NumDevices
    /\ EndStream
    /\ shutdown' = TRUE
    /\ mainPc' = "joinStream"
    /\ UNCHANGED <<clientVars, delivered, rpcVars, backendQueue, status,
                   deviceVars, idev, historyVars>>

MainJoinStream ==
    /\ mainPc = "joinStream"
    /\ stream = "ended"
    /\ mainPc' = "joinRpc"
    /\ UNCHANGED <<clientVars, delivered, rpcVars, backendQueue, status,
                   shutdown, deviceVars, stream, idev, historyVars>>

\* rpc_threads[istream].join()
MainJoinRpc ==
    /\ mainPc = "joinRpc"
    /\ rpcPc = "exited"
    /\ mainPc' = "done"
    /\ UNCHANGED <<clientVars, delivered, rpcVars, backendQueue, status,
                   shutdown, deviceVars, stream, idev, historyVars>>

MainThread ==
    \/ MainJoinDedispersion \/ MainEndDevice \/ MainJoinDevice
    \/ MainShutdownRpc \/ MainJoinStream \/ MainJoinRpc

\* The process has exited.
Exited == mainPc = "done" /\ UNCHANGED vars

-----------------------------------------------------------------------------

Next ==
    \/ \E c \in Clients : ClientLeave(c) \/ \E r \in Requests : ClientSend(c, r)
    \/ \E d \in Devices : IoThread(d)
    \/ RpcThread
    \/ RpcRecvFails
    \/ \E k \in TestChunks, p \in Patterns : TestEnqueue(k, p)
    \/ L0Ends
    \/ StreamThreadsExit
    \/ MainThread
    \/ Exited

\* Threads are scheduled and disks answer.  Nothing makes a client speak or L0
\* end the stream, and no fairness is given to a failing recv().
Fairness ==
    /\ WF_vars(RpcThread)
    /\ \A d \in Devices : WF_vars(IoThread(d))
    /\ WF_vars(StreamThreadsExit)
    /\ WF_vars(mainPc # "dedispersion" /\ MainThread)

Spec     == Init /\ [][Next]_vars
FairSpec == Spec /\ Fairness

-----------------------------------------------------------------------------
(* Properties.                                                             *)

TypeOK ==
    /\ alive \subseteq Clients
    /\ sent \in [Clients -> 0 .. MaxRequests]
    /\ inbox \in [Clients -> Seq(Requests)]
    /\ delivered \in [Clients -> Seq(Messages)]
    /\ rpcPc \in {"top", "drain", "recv", "enqueue", "join", "exited"}
    /\ cur \in {NoCur} \cup
              [client : Clients, token : Tokens, pattern : Patterns]
    /\ rpcPc = "enqueue" => cur.client \in Clients
    /\ todo \subseteq Chunks
    /\ reply \in [accepted : SUBSET Chunks, refused : SUBSET Chunks]
    /\ backendQueue \in Seq(Entries)
    /\ status \in [Files -> StatusSet]
    /\ shutdown \in BOOLEAN
    /\ deviceQueue \subseteq Writes
    /\ deviceOpen \in [Devices -> BOOLEAN]
    /\ ioPc \in [Devices -> {"idle", "writing", "report", "exited"}]
    /\ ioReq \in [Devices -> Writes \cup {NoWrite}]
    /\ \A d \in Devices : ioPc[d] \in {"writing", "report"} => ioReq[d] \in Writes
    /\ stream \in {"running", "ending", "ended"}
    /\ mainPc \in {"dedispersion", "devices", "joinDevice", "joinStream",
                   "joinRpc", "done"}
    /\ idev \in 1 .. NumDevices + 1
    /\ mainPc = "joinDevice" => idev \in Devices
    /\ accepted \subseteq Writes /\ written \subseteq Writes
    /\ failed \subseteq Writes

\* A client learns the list of chunks before it is told that one of them has
\* been written, although the I/O thread may finish the first chunks while
\* the handler is still enqueueing the others (l1-rpc.cpp:874-916).
ReplyAfterList ==
    \A c \in Clients : \A j \in DOMAIN delivered[c] :
        LET m == delivered[c][j] IN
        m.kind = "chunk" =>
            \E i \in 1 .. j - 1 :
                /\ delivered[c][i].kind = "list"
                /\ delivered[c][i].token = m.token
                /\ m.chunk \in delivered[c][i].accepted

\* A client gets one list per request and one reply per chunk: a client that
\* counts replies (rpc_client.py:419-421) never counts one twice.
ReplyAtMostOnce ==
    \A c \in Clients : \A i, j \in DOMAIN delivered[c] :
        LET m == delivered[c][i]
            n == delivered[c][j]
        IN  /\ i # j
            /\ m.kind = n.kind
            /\ m.token = n.token
            => m.kind = "chunk" /\ m.chunk # n.chunk

\* What a chunk reply says is how the write of that client's own chunk to that
\* file ended (status_changed(), l1-rpc.cpp:204-229).
ReplyTruthful ==
    \A c \in Clients : \A j \in DOMAIN delivered[c] :
        LET m == delivered[c][j]
            w == [client |-> c, token |-> m.token, chunk |-> m.chunk,
                  file |-> m.file]
        IN  m.kind = "chunk" => w \in (IF m.success THEN written ELSE failed)

\* No finished write of a connected client vanishes on its way from the I/O
\* thread through the backend queue to the socket.
ReplyNotLost ==
    \A w \in written \cup failed :
        w.client \in alive =>
            \/ \E d \in Devices : ioPc[d] = "report" /\ ioReq[d] = w
            \/ \E i \in DOMAIN backendQueue : backendQueue[i].write = w
            \/ \E j \in DOMAIN delivered[w.client] :
                  LET m == delivered[w.client][j] IN
                  /\ m.kind = "chunk"
                  /\ m.token = w.token
                  /\ m.chunk = w.chunk
                  /\ m.file = w.file

\* The status of a file whose writes have all ended is final and is how one of
\* them ended; a file with a write under way is known to the map.
StatusSettled ==
    \A f \in Files :
        LET of(S) == {w \in S : w.file = f} IN
        /\ of(accepted) = {} <=> status[f] = "UNKNOWN"
        /\ of(Pending) = {} => status[f] # "QUEUED"
        /\ status[f] = "SUCCEEDED" => of(written) # {}
        /\ status[f] = "FAILED" => of(failed) # {}

\* As the client sees it: once told that a chunk has been written, asking for
\* the status of its file gives a final answer, unless another write to the
\* same file has been accepted meanwhile.
StatusAfterReply ==
    \A c \in Clients : \A i, j \in DOMAIN delivered[c] :
        LET m == delivered[c][i]
            n == delivered[c][j]
        IN  i < j /\ m.kind = "chunk" /\ n.kind = "status" /\ m.file = n.file =>
                \/ n.status \in Final
                \/ \E w \in accepted :
                     w.file = m.file /\ w # [client |-> c, token |-> m.token,
                                            chunk |-> m.chunk, file |-> m.file]

\* When main goes on to take down the RPC server, every write ever accepted
\* has ended and no later one can be accepted, whatever the RPC thread was
\* doing when the devices were closed (ch-frb-l1.cpp:1493-1500).
DevicesDrained ==
    /\ mainPc \in {"joinStream", "joinRpc", "done"} => Pending = {}
    /\ \A d \in Devices : ioPc[d] = "exited" =>
           \A w \in Pending : DeviceOf[w.file] # d

\* A write of a client that stays is reported, unless the server is shut down.
AcceptedIsAnswered ==
    \A w \in [client : Clients, token : Tokens, chunk : Chunks, file : Files] :
        w \in accepted ~>
            \/ w.client \notin alive
            \/ shutdown
            \/ \E j \in DOMAIN delivered[w.client] :
                 delivered[w.client][j] = ChunkMsg([write |-> w,
                                             success |-> w \in written])

\* Shutdown, from an RPC or because the stream has ended, completes: every
\* thread exits, although the RPC thread and main both call do_shutdown() and
\* wait for the stream, and main waits for the devices and the RPC thread.  Only
\* a dedispersion thread that waits for its L1b child after the end of the stream
\* may keep main (ch-frb-l1.cpp:920-927).
ShutdownCompletes ==
    shutdown \/ stream # "running" ~>
        \/ mainPc = "done"
        \/ mainPc = "dedispersion" /\ stream = "ended"

-----------------------------------------------------------------------------
(* The server implements the abstract write service: what the service has  *)
(* announced and answered is what the socket has accepted for the clients. *)

Announcements ==
    UNION {{<<c, delivered[c][i].token, delivered[c][i].accepted>> :
              i \in {j \in DOMAIN delivered[c] : delivered[c][j].kind = "list"}} :
            c \in Clients}

Answers ==
    UNION {{LET m == delivered[c][i] IN
              <<[client |-> c, token |-> m.token, chunk |-> m.chunk,
                 file |-> m.file], m.success>> :
              i \in {j \in DOMAIN delivered[c] : delivered[c][j].kind = "chunk"}} :
            c \in Clients}

Service == INSTANCE WriteService
             WITH announced <- Announcements, answered <- Answers

\* Every step of every thread is a step of the abstract service or none of its
\* business.
ImplementsService == Service!Spec
=============================================================================
