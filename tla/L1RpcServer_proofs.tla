------------------------ MODULE L1RpcServer_proofs ------------------------
(***************************************************************************)
(* Proofs about L1RpcServer, for any number of clients, chunks, files,     *)
(* devices and requests: its safety properties, from an invariant that     *)
(* follows a write through its life, and that nobody waits in vain and     *)
(* nothing is done over.                                                   *)
(***************************************************************************)
EXTENDS L1RpcServer, TLAPS

\* The state components grouped by the tuples that UNCHANGED clauses name.
LEMMA VarsUnchanged ==
    UNCHANGED vars =>
        /\ UNCHANGED <<alive, sent, inbox, delivered>>
        /\ UNCHANGED <<rpcPc, cur, todo, reply, backendQueue, status, shutdown>>
        /\ UNCHANGED <<deviceQueue, deviceOpen, ioPc, ioReq, stream>>
        /\ UNCHANGED <<mainPc, idev, accepted, written, failed>>
  BY DEF vars, clientVars, rpcVars, deviceVars, mainVars, historyVars

-----------------------------------------------------------------------------
(* The types of requests and messages.                                     *)

LEMMA RequestTyped ==
    ASSUME NEW r \in Requests
    PROVE  /\ r.token \in Tokens
           /\ r.fn = "write_chunks" => r.pattern \in Patterns
           /\ r.fn = "get_writechunk_status" => r.file \in Files
  BY DEF Requests

LEMMA WriteTyped ==
    /\ \A c \in Clients, t \in Tokens, k \in Chunks, f \in Files :
         [client |-> c, token |-> t, chunk |-> k, file |-> f] \in Writes
    /\ \A k \in Chunks, f \in Files :
         [client |-> NoClient, token |-> 0, chunk |-> k, file |-> f] \in Writes
  BY DEF Writes

LEMMA WriteFields ==
    ASSUME NEW w \in Writes
    PROVE  /\ w.chunk \in Chunks
           /\ w.file \in Files
           /\ w.client # NoClient => w.client \in Clients /\ w.token \in Tokens
  BY DEF Writes

LEMMA EntryTyped ==
    ASSUME NEW w \in Writes, NEW b \in BOOLEAN
    PROVE  [write |-> w, success |-> b] \in Entries
  BY DEF Entries

LEMMA ListMsgTyped ==
    ASSUME NEW t \in Tokens, NEW yes \in SUBSET Chunks, NEW no \in SUBSET Chunks
    PROVE  [kind |-> "list", token |-> t, accepted |-> yes, refused |-> no]
             \in Messages
  BY DEF ListMsgs, Messages

LEMMA StatusMsgTyped ==
    ASSUME NEW t \in Tokens, NEW f \in Files, NEW st \in StatusSet
    PROVE  [kind |-> "status", token |-> t, file |-> f, status |-> st]
             \in Messages
  BY DEF StatusMsgs, Messages

LEMMA ChunkMsgTyped ==
    ASSUME NEW e \in Entries, e.write.client # NoClient
    PROVE  /\ e.write.client \in Clients
           /\ ChunkMsg(e) \in Messages
<1>1. /\ e.write \in Writes
      /\ e.success \in BOOLEAN
  BY DEF Entries
<1>2. ChunkMsg(e) \in ChunkMsgs
  BY <1>1, WriteFields DEF ChunkMsg, ChunkMsgs
<1> QED BY <1>1, <1>2, WriteFields DEF Messages

LEMMA SendTyped ==
    ASSUME NEW c \in Clients, NEW m \in Messages, Send(c, m),
           delivered \in [Clients -> Seq(Messages)]
    PROVE  delivered' \in [Clients -> Seq(Messages)]
  BY DEF Send

\* The write that the chunk k of the current request becomes.
CurWrite(k) == [client |-> cur.client, token |-> cur.token, chunk |-> k,
                file |-> FileName[<<cur.pattern, k>>]]

LEMMA CurTyped ==
    ASSUME TypeOK, rpcPc = "enqueue"
    PROVE  /\ cur.client \in Clients
           /\ cur.token \in Tokens
           /\ \A k \in Chunks : CurWrite(k) \in Writes
<1>1. cur \in [client : Clients, token : Tokens, pattern : Patterns]
  BY ConstantsAssumption DEF TypeOK, NoCur
<1>2. ASSUME NEW k \in Chunks PROVE FileName[<<cur.pattern, k>>] \in Files
  BY <1>1, ConstantsAssumption
<1> QED BY <1>1, <1>2, WriteTyped DEF CurWrite

LEMMA EnqueueTyped ==
    ASSUME TypeOK, NEW w \in Writes, EnqueueWrite(w)
    PROVE  /\ deviceQueue' \subseteq Writes
           /\ accepted' \subseteq Writes
           /\ status' \in [Files -> StatusSet]
<1>1. CASE Accepts(w.file)
  <2>1. /\ deviceQueue' = deviceQueue \cup {w}
        /\ accepted' = accepted \cup {w}
        /\ status' = [status EXCEPT ![w.file] = "QUEUED"]
    BY <1>1 DEF EnqueueWrite
  <2> QED BY <2>1 DEF TypeOK, StatusSet
<1>2. CASE ~Accepts(w.file)
  BY <1>2 DEF EnqueueWrite, TypeOK
<1> QED BY <1>1, <1>2

-----------------------------------------------------------------------------
(* Type correctness.                                                       *)

\* Every variable keeps its type, and the program counters of the three kinds
\* of thread agree with the data they are about to use.
THEOREM TypeCorrect == Spec => []TypeOK
<1> USE ConstantsAssumption
        DEF TypeOK, clientVars, rpcVars, deviceVars, mainVars, historyVars
<1>1. Init => TypeOK
  <2> SUFFICES ASSUME Init PROVE TypeOK
    OBVIOUS
  <2>1. /\ alive \subseteq Clients
        /\ sent \in [Clients -> 0 .. MaxRequests]
        /\ inbox \in [Clients -> Seq(Requests)]
        /\ delivered \in [Clients -> Seq(Messages)]
        /\ backendQueue \in Seq(Entries)
    BY DEF Init
  <2>2. status \in [Files -> StatusSet]
    BY DEF Init, StatusSet
  <2>3. /\ idev \in 1 .. NumDevices + 1
        /\ mainPc = "dedispersion"
    BY DEF Init
  <2> QED BY <2>1, <2>2, <2>3 DEF Init, NoReply
<1>2. TypeOK /\ [Next]_vars => TypeOK'
  <2> SUFFICES ASSUME TypeOK, [Next]_vars PROVE TypeOK'
    OBVIOUS
  <2>1. ASSUME NEW c \in Clients, ClientLeave(c) PROVE TypeOK'
    BY <2>1 DEF ClientLeave
  <2>2. ASSUME NEW c \in Clients, NEW r \in Requests, ClientSend(c, r)
        PROVE TypeOK'
    BY <2>2, RequestTyped DEF ClientSend, Tokens
  <2>3. ASSUME NEW d \in Devices, IoTake(d) PROVE TypeOK'
    BY <2>3 DEF IoTake
  <2>4. ASSUME NEW d \in Devices, IoFinish(d) PROVE TypeOK'
    <3>1. /\ ioReq[d] \in Writes
          /\ ioReq[d].file \in Files
      BY <2>4, WriteFields DEF IoFinish
    <3>2. status' \in [Files -> StatusSet]
      BY <2>4, <3>1 DEF IoFinish, StatusSet, Final
    <3>3. written' \subseteq Writes /\ failed' \subseteq Writes
      BY <2>4, <3>1 DEF IoFinish
    <3> QED BY <2>4, <3>2, <3>3 DEF IoFinish
  <2>5. ASSUME NEW d \in Devices, IoReport(d) PROVE TypeOK'
    BY <2>5 DEF IoReport, Entries
  <2>6. ASSUME NEW d \in Devices, IoExit(d) PROVE TypeOK'
    BY <2>6 DEF IoExit
  <2>7. CASE RpcTop BY <2>7 DEF RpcTop
  <2>8. CASE RpcSendReply 
    <3>1. /\ Head(backendQueue) \in Entries
          /\ backendQueue' \in Seq(Entries)
      BY <2>8 DEF RpcSendReply
    <3>2. delivered' \in [Clients -> Seq(Messages)]
      BY <2>8, <3>1, ChunkMsgTyped, SendTyped DEF RpcSendReply, SendFirst
    <3> QED BY <2>8, <3>1, <3>2 DEF RpcSendReply
  <2>9. CASE RpcDrained BY <2>9 DEF RpcDrained
  <2>10. CASE RpcTimeout BY <2>10 DEF RpcTimeout
  <2>11. CASE RpcRecvFails BY <2>11 DEF RpcRecvFails
  <2>12. ASSUME NEW c \in Clients, RpcBad(c) PROVE TypeOK'
    BY <2>12 DEF RpcBad, Receive
  <2>13. ASSUME NEW c \in Clients, RpcStatus(c) PROVE TypeOK'
    <3>1. /\ Head(inbox[c]) \in Requests
          /\ inbox' \in [Clients -> Seq(Requests)]
      BY <2>13 DEF RpcStatus, Receive
    <3>2. delivered' \in [Clients -> Seq(Messages)]
      BY <2>13, <3>1, RequestTyped, StatusMsgTyped, SendTyped
         DEF RpcStatus, Receive
    <3> QED BY <2>13, <3>1, <3>2 DEF RpcStatus
  <2>14. ASSUME NEW c \in Clients, RpcWriteChunks(c) PROVE TypeOK'
    <3>1. /\ Head(inbox[c]) \in Requests
          /\ inbox' \in [Clients -> Seq(Requests)]
      BY <2>14 DEF RpcWriteChunks, Receive
    <3>2. cur' \in [client : Clients, token : Tokens, pattern : Patterns]
      BY <2>14, <3>1, RequestTyped DEF RpcWriteChunks, Receive
    <3> QED BY <2>14, <3>1, <3>2 DEF RpcWriteChunks, NoReply
  <2>15. ASSUME NEW c \in Clients, RpcShutdown(c) PROVE TypeOK'
    BY <2>15 DEF RpcShutdown, Receive, EndStream
  <2>16. ASSUME NEW k \in Chunks, RpcEnqueue(k) PROVE TypeOK'
    <3>1. /\ CurWrite(k) \in Writes
          /\ CurWrite(k).file \in Files
      BY <2>16, CurTyped, WriteFields DEF RpcEnqueue
    <3>2. EnqueueWrite(CurWrite(k))
      BY <2>16 DEF RpcEnqueue, CurWrite
    <3>3. /\ deviceQueue' \subseteq Writes
          /\ accepted' \subseteq Writes
          /\ status' \in [Files -> StatusSet]
      BY <3>1, <3>2, EnqueueTyped
    <3>4. reply' \in [accepted : SUBSET Chunks, refused : SUBSET Chunks]
      BY <2>16 DEF RpcEnqueue
    <3> QED BY <2>16, <3>3, <3>4 DEF RpcEnqueue
  <2>17. CASE RpcSendList 
    <3>1. delivered' \in [Clients -> Seq(Messages)]
      BY <2>17, CurTyped, ListMsgTyped, SendTyped DEF RpcSendList
    <3> QED BY <2>17, <3>1 DEF RpcSendList, NoReply
  <2>18. CASE RpcJoined BY <2>18 DEF RpcJoined
  <2>19. ASSUME NEW k \in TestChunks, NEW p \in Patterns, TestEnqueue(k, p)
         PROVE TypeOK'
    <3> DEFINE w == [client |-> NoClient, token |-> 0, chunk |-> k,
                     file |-> FileName[<<p, k>>]]
    <3>1. /\ FileName[<<p, k>>] \in Files
          /\ w \in Writes
          /\ w.file \in Files
      BY WriteTyped
    <3>2. EnqueueWrite(w)
      BY <2>19 DEF TestEnqueue
    <3>3. /\ deviceQueue' \subseteq Writes
          /\ accepted' \subseteq Writes
          /\ status' \in [Files -> StatusSet]
      BY <3>1, <3>2, EnqueueTyped
    <3> QED BY <2>19, <3>3 DEF TestEnqueue
  <2>20. CASE L0Ends BY <2>20 DEF L0Ends, EndStream
  <2>21. CASE StreamThreadsExit BY <2>21 DEF StreamThreadsExit
  <2>22. CASE MainJoinDedispersion BY <2>22 DEF MainJoinDedispersion
  <2>23. CASE MainEndDevice BY <2>23 DEF MainEndDevice, Devices
  <2>24. CASE MainJoinDevice BY <2>24 DEF MainJoinDevice, Devices
  <2>25. CASE MainShutdownRpc BY <2>25 DEF MainShutdownRpc, EndStream
  <2>26. CASE MainJoinStream BY <2>26 DEF MainJoinStream
  <2>27. CASE MainJoinRpc BY <2>27 DEF MainJoinRpc
  <2>28. CASE UNCHANGED vars BY <2>28, VarsUnchanged
  <2> QED
    BY <2>1, <2>2, <2>3, <2>4, <2>5, <2>6, <2>7, <2>8, <2>9, <2>10, <2>11,
       <2>12, <2>13, <2>14, <2>15, <2>16, <2>17, <2>18, <2>19, <2>20, <2>21,
       <2>22, <2>23, <2>24, <2>25, <2>26, <2>27, <2>28
       DEF Next, IoThread, RpcThread, MainThread, Exited
<1>3. QED BY <1>1, <1>2, PTL DEF Spec
-----------------------------------------------------------------------------
(* The inductive invariant.  None of the safety properties is inductive by *)
(* itself; the parts below say, in turn, where a write can be, why no two  *)
(* writes have the same identity, what a client has been told, what waits  *)
(* to be reported, and how far main has got with the devices.              *)

QueueInv ==
    /\ written \cap failed = {}
    /\ written \cup failed \subseteq accepted
    /\ deviceQueue \subseteq Pending
    /\ \A w \in accepted : DeviceOf[w.file] \in Devices
    /\ \A w \in Pending :
          w \in deviceQueue \/ (\E d \in Devices : ioPc[d] = "writing" /\ ioReq[d] = w)
    /\ \A d \in Devices :
          /\ ioPc[d] = "writing" => ioReq[d] \in Pending \ deviceQueue
          /\ ioPc[d] = "report" => ioReq[d] \in written \cup failed
          /\ ioPc[d] \in {"writing", "report"} => DeviceOf[ioReq[d].file] = d
          /\ ioPc[d] = "exited" =>
                ~deviceOpen[d] /\ \A w \in deviceQueue : DeviceOf[w.file] # d

\* The number of requests of client c the RPC thread has received.
Received(c) == sent[c] - Len(inbox[c])

TokenInv ==
    /\ \A c \in Clients :
          /\ Len(inbox[c]) <= sent[c]
          /\ \A i \in DOMAIN inbox[c] : inbox[c][i].token = Received(c) + i
          /\ \A j \in DOMAIN delivered[c] : delivered[c][j].token <= Received(c)
    /\ \A w \in accepted : w.client \in Clients => w.token <= Received(w.client)
    /\ rpcPc = "enqueue" =>
          /\ cur.token = Received(cur.client)
          /\ \A j \in DOMAIN delivered[cur.client] :
                delivered[cur.client][j].token < cur.token

SameChunk(v, w) == v.client = w.client /\ v.token = w.token /\ v.chunk = w.chunk

IdentityInv ==
    /\ \A v, w \in accepted : SameChunk(v, w) => v = w
    /\ rpcPc = "enqueue" =>
          /\ todo \cap reply.accepted = {}
          /\ \A w \in accepted :
                w.client = cur.client /\ w.token = cur.token =>
                    w.chunk \in reply.accepted

IsReplyTo(m, w) ==
    m.kind = "chunk" /\ m.token = w.token /\ m.chunk = w.chunk /\ m.file = w.file

Lists(m, w) == m.kind = "list" /\ m.token = w.token /\ w.chunk \in m.accepted

Answered(w) ==
    /\ w.client \in Clients
    /\ \E j \in DOMAIN delivered[w.client] : IsReplyTo(delivered[w.client][j], w)

\* Every accepted write of a connected client is in a list that has been sent
\* or in the one under construction.
ListInv ==
    \A w \in accepted :
        w.client \in alive =>
            \/ \E j \in DOMAIN delivered[w.client] : Lists(delivered[w.client][j], w)
            \/ rpcPc = "enqueue" /\ cur.client = w.client /\ cur.token = w.token

BackendInv ==
    /\ \A i \in DOMAIN backendQueue :
          LET e == backendQueue[i] IN
          /\ e.write \in written \cup failed
          /\ e.success = (e.write \in written)
          /\ ~Answered(e.write)
          /\ \A j \in DOMAIN backendQueue : i # j => backendQueue[j].write # e.write
          /\ \A d \in Devices : ioPc[d] = "report" => ioReq[d] # e.write
    /\ \A d \in Devices : ioPc[d] = "report" => ~Answered(ioReq[d])

MainInv ==
    /\ \A d \in Devices : d < idev => ioPc[d] = "exited"
    /\ mainPc \in {"joinStream", "joinRpc", "done"} => idev = NumDevices + 1

IInv ==
    /\ QueueInv
    /\ TokenInv
    /\ IdentityInv
    /\ ListInv
    /\ BackendInv
    /\ MainInv
    /\ ReplyAfterList
    /\ ReplyAtMostOnce
    /\ ReplyTruthful
    /\ ReplyNotLost
    /\ StatusSettled

-----------------------------------------------------------------------------
(* The steps, with those that change nothing the invariant is about in one *)
(* case.                                                                   *)

Quiet ==
    /\ UNCHANGED <<alive, sent, inbox, delivered, cur, todo, reply, backendQueue,
                   status, deviceQueue, deviceOpen, ioPc, ioReq, accepted,
                   written, failed>>
    /\ rpcPc' = "enqueue" <=> rpcPc = "enqueue"

RpcSkip(c) == RpcBad(c) \/ RpcShutdown(c)

LEMMA StepCases ==
    ASSUME TypeOK, [Next]_vars
    PROVE  \/ \E c \in Clients : ClientLeave(c)
           \/ \E c \in Clients, r \in Requests : ClientSend(c, r)
           \/ \E d \in Devices : IoTake(d)
           \/ \E d \in Devices : IoFinish(d)
           \/ \E d \in Devices : IoReport(d)
           \/ \E d \in Devices : IoExit(d)
           \/ RpcSendReply
           \/ \E c \in Clients : RpcSkip(c)
           \/ \E c \in Clients : RpcStatus(c)
           \/ \E c \in Clients : RpcWriteChunks(c)
           \/ \E k \in Chunks : RpcEnqueue(k)
           \/ RpcSendList
           \/ \E k \in TestChunks, p \in Patterns : TestEnqueue(k, p)
           \/ MainEndDevice
           \/ Quiet
<1> USE DEF clientVars, rpcVars, deviceVars, mainVars, historyVars
<1>1. CASE RpcTop BY <1>1 DEF RpcTop, Quiet
<1>2. CASE RpcDrained BY <1>2 DEF RpcDrained, Quiet
<1>3. CASE RpcTimeout BY <1>3 DEF RpcTimeout, Quiet
<1>4. CASE RpcRecvFails BY <1>4 DEF RpcRecvFails, Quiet
<1>5. CASE RpcJoined BY <1>5 DEF RpcJoined, Quiet
<1>6. CASE L0Ends BY <1>6 DEF L0Ends, Quiet
<1>7. CASE StreamThreadsExit BY <1>7 DEF StreamThreadsExit, Quiet
<1>8. CASE MainJoinDedispersion BY <1>8 DEF MainJoinDedispersion, Quiet
<1>9. CASE MainJoinDevice BY <1>9 DEF MainJoinDevice, Quiet
<1>10. CASE MainShutdownRpc BY <1>10 DEF MainShutdownRpc, Quiet
<1>11. CASE MainJoinStream BY <1>11 DEF MainJoinStream, Quiet
<1>12. CASE MainJoinRpc BY <1>12 DEF MainJoinRpc, Quiet
<1>13. CASE UNCHANGED vars BY <1>13, VarsUnchanged DEF Quiet
<1> QED
  BY <1>1, <1>2, <1>3, <1>4, <1>5, <1>6, <1>7, <1>8, <1>9, <1>10, <1>11,
     <1>12, <1>13
     DEF Next, IoThread, RpcThread, MainThread, Exited, RpcSkip

\* What Send(c, m) does to the messages of any client x.
LEMMA SendEffect ==
    ASSUME TypeOK, NEW c \in Clients, NEW m \in Messages, Send(c, m)
    PROVE  /\ \A x \in Clients : \A j \in DOMAIN delivered[x] :
                 /\ j \in DOMAIN delivered'[x]
                 /\ delivered'[x][j] = delivered[x][j]
           /\ \A x \in Clients : \A j \in DOMAIN delivered'[x] :
                 \/ j \in DOMAIN delivered[x]
                 \/ /\ x = c
                    /\ delivered'[x][j] = m
                    /\ j = Len(delivered[x]) + 1
           /\ c \in alive => \E j \in DOMAIN delivered'[c] : delivered'[c][j] = m
<1>1. delivered \in [Clients -> Seq(Messages)]
  BY DEF TypeOK
<1>2. CASE c \notin alive
  BY <1>1, <1>2 DEF Send
<1>3. CASE c \in alive
  <2>1. delivered' = [delivered EXCEPT ![c] = Append(@, m)]
    BY <1>3 DEF Send
  <2>2. /\ delivered'[c] = Append(delivered[c], m)
        /\ \A x \in Clients \ {c} : delivered'[x] = delivered[x]
    BY <1>1, <2>1
  <2>3. /\ delivered[c] \in Seq(Messages)
        /\ Len(delivered'[c]) = Len(delivered[c]) + 1
        /\ DOMAIN delivered[c] = 1 .. Len(delivered[c])
        /\ DOMAIN delivered'[c] = 1 .. Len(delivered[c]) + 1
        /\ \A j \in 1 .. Len(delivered[c]) : delivered'[c][j] = delivered[c][j]
        /\ delivered'[c][Len(delivered[c]) + 1] = m
        /\ Len(delivered[c]) \in Nat
    BY <1>1, <2>2
  <2>4. ASSUME NEW x \in Clients, NEW j \in DOMAIN delivered[x]
        PROVE  j \in DOMAIN delivered'[x] /\ delivered'[x][j] = delivered[x][j]
    BY <2>2, <2>3, <2>4
  <2>5. ASSUME NEW x \in Clients, NEW j \in DOMAIN delivered'[x]
        PROVE  \/ j \in DOMAIN delivered[x]
               \/ x = c /\ delivered'[x][j] = m /\ j = Len(delivered[x]) + 1
    BY <2>2, <2>3, <2>5
  <2>6. \E j \in DOMAIN delivered'[c] : delivered'[c][j] = m
    BY <2>3
  <2> QED BY <2>4, <2>5, <2>6
<1> QED BY <1>2, <1>3

\* What Receive(c, fn) does to the requests of any client x.
LEMMA ReceiveEffect ==
    ASSUME TypeOK, NEW c \in Clients, NEW fn, Receive(c, fn)
    PROVE  /\ rpcPc = "recv"
           /\ Head(inbox[c]) \in Requests
           /\ Head(inbox[c]).fn = fn
           /\ Head(inbox[c]) = inbox[c][1]
           /\ 1 \in DOMAIN inbox[c]
           /\ inbox'[c] = Tail(inbox[c])
           /\ Len(inbox[c]) \in Nat
           /\ Len(inbox'[c]) = Len(inbox[c]) - 1
           /\ \A i \in DOMAIN inbox'[c] :
                 i \in Nat /\ i + 1 \in DOMAIN inbox[c] /\ inbox'[c][i] = inbox[c][i + 1]
           /\ \A x \in Clients \ {c} : inbox'[x] = inbox[x]
  BY DEF Receive, TypeOK
\* Both ways to hand a write to the pool: the write is a new one.
Enqueues(w) ==
    /\ w \in Writes
    /\ \A v \in accepted : ~SameChunk(v, w)
    /\ EnqueueWrite(w)
    /\ w.client \in Clients =>
          rpcPc = "enqueue" /\ w.client = cur.client /\ w.token = cur.token
    /\ UNCHANGED <<alive, sent, inbox, delivered, rpcPc, cur, backendQueue,
                   deviceOpen, ioPc, ioReq, mainPc, idev, written, failed>>

LEMMA EnqueueFresh ==
    ASSUME TypeOK, IdentityInv,
           \/ \E k \in Chunks : RpcEnqueue(k)
           \/ \E k \in TestChunks, p \in Patterns : TestEnqueue(k, p)
    PROVE  \E w : Enqueues(w)
<1> USE DEF clientVars, rpcVars, mainVars
<1>1. ASSUME NEW k \in Chunks, RpcEnqueue(k) PROVE Enqueues(CurWrite(k))
  <2>1. rpcPc = "enqueue" /\ k \in todo
    BY <1>1 DEF RpcEnqueue
  <2>2. CurWrite(k) \in Writes
    BY <2>1, CurTyped
  <2>3. \A v \in accepted : ~SameChunk(v, CurWrite(k))
    BY <2>1 DEF IdentityInv, SameChunk, CurWrite
  <2>4. EnqueueWrite(CurWrite(k))
    BY <1>1 DEF RpcEnqueue, CurWrite
  <2> QED BY <1>1, <2>1, <2>2, <2>3, <2>4 DEF Enqueues, RpcEnqueue, CurWrite
<1>2. ASSUME NEW k \in TestChunks, NEW p \in Patterns, TestEnqueue(k, p)
      PROVE  \E w : Enqueues(w)
  <2> DEFINE w == [client |-> NoClient, token |-> 0, chunk |-> k,
                   file |-> FileName[<<p, k>>]]
  <2>1. w \in Writes
    BY WriteTyped, ConstantsAssumption
  <2>2. \A v \in accepted : ~SameChunk(v, w)
    BY <1>2 DEF TestEnqueue, SameChunk
  <2>3. EnqueueWrite(w)
    BY <1>2 DEF TestEnqueue
  <2>4. Enqueues(w)
    BY <1>2, <2>1, <2>2, <2>3, ConstantsAssumption
       DEF Enqueues, TestEnqueue, rpcVars
  <2> QED BY <2>4
<1> QED BY <1>1, <1>2

\* A write is accepted only by a device that is open.
LEMMA EnqueueEffect ==
    ASSUME TypeOK, NEW w, Enqueues(w)
    PROVE  /\ w \notin accepted
           /\ \/ /\ deviceQueue' = deviceQueue \cup {w}
                 /\ accepted' = accepted \cup {w}
                 /\ status' = [status EXCEPT ![w.file] = "QUEUED"]
                 /\ DeviceOf[w.file] \in Devices
                 /\ deviceOpen[DeviceOf[w.file]]
              \/ UNCHANGED <<deviceQueue, accepted, status>>
<1>1. w \notin accepted
  BY DEF Enqueues, SameChunk
<1>2. w.file \in Files
  BY WriteFields DEF Enqueues
<1>3. CASE Accepts(w.file)
  BY <1>1, <1>2, <1>3, ConstantsAssumption
     DEF Enqueues, EnqueueWrite, Accepts, Devices
<1>4. CASE ~Accepts(w.file)
  BY <1>1, <1>4 DEF Enqueues, EnqueueWrite
<1> QED BY <1>3, <1>4

-----------------------------------------------------------------------------
(* Where a write can be.                                                   *)

LEMMA QueueStep ==
    ASSUME TypeOK, TypeOK', QueueInv, IdentityInv, [Next]_vars
    PROVE  QueueInv'
<1> USE DEF QueueInv, Pending
<1>1. ASSUME NEW d \in Devices, IoTake(d) PROVE QueueInv'
  <2>1. PICK w \in deviceQueue : /\ DeviceOf[w.file] = d
                                 /\ deviceQueue' = deviceQueue \ {w}
                                 /\ ioReq' = [ioReq EXCEPT ![d] = w]
    BY <1>1 DEF IoTake
  <2>2. /\ ioPc[d] = "idle"
        /\ ioPc' = [ioPc EXCEPT ![d] = "writing"]
        /\ UNCHANGED <<deviceOpen, accepted, written, failed>>
    BY <1>1 DEF IoTake, historyVars
  <2> QED BY <2>1, <2>2 DEF TypeOK
<1>2. ASSUME NEW d \in Devices, IoFinish(d) PROVE QueueInv'
  <2>1. /\ ioPc[d] = "writing"
        /\ ioPc' = [ioPc EXCEPT ![d] = "report"]
        /\ UNCHANGED <<deviceQueue, deviceOpen, ioReq, accepted>>
        /\ \/ written' = written \cup {ioReq[d]} /\ failed' = failed
           \/ failed' = failed \cup {ioReq[d]} /\ written' = written
    BY <1>2 DEF IoFinish
  <2> QED BY <2>1 DEF TypeOK
<1>3. ASSUME NEW d \in Devices, IoReport(d) PROVE QueueInv'
  BY <1>3 DEF IoReport, TypeOK, historyVars
<1>4. ASSUME NEW d \in Devices, IoExit(d) PROVE QueueInv'
  BY <1>4 DEF IoExit, TypeOK, historyVars
<1>5. ASSUME NEW w, Enqueues(w) PROVE QueueInv'
  <2>1. UNCHANGED <<deviceOpen, ioPc, ioReq, written, failed>>
    BY <1>5 DEF Enqueues
  <2>2. w \notin accepted
    BY <1>5, EnqueueEffect
  <2>3. CASE UNCHANGED <<deviceQueue, accepted>>
    BY <2>1, <2>3
  <2>4. CASE /\ deviceQueue' = deviceQueue \cup {w}
             /\ accepted' = accepted \cup {w}
             /\ DeviceOf[w.file] \in Devices
             /\ deviceOpen[DeviceOf[w.file]]
    <3>1. \A d \in Devices : ioPc[d] \in {"writing", "report"} => ioReq[d] # w
      BY <2>2
    <3>2. Pending' = Pending \cup {w}
      BY <2>1, <2>2, <2>4
    <3> QED BY <2>1, <2>2, <2>4, <3>1, <3>2
  <2> QED BY <1>5, <2>3, <2>4, EnqueueEffect
<1>6. CASE MainEndDevice
  BY <1>6 DEF MainEndDevice, TypeOK, historyVars
<1>7. CASE UNCHANGED <<deviceQueue, deviceOpen, ioPc, ioReq, accepted, written,
                       failed>>
  BY <1>7
<1> QED
  BY <1>1, <1>2, <1>3, <1>4, <1>5, <1>6, <1>7, StepCases, EnqueueFresh
     DEF ClientLeave, ClientSend, RpcSendReply, RpcSkip, RpcBad, RpcShutdown,
         RpcStatus, RpcWriteChunks, RpcSendList, Quiet, deviceVars, historyVars

-----------------------------------------------------------------------------
(* What the status map says.                                               *)

LEMMA StatusStep ==
    ASSUME TypeOK, TypeOK', QueueInv, IdentityInv, StatusSettled, [Next]_vars
    PROVE  StatusSettled'
<1> USE DEF StatusSettled, Pending
<1>1. ASSUME NEW d \in Devices, IoFinish(d) PROVE StatusSettled'
  <2>1. /\ ioReq[d] \in accepted \ (written \cup failed)
        /\ ioReq[d].file \in Files
    BY <1>1, WriteFields DEF IoFinish, QueueInv, TypeOK
  <2>2. accepted' = accepted
    BY <1>1 DEF IoFinish
  <2>3. CASE /\ written' = written \cup {ioReq[d]}
             /\ status' = [status EXCEPT ![ioReq[d].file] = "SUCCEEDED"]
             /\ failed' = failed
    BY <2>1, <2>2, <2>3 DEF TypeOK
  <2>4. CASE /\ failed' = failed \cup {ioReq[d]}
             /\ status' = [status EXCEPT ![ioReq[d].file] = "FAILED"]
             /\ written' = written
    BY <2>1, <2>2, <2>4 DEF TypeOK
  <2> QED BY <1>1, <2>3, <2>4 DEF IoFinish
<1>2. ASSUME NEW w, Enqueues(w) PROVE StatusSettled'
  <2>1. w \notin written \cup failed
    BY <1>2, EnqueueEffect DEF QueueInv
  <2>2. w.file \in Files /\ written' = written /\ failed' = failed
    BY <1>2, WriteFields DEF Enqueues
  <2>3. w \notin accepted
    BY <1>2, EnqueueEffect
  <2>4. CASE UNCHANGED <<accepted, status>>
    BY <2>2, <2>4
  <2>5. CASE /\ accepted' = accepted \cup {w}
             /\ status' = [status EXCEPT ![w.file] = "QUEUED"]
    <3>1. status'[w.file] = "QUEUED"
      BY <2>2, <2>5 DEF TypeOK
    <3>2. \A f \in Files \ {w.file} : status'[f] = status[f]
      BY <2>5 DEF TypeOK
    <3>3. w \in accepted' \ (written' \cup failed')
      BY <2>1, <2>2, <2>5
    <3> QED BY <2>2, <2>5, <3>1, <3>2, <3>3
  <2> QED BY <1>2, <2>4, <2>5, EnqueueEffect
<1>3. CASE UNCHANGED <<status, accepted, written, failed>>
  BY <1>3
<1> QED
  BY <1>1, <1>2, <1>3, StepCases, EnqueueFresh
     DEF ClientLeave, ClientSend, IoTake, IoReport, IoExit, RpcSendReply,
         RpcSkip, RpcBad, RpcShutdown, RpcStatus, RpcWriteChunks, RpcSendList,
         MainEndDevice, Quiet, historyVars
-----------------------------------------------------------------------------
(* Which tokens have been used.                                            *)

LEMMA MsgTyped ==
    ASSUME NEW m \in Messages
    PROVE  m.token \in Nat /\ m.token > 0
  BY ConstantsAssumption DEF Messages, ListMsgs, ChunkMsgs, StatusMsgs, Tokens

\* Taking a request off the socket.
LEMMA ReceiveTokens ==
    ASSUME TypeOK, TokenInv, NEW c \in Clients, NEW fn, Receive(c, fn),
           sent' = sent
    PROVE  /\ Received(c)' = Received(c) + 1
           /\ Head(inbox[c]).token = Received(c) + 1
           /\ Received(c) \in Int
           /\ \A x \in Clients \ {c} : Received(x)' = Received(x)
           /\ \A x \in Clients :
                 /\ Len(inbox'[x]) <= sent[x]
                 /\ \A i \in DOMAIN inbox'[x] : inbox'[x][i].token = Received(x)' + i
           /\ \A x \in Clients : \A j \in DOMAIN delivered[x] :
                 delivered[x][j].token <= Received(x)'
           /\ \A j \in DOMAIN delivered[c] : delivered[c][j].token < Received(c)'
           /\ \A w \in accepted :
                 w.client \in Clients => w.token <= Received(w.client)'
<1>1. Len(inbox[c]) \in Nat /\ sent[c] \in Nat
  BY ConstantsAssumption DEF TypeOK
<1>2. Received(c)' = Received(c) + 1 /\ Received(c) \in Int
  BY <1>1, ReceiveEffect DEF Received
<1>3. \A x \in Clients \ {c} : Received(x)' = Received(x)
  BY ReceiveEffect DEF Received
<1>4. Head(inbox[c]).token = Received(c) + 1
  BY ReceiveEffect DEF TokenInv
<1>5. Len(inbox'[c]) <= sent[c]
  BY <1>1, ReceiveEffect DEF TokenInv
<1>6. ASSUME NEW i \in DOMAIN inbox'[c]
      PROVE  inbox'[c][i].token = Received(c)' + i
  <2>1. /\ i \in Nat /\ i + 1 \in DOMAIN inbox[c]
        /\ inbox'[c][i] = inbox[c][i + 1]
    BY <1>6, ReceiveEffect
  <2>2. inbox[c][i + 1].token = Received(c) + (i + 1)
    BY <2>1 DEF TokenInv
  <2> QED BY <1>2, <2>1, <2>2
<1>7. ASSUME NEW x \in Clients, NEW j \in DOMAIN delivered[x]
      PROVE  /\ delivered[x][j].token <= Received(x)'
             /\ x = c => delivered[x][j].token < Received(c)'
  <2>1. delivered[x][j].token \in Nat /\ delivered[x][j].token <= Received(x)
    BY <1>7, MsgTyped DEF TokenInv, TypeOK
  <2> QED BY <1>2, <1>3, <2>1
<1>8. ASSUME NEW w \in accepted, w.client \in Clients
      PROVE  w.token <= Received(w.client)'
  <2>1. w.token \in Nat /\ w.token <= Received(w.client)
    BY <1>8, WriteFields, ConstantsAssumption DEF TokenInv, TypeOK, Tokens
  <2> QED BY <1>2, <1>3, <1>8, <2>1
<1> QED BY <1>2, <1>3, <1>4, <1>5, <1>6, <1>7, <1>8, ReceiveEffect DEF TokenInv

\* What the RPC thread sends while it drains the backend queue.
LEMMA SendReplyEffect ==
    ASSUME TypeOK, BackendInv, RpcSendReply
    PROVE  LET e == Head(backendQueue) IN
           /\ rpcPc = "drain" /\ rpcPc' = "drain"
           /\ e = backendQueue[1] /\ 1 \in DOMAIN backendQueue
           /\ e \in Entries /\ e.write \in written \cup failed
           /\ e.success = (e.write \in written)
           /\ \/ e.write.client \notin Clients /\ delivered' = delivered
              \/ e.write.client \in Clients /\ Send(e.write.client, ChunkMsg(e))
           /\ ChunkMsg(e).token = e.write.token
           /\ e.write.client \in Clients => ChunkMsg(e) \in Messages
<1>1. /\ Head(backendQueue) = backendQueue[1]
      /\ 1 \in DOMAIN backendQueue
      /\ Head(backendQueue) \in Entries
  BY DEF RpcSendReply, TypeOK
<1>2. Head(backendQueue).write.client \in Clients =>
          Head(backendQueue).write.client # NoClient
  BY ConstantsAssumption
<1>3. Head(backendQueue).write.client # NoClient =>
          /\ Head(backendQueue).write.client \in Clients
          /\ ChunkMsg(Head(backendQueue)) \in Messages
  BY <1>1, ChunkMsgTyped
<1> QED BY <1>1, <1>2, <1>3 DEF RpcSendReply, SendFirst, BackendInv, ChunkMsg, rpcVars

LEMMA TokenStep ==
    ASSUME TypeOK, TypeOK', QueueInv, TokenInv, IdentityInv, BackendInv,
           [Next]_vars
    PROVE  TokenInv'
<1>a. \A c \in Clients : /\ Len(inbox[c]) \in Nat /\ sent[c] \in Nat
                         /\ Received(c) \in Int
  BY ConstantsAssumption DEF TypeOK, Received
<1>1. ASSUME NEW c \in Clients, NEW r \in Requests, ClientSend(c, r)
      PROVE  TokenInv'
  <2>1. /\ r.token = sent[c] + 1
        /\ sent' = [sent EXCEPT ![c] = @ + 1]
        /\ inbox' = [inbox EXCEPT ![c] = Append(@, r)]
        /\ UNCHANGED <<delivered, rpcPc, cur, accepted>>
    BY <1>1 DEF ClientSend, rpcVars, historyVars
  <2>2. /\ sent'[c] = sent[c] + 1
        /\ Len(inbox'[c]) = Len(inbox[c]) + 1
        /\ inbox'[c][Len(inbox[c]) + 1] = r
        /\ \A i \in DOMAIN inbox[c] : inbox'[c][i] = inbox[c][i]
        /\ \A i \in DOMAIN inbox'[c] :
              i \in DOMAIN inbox[c] \/ i = Len(inbox[c]) + 1
        /\ \A x \in Clients \ {c} : inbox'[x] = inbox[x] /\ sent'[x] = sent[x]
    BY <1>a, <2>1 DEF TypeOK
  <2>3. ASSUME NEW x \in Clients PROVE Received(x)' = Received(x)
    <3>1. CASE x = c
      <4>1. Len(inbox[c]) \in Int /\ sent[c] \in Int
        BY <1>a
      <4>2. /\ sent'[c] = sent[c] + 1
            /\ Len(inbox'[c]) = Len(inbox[c]) + 1
        BY <2>2
      <4>3. sent'[c] - Len(inbox'[c]) = sent[c] - Len(inbox[c])
        BY <4>1, <4>2
      <4> QED BY <3>1, <4>3 DEF Received
    <3>2. CASE x # c
      BY <2>2, <3>2 DEF Received
    <3> QED BY <3>1, <3>2
  <2>4. ASSUME NEW x \in Clients
        PROVE  /\ Len(inbox'[x]) <= sent'[x]
               /\ \A i \in DOMAIN inbox'[x] :
                     inbox'[x][i].token = Received(x)' + i
    <3>1. CASE x = c
      <4>1. \A i \in DOMAIN inbox'[c] : inbox'[c][i].token = Received(c)' + i
        BY <1>a, <2>1, <2>2, <2>3 DEF TokenInv, Received
      <4>2. Len(inbox[c]) <= sent[c]
        BY DEF TokenInv
      <4> QED BY <1>a, <2>2, <3>1, <4>1, <4>2
    <3>2. CASE x # c
      BY <2>2, <2>3, <3>2 DEF TokenInv
    <3> QED BY <3>1, <3>2
  <2>5. rpcPc = "enqueue" => cur.client \in Clients
    BY DEF TypeOK
  <2> QED BY <2>1, <2>3, <2>4, <2>5 DEF TokenInv
<1>2. ASSUME NEW c \in Clients, RpcSkip(c) PROVE TokenInv'
  <2>1. PICK fn : Receive(c, fn)
    BY <1>2 DEF RpcSkip, RpcBad, RpcShutdown
  <2>2. /\ sent' = sent /\ rpcPc' # "enqueue"
        /\ UNCHANGED <<delivered, accepted>>
    BY <1>2 DEF RpcSkip, RpcBad, RpcShutdown, historyVars
  <2>3. sent' = sent
    BY <2>2
  <2> QED BY <2>1, <2>2, ReceiveTokens DEF TokenInv
<1>3. ASSUME NEW c \in Clients, RpcStatus(c) PROVE TokenInv'
  <2> DEFINE r == Head(inbox[c])
             m == [kind |-> "status", token |-> r.token, file |-> r.file,
                   status |-> status[r.file]]
  <2>1. /\ Receive(c, "get_writechunk_status")
        /\ Send(c, m)
        /\ sent' = sent /\ rpcPc' # "enqueue"
        /\ accepted' = accepted
    BY <1>3 DEF RpcStatus, historyVars
  <2>a. r \in Requests /\ r.fn = "get_writechunk_status"
    BY <2>1, ReceiveEffect
  <2>b. r.token \in Tokens /\ r.file \in Files
    BY <2>a, RequestTyped
  <2>c. r.token = Received(c)'
    BY <2>1, ReceiveTokens
  <2>d. m \in Messages
    BY <2>b, StatusMsgTyped DEF TypeOK
  <2>2. m \in Messages /\ m.token = Received(c)'
    BY <2>c, <2>d
  <2>3. \A x \in Clients : \A j \in DOMAIN delivered'[x] :
            delivered'[x][j].token <= Received(x)'
    BY <1>a, <2>1, <2>2, SendEffect, ReceiveTokens
  <2> QED BY <2>1, <2>3, ReceiveTokens DEF TokenInv
<1>4. ASSUME NEW c \in Clients, RpcWriteChunks(c) PROVE TokenInv'
  <2>1. /\ Receive(c, "write_chunks")
        /\ cur'.client = c /\ cur'.token = Head(inbox[c]).token
        /\ sent' = sent
        /\ UNCHANGED <<delivered, accepted>>
    BY <1>4 DEF RpcWriteChunks, historyVars
  <2>2. cur'.token = Received(c)'
    BY <2>1, ReceiveTokens
  <2> QED BY <2>1, <2>2, ReceiveTokens DEF TokenInv
<1>5. CASE RpcSendReply
  <2> DEFINE e == Head(backendQueue)
  <2>1. /\ rpcPc' # "enqueue"
        /\ UNCHANGED <<inbox, sent, accepted>>
    BY <1>5, SendReplyEffect DEF RpcSendReply, clientVars, historyVars
  <2>2. \A x \in Clients : Received(x)' = Received(x)
    BY <2>1 DEF Received
  <2>3. \A x \in Clients : \A j \in DOMAIN delivered'[x] :
            delivered'[x][j].token <= Received(x)
    <3>1. CASE delivered' = delivered
      BY <3>1 DEF TokenInv
    <3>2. CASE e.write.client \in Clients /\ Send(e.write.client, ChunkMsg(e))
      <4>1. e.write \in accepted
        BY <1>5, SendReplyEffect DEF QueueInv
      <4>2. ChunkMsg(e).token <= Received(e.write.client)
        BY <1>5, <3>2, <4>1, SendReplyEffect DEF TokenInv
      <4>3. ChunkMsg(e) \in Messages
        BY <1>5, <3>2, SendReplyEffect
      <4> QED BY <3>2, <4>2, <4>3, SendEffect DEF TokenInv
    <3> QED BY <1>5, <3>1, <3>2, SendReplyEffect
  <2> QED BY <2>1, <2>2, <2>3 DEF TokenInv
<1>6. CASE RpcSendList
  <2> DEFINE m == [kind |-> "list", token |-> cur.token,
                   accepted |-> reply.accepted, refused |-> reply.refused]
  <2>1. /\ rpcPc = "enqueue" /\ rpcPc' # "enqueue"
        /\ Send(cur.client, m)
        /\ UNCHANGED <<inbox, sent, accepted>>
    BY <1>6 DEF RpcSendList, clientVars, historyVars
  <2>2. cur.client \in Clients /\ m \in Messages
    BY <2>1, CurTyped, ListMsgTyped DEF TypeOK
  <2>3. \A x \in Clients : Received(x)' = Received(x)
    BY <2>1 DEF Received
  <2>4. \A x \in Clients : \A j \in DOMAIN delivered'[x] :
            delivered'[x][j].token <= Received(x)
    BY <1>a, <2>1, <2>2, SendEffect DEF TokenInv
  <2> QED BY <2>1, <2>3, <2>4 DEF TokenInv
<1>7. ASSUME NEW w, Enqueues(w) PROVE TokenInv'
  <2>1. /\ UNCHANGED <<inbox, sent, delivered, rpcPc, cur>>
        /\ w.client \in Clients => w.token <= Received(w.client)
    BY <1>7, <1>a DEF Enqueues, TokenInv
  <2>2. \A x \in Clients : Received(x)' = Received(x)
    BY <2>1 DEF Received
  <2>3. accepted' \subseteq accepted \cup {w}
    BY <1>7, EnqueueEffect
  <2> QED BY <2>1, <2>2, <2>3 DEF TokenInv, TypeOK
<1>8. CASE /\ UNCHANGED <<inbox, sent, delivered, cur, accepted>>
           /\ rpcPc' = "enqueue" <=> rpcPc = "enqueue"
  BY <1>8 DEF TokenInv, Received
<1> QED
  BY <1>1, <1>2, <1>3, <1>4, <1>5, <1>6, <1>7, <1>8, StepCases, EnqueueFresh
     DEF ClientLeave, IoTake, IoFinish, IoReport, IoExit, MainEndDevice, Quiet,
         clientVars, rpcVars, historyVars

-----------------------------------------------------------------------------
(* No two accepted writes are the same chunk of the same request.          *)

LEMMA IdentityStep ==
    ASSUME TypeOK, TypeOK', TokenInv, IdentityInv, [Next]_vars
    PROVE  IdentityInv'
<1>1. ASSUME NEW c \in Clients, RpcWriteChunks(c) PROVE IdentityInv'
  <2>1. /\ Receive(c, "write_chunks")
        /\ cur'.client = c /\ cur'.token = Head(inbox[c]).token
        /\ reply'.accepted = {}
        /\ sent' = sent /\ accepted' = accepted
    BY <1>1 DEF RpcWriteChunks, historyVars, NoReply
  <2>2. cur'.token = Received(c) + 1 /\ Received(c) \in Int
    BY <2>1, ReceiveTokens
  <2>3. ASSUME NEW w \in accepted, w.client = c PROVE w.token # cur'.token
    <3>1. w.token <= Received(c)
      BY <2>3 DEF TokenInv
    <3>2. w.token \in Int
      BY <2>3, WriteFields, ConstantsAssumption DEF TypeOK, Tokens
    <3> QED BY <2>2, <3>1, <3>2
  <2> QED BY <2>1, <2>3 DEF IdentityInv, SameChunk
<1>2. ASSUME NEW k \in Chunks, RpcEnqueue(k) PROVE IdentityInv'
  <2>1. /\ k \in todo /\ todo' = todo \ {k} /\ rpcPc = "enqueue"
        /\ cur' = cur
        /\ EnqueueWrite(CurWrite(k))
        /\ reply'.accepted = IF Accepts(CurWrite(k).file)
                             THEN reply.accepted \cup {k} ELSE reply.accepted
    BY <1>2 DEF RpcEnqueue, CurWrite
  <2>2. CASE Accepts(CurWrite(k).file)
    <3>1. /\ accepted' = accepted \cup {CurWrite(k)}
          /\ reply'.accepted = reply.accepted \cup {k}
      BY <2>1, <2>2 DEF EnqueueWrite
    <3> QED BY <2>1, <3>1 DEF IdentityInv, SameChunk, CurWrite
  <2>3. CASE ~Accepts(CurWrite(k).file)
    BY <2>1, <2>3 DEF IdentityInv, EnqueueWrite, SameChunk
  <2> QED BY <2>2, <2>3
<1>3. ASSUME NEW k \in TestChunks, NEW p \in Patterns, TestEnqueue(k, p)
      PROVE  IdentityInv'
  <2> DEFINE w == [client |-> NoClient, token |-> 0, chunk |-> k,
                   file |-> FileName[<<p, k>>]]
  <2>1. /\ accepted' = accepted \cup {w}
        /\ UNCHANGED <<rpcPc, cur, todo, reply>>
        /\ \A v \in accepted : ~SameChunk(v, w) /\ ~SameChunk(w, v)
    BY <1>3 DEF TestEnqueue, EnqueueWrite, SameChunk, rpcVars
  <2>2. rpcPc = "enqueue" => w.client # cur.client
    BY CurTyped, ConstantsAssumption
  <2> QED BY <2>1, <2>2 DEF IdentityInv, SameChunk
<1>4. CASE RpcSendList
  BY <1>4 DEF RpcSendList, IdentityInv, SameChunk, historyVars
<1>5. CASE UNCHANGED accepted /\ rpcPc' # "enqueue"
  BY <1>5 DEF IdentityInv, SameChunk
<1>6. CASE /\ UNCHANGED <<accepted, cur, todo, reply>>
           /\ rpcPc' = "enqueue" <=> rpcPc = "enqueue"
  BY <1>6 DEF IdentityInv, SameChunk
<1> QED
  BY <1>1, <1>2, <1>3, <1>4, <1>5, <1>6, StepCases
     DEF ClientLeave, ClientSend, IoTake, IoFinish, IoReport, IoExit, RpcSkip,
         RpcBad, RpcShutdown, RpcStatus, RpcSendReply, MainEndDevice, Quiet,
         rpcVars, historyVars

-----------------------------------------------------------------------------
(* What a step adds to the messages of the clients.                        *)

\* The list that answers the current request.
CurList == [kind |-> "list", token |-> cur.token,
            accepted |-> reply.accepted, refused |-> reply.refused]

\* The first entry of the backend queue goes to the client it is for.
SendsChunk(c, e) ==
    /\ RpcSendReply
    /\ e = Head(backendQueue)
    /\ c = e.write.client
    /\ Send(c, ChunkMsg(e))

LEMMA SentMessages ==
    ASSUME TypeOK, TypeOK', TokenInv, BackendInv, [Next]_vars
    PROVE  \/ delivered' = delivered
           \/ \E c \in Clients, m \in Messages :
                 /\ m.kind = "status"
                 /\ Send(c, m)
                 /\ RpcStatus(c)
                 /\ \A j \in DOMAIN delivered[c] : delivered[c][j].token < m.token
           \/ /\ RpcSendList
              /\ cur.client \in Clients
              /\ CurList \in Messages
              /\ Send(cur.client, CurList)
              /\ \A j \in DOMAIN delivered[cur.client] :
                    delivered[cur.client][j].token < cur.token
           \/ \E c \in Clients, e \in Entries :
                 SendsChunk(c, e) /\ ChunkMsg(e) \in Messages
<1>1. ASSUME NEW c \in Clients, RpcStatus(c)
      PROVE  \E m \in Messages :
                /\ m.kind = "status"
                /\ Send(c, m)
                /\ \A j \in DOMAIN delivered[c] : delivered[c][j].token < m.token
  <2> DEFINE r == Head(inbox[c])
             m == [kind |-> "status", token |-> r.token, file |-> r.file,
                   status |-> status[r.file]]
  <2>1. /\ Receive(c, "get_writechunk_status")
        /\ Send(c, m)
        /\ sent' = sent
    BY <1>1 DEF RpcStatus
  <2>2. r \in Requests /\ r.fn = "get_writechunk_status"
    BY <2>1, ReceiveEffect
  <2>3. r.token \in Tokens /\ r.file \in Files
    BY <2>2, RequestTyped
  <2>4. m \in Messages
    BY <2>3, StatusMsgTyped DEF TypeOK
  <2>5. \A j \in DOMAIN delivered[c] : delivered[c][j].token < m.token
    BY <2>1, ReceiveTokens
  <2> QED BY <2>1, <2>4, <2>5
<1>2. CASE RpcSendList
  <2>1. rpcPc = "enqueue" /\ Send(cur.client, CurList)
    BY <1>2 DEF RpcSendList, CurList
  <2>2. cur.client \in Clients /\ CurList \in Messages
    BY <2>1, CurTyped, ListMsgTyped DEF TypeOK, CurList
  <2> QED BY <1>2, <2>1, <2>2 DEF TokenInv
<1>3. CASE RpcSendReply
  BY <1>3, SendReplyEffect DEF SendsChunk
<1> QED
  BY <1>1, <1>2, <1>3, StepCases, EnqueueFresh
     DEF ClientLeave, ClientSend, IoTake, IoFinish, IoReport, IoExit, RpcSkip,
         RpcBad, RpcShutdown, RpcWriteChunks, RpcEnqueue, TestEnqueue,
         MainEndDevice, Quiet

-----------------------------------------------------------------------------
(* The list comes first.                                                   *)

LEMMA ListStep ==
    ASSUME TypeOK, TypeOK', TokenInv, IdentityInv, ListInv, BackendInv,
           [Next]_vars
    PROVE  ListInv'
<1> DEFINE Listed(w) == \E j \in DOMAIN delivered[w.client] :
                           Lists(delivered[w.client][j], w)
<1>1. ASSUME NEW w, w.client \in Clients, Listed(w) PROVE Listed(w)'
  <2>1. CASE delivered' = delivered
    BY <1>1, <2>1 DEF Lists
  <2>2. ASSUME NEW c \in Clients, NEW m \in Messages, Send(c, m)
        PROVE  Listed(w)'
    BY <1>1, <2>2, SendEffect DEF Lists
  <2> QED BY <2>1, <2>2, SentMessages DEF SendsChunk
<1>2. ASSUME RpcSendList, NEW w \in accepted, w.client \in alive,
             cur.client = w.client, cur.token = w.token
      PROVE  Listed(w)'
  <2>1. rpcPc = "enqueue" /\ Send(cur.client, CurList)
    BY <1>2 DEF RpcSendList, CurList
  <2>2. cur.client \in Clients /\ CurList \in Messages
    BY <2>1, CurTyped, ListMsgTyped DEF TypeOK, CurList
  <2>3. Lists(CurList, w)
    BY <1>2, <2>1 DEF Lists, CurList, IdentityInv
  <2>4. PICK j \in DOMAIN delivered'[cur.client] :
                delivered'[cur.client][j] = CurList
    BY <1>2, <2>1, <2>2, SendEffect
  <2> QED BY <1>2, <2>3, <2>4 DEF Lists
<1>3. alive' \subseteq alive /\ alive \subseteq Clients
  <2>1. alive' \subseteq alive
    BY StepCases, EnqueueFresh
       DEF ClientLeave, ClientSend, IoTake, IoFinish, IoReport, IoExit, RpcSkip,
           RpcBad, RpcShutdown, RpcWriteChunks, RpcStatus, RpcSendReply,
           RpcSendList, MainEndDevice, Quiet, Enqueues, clientVars
  <2> QED BY <2>1 DEF TypeOK
<1>4. CASE RpcSendList
  <2>1. accepted' = accepted
    BY <1>4 DEF RpcSendList, historyVars
  <2> QED BY <1>1, <1>2, <1>3, <1>4, <2>1 DEF ListInv
<1>5. ASSUME NEW w, Enqueues(w) PROVE ListInv'
  <2>1. accepted' \subseteq accepted \cup {w}
    BY <1>5, EnqueueEffect
  <2>2. UNCHANGED <<alive, delivered, rpcPc, cur>>
    BY <1>5 DEF Enqueues
  <2>3. w.client \in alive =>
            rpcPc = "enqueue" /\ cur.client = w.client /\ cur.token = w.token
    BY <1>3, <1>5 DEF Enqueues
  <2> QED BY <2>1, <2>2, <2>3 DEF ListInv
<1>6. CASE /\ UNCHANGED accepted
           /\ rpcPc = "enqueue" => rpcPc' = "enqueue" /\ cur' = cur
  BY <1>1, <1>3, <1>6 DEF ListInv
<1> QED
  BY <1>4, <1>5, <1>6, StepCases, EnqueueFresh
     DEF ClientLeave, ClientSend, IoTake, IoFinish, IoReport, IoExit, RpcSkip,
         RpcBad, RpcShutdown, RpcStatus, RpcSendReply, RpcWriteChunks, Receive,
         MainEndDevice, Quiet, rpcVars, historyVars

LEMMA ReplyAfterListStep ==
    ASSUME TypeOK, TypeOK', QueueInv, TokenInv, ListInv, BackendInv,
           ReplyAfterList, [Next]_vars
    PROVE  ReplyAfterList'
<1> DEFINE Preceded(c, j, n) ==
             \E i \in 1 .. j - 1 :
                /\ delivered[c][i].kind = "list"
                /\ delivered[c][i].token = n.token
                /\ n.chunk \in delivered[c][i].accepted
<1>1. ASSUME NEW c \in Clients, NEW m \in Messages, Send(c, m),
             m.kind = "chunk" =>
                \E j \in DOMAIN delivered[c] :
                    /\ delivered[c][j].kind = "list"
                    /\ delivered[c][j].token = m.token
                    /\ m.chunk \in delivered[c][j].accepted
      PROVE  ReplyAfterList'
  <2> SUFFICES ASSUME NEW x \in Clients, NEW j \in DOMAIN delivered'[x],
                      delivered'[x][j].kind = "chunk"
               PROVE  \E i \in 1 .. j - 1 :
                        /\ delivered'[x][i].kind = "list"
                        /\ delivered'[x][i].token = delivered'[x][j].token
                        /\ delivered'[x][j].chunk \in delivered'[x][i].accepted
    BY DEF ReplyAfterList
  <2>1. DOMAIN delivered[x] = 1 .. Len(delivered[x]) /\ Len(delivered[x]) \in Nat
    BY DEF TypeOK
  <2>2. CASE j \in DOMAIN delivered[x]
    <3>1. delivered'[x][j] = delivered[x][j]
      BY <1>1, <2>2, SendEffect
    <3>2. PICK i \in 1 .. j - 1 :
                  /\ delivered[x][i].kind = "list"
                  /\ delivered[x][i].token = delivered[x][j].token
                  /\ delivered[x][j].chunk \in delivered[x][i].accepted
      BY <2>2, <3>1 DEF ReplyAfterList
    <3>3. i \in DOMAIN delivered[x]
      BY <2>1, <2>2
    <3>4. delivered'[x][i] = delivered[x][i]
      BY <1>1, <3>3, SendEffect
    <3> QED BY <3>1, <3>2, <3>4
  <2>3. CASE j \notin DOMAIN delivered[x]
    <3>1. x = c /\ delivered'[x][j] = m /\ j = Len(delivered[x]) + 1
      BY <1>1, <2>3, SendEffect
    <3>2. PICK i \in DOMAIN delivered[x] :
                  /\ delivered[x][i].kind = "list"
                  /\ delivered[x][i].token = m.token
                  /\ m.chunk \in delivered[x][i].accepted
      BY <1>1, <3>1
    <3>3. delivered'[x][i] = delivered[x][i]
      BY <1>1, <3>2, SendEffect
    <3>4. i \in 1 .. j - 1
      BY <2>1, <3>1, <3>2
    <3> QED BY <3>1, <3>2, <3>3, <3>4
  <2> QED BY <2>2, <2>3
<1>2. CASE delivered' = delivered
  BY <1>2 DEF ReplyAfterList
<1>3. ASSUME NEW c \in Clients, NEW e \in Entries, SendsChunk(c, e),
             ChunkMsg(e) \in Messages
      PROVE  ReplyAfterList'
  <2>1. CASE c \notin alive
    BY <1>2, <1>3, <2>1 DEF SendsChunk, Send
  <2>2. CASE c \in alive
    <3>1. /\ rpcPc = "drain" /\ e.write \in accepted /\ c = e.write.client
      BY <1>3, SendReplyEffect DEF SendsChunk, QueueInv
    <3>2. PICK j \in DOMAIN delivered[c] : Lists(delivered[c][j], e.write)
      BY <2>2, <3>1 DEF ListInv
    <3>3. ChunkMsg(e).token = e.write.token /\ ChunkMsg(e).chunk = e.write.chunk
      BY DEF ChunkMsg
    <3> QED BY <1>1, <1>3, <3>2, <3>3 DEF Lists, SendsChunk
  <2> QED BY <2>1, <2>2
<1>4. CurList.kind # "chunk"
  BY DEF CurList
<1> QED BY <1>1, <1>2, <1>3, <1>4, SentMessages

-----------------------------------------------------------------------------
(* Chunk replies: true, and one per write.                                 *)

LEMMA WriteRecord ==
    ASSUME NEW w \in Writes
    PROVE  w = [client |-> w.client, token |-> w.token, chunk |-> w.chunk,
                file |-> w.file]
  BY DEF Writes

LEMMA ReplyTruthfulStep ==
    ASSUME TypeOK, TypeOK', QueueInv, TokenInv, BackendInv, ReplyTruthful,
           [Next]_vars
    PROVE  ReplyTruthful'
<1>1. written \subseteq written' /\ failed \subseteq failed'
  BY StepCases
     DEF ClientLeave, ClientSend, IoTake, IoFinish, IoReport, IoExit, RpcSkip,
         RpcBad, RpcShutdown, RpcWriteChunks, RpcStatus, RpcSendReply,
         RpcEnqueue, TestEnqueue, RpcSendList, MainEndDevice, Quiet, historyVars
<1>2. CASE delivered' = delivered
  BY <1>1, <1>2 DEF ReplyTruthful
<1>3. ASSUME NEW c \in Clients, NEW m \in Messages, Send(c, m),
             m.kind = "chunk" =>
                [client |-> c, token |-> m.token, chunk |-> m.chunk,
                 file |-> m.file] \in (IF m.success THEN written ELSE failed)
      PROVE  ReplyTruthful'
  <2> SUFFICES ASSUME NEW x \in Clients, NEW j \in DOMAIN delivered'[x],
                      delivered'[x][j].kind = "chunk"
               PROVE  [client |-> x, token |-> delivered'[x][j].token,
                       chunk |-> delivered'[x][j].chunk,
                       file |-> delivered'[x][j].file]
                         \in (IF delivered'[x][j].success THEN written' ELSE failed')
    BY DEF ReplyTruthful
  <2>1. CASE j \in DOMAIN delivered[x] /\ delivered'[x][j] = delivered[x][j]
    BY <1>1, <2>1 DEF ReplyTruthful
  <2>2. CASE x = c /\ delivered'[x][j] = m
    BY <1>1, <1>3, <2>2
  <2> QED BY <1>3, <2>1, <2>2, SendEffect
<1>4. ASSUME NEW c \in Clients, NEW e \in Entries, SendsChunk(c, e),
             ChunkMsg(e) \in Messages
      PROVE  ReplyTruthful'
  <2>1. /\ e.write \in written \cup failed
        /\ e.success = (e.write \in written)
        /\ c = e.write.client
    BY <1>4, SendReplyEffect DEF SendsChunk
  <2>2. e.write = [client |-> c, token |-> e.write.token,
                   chunk |-> e.write.chunk, file |-> e.write.file]
    BY <2>1, WriteRecord DEF TypeOK
  <2>3. /\ ChunkMsg(e).token = e.write.token
        /\ ChunkMsg(e).chunk = e.write.chunk
        /\ ChunkMsg(e).file = e.write.file
        /\ ChunkMsg(e).success = e.success
    BY DEF ChunkMsg
  <2>4. e.write \in (IF e.success THEN written ELSE failed)
    BY <2>1
  <2> QED BY <1>3, <1>4, <2>2, <2>3, <2>4 DEF SendsChunk
<1>5. CurList.kind # "chunk"
  BY DEF CurList
<1> QED BY <1>2, <1>3, <1>4, <1>5, SentMessages

\* A chunk reply with the token and the chunk of w is a reply to w.
LEMMA ReplyToWrite ==
    ASSUME TypeOK, QueueInv, IdentityInv, ReplyTruthful,
           NEW w \in accepted, w.client \in Clients,
           NEW j \in DOMAIN delivered[w.client],
           delivered[w.client][j].kind = "chunk",
           delivered[w.client][j].token = w.token,
           delivered[w.client][j].chunk = w.chunk
    PROVE  Answered(w) /\ w \in written \cup failed
<1> DEFINE m == delivered[w.client][j]
           v == [client |-> w.client, token |-> m.token, chunk |-> m.chunk,
                 file |-> m.file]
<1>1. v \in written \cup failed
  BY DEF ReplyTruthful
<1>2. v = w
  BY <1>1 DEF QueueInv, IdentityInv, SameChunk
<1>3. m.file = w.file
  BY <1>2
<1> QED BY <1>1, <1>2, <1>3 DEF Answered, IsReplyTo

LEMMA ReplyAtMostOnceStep ==
    ASSUME TypeOK, TypeOK', QueueInv, TokenInv, IdentityInv, BackendInv,
           ReplyTruthful, ReplyAtMostOnce, [Next]_vars
    PROVE  ReplyAtMostOnce'
<1>1. CASE delivered' = delivered
  BY <1>1 DEF ReplyAtMostOnce
<1>2. ASSUME NEW c \in Clients, NEW m \in Messages, Send(c, m),
             \A j \in DOMAIN delivered[c] :
                /\ delivered[c][j].kind = m.kind
                /\ delivered[c][j].token = m.token
                => m.kind = "chunk" /\ delivered[c][j].chunk # m.chunk
      PROVE  ReplyAtMostOnce'
  <2> SUFFICES ASSUME NEW x \in Clients,
                      NEW i \in DOMAIN delivered'[x], NEW j \in DOMAIN delivered'[x],
                      i # j, delivered'[x][i].kind = delivered'[x][j].kind,
                      delivered'[x][i].token = delivered'[x][j].token
               PROVE  /\ delivered'[x][i].kind = "chunk"
                      /\ delivered'[x][i].chunk # delivered'[x][j].chunk
    BY DEF ReplyAtMostOnce
  <2>1. CASE i \in DOMAIN delivered[x] /\ j \in DOMAIN delivered[x]
    <3>1. delivered'[x][i] = delivered[x][i] /\ delivered'[x][j] = delivered[x][j]
      BY <1>2, <2>1, SendEffect
    <3> QED BY <2>1, <3>1 DEF ReplyAtMostOnce
  <2>2. CASE i \in DOMAIN delivered[x] /\ j \notin DOMAIN delivered[x]
    <3>1. delivered'[x][i] = delivered[x][i] /\ x = c /\ delivered'[x][j] = m
      BY <1>2, <2>2, SendEffect
    <3> QED BY <1>2, <2>2, <3>1
  <2>3. CASE i \notin DOMAIN delivered[x] /\ j \in DOMAIN delivered[x]
    <3>1. delivered'[x][j] = delivered[x][j] /\ x = c /\ delivered'[x][i] = m
      BY <1>2, <2>3, SendEffect
    <3> QED BY <1>2, <2>3, <3>1
  <2>4. CASE i \notin DOMAIN delivered[x] /\ j \notin DOMAIN delivered[x]
    <3>1. i = Len(delivered[x]) + 1 /\ j = Len(delivered[x]) + 1
      BY <1>2, <2>4, SendEffect
    <3> QED BY <3>1
  <2> QED BY <2>1, <2>2, <2>3, <2>4
<1>3. ASSUME NEW c \in Clients, NEW m \in Messages, Send(c, m),
             \A j \in DOMAIN delivered[c] : delivered[c][j].token < m.token
      PROVE  ReplyAtMostOnce'
  <2>1. \A j \in DOMAIN delivered[c] : delivered[c][j].token # m.token
    <3>1. \A j \in DOMAIN delivered[c] : delivered[c][j] \in Messages
      BY DEF TypeOK
    <3> QED BY <1>3, <3>1, MsgTyped
  <2> QED BY <1>2, <1>3, <2>1
<1>4. ASSUME NEW c \in Clients, NEW e \in Entries, SendsChunk(c, e),
             ChunkMsg(e) \in Messages
      PROVE  ReplyAtMostOnce'
  <2>1. /\ c = e.write.client
        /\ e.write \in accepted
        /\ ~Answered(e.write)
    BY <1>4, SendReplyEffect DEF SendsChunk, QueueInv, BackendInv
  <2>2. /\ ChunkMsg(e).token = e.write.token
        /\ ChunkMsg(e).chunk = e.write.chunk
        /\ ChunkMsg(e).kind = "chunk"
    BY DEF ChunkMsg
  <2>3. ASSUME NEW j \in DOMAIN delivered[c],
               delivered[c][j].kind = "chunk",
               delivered[c][j].token = e.write.token
        PROVE  delivered[c][j].chunk # e.write.chunk
    BY <2>1, <2>3, ReplyToWrite
  <2> QED BY <1>2, <1>4, <2>2, <2>3 DEF SendsChunk
<1>5. CurList.token = cur.token
  BY DEF CurList
<1> QED BY <1>1, <1>3, <1>4, <1>5, SentMessages

-----------------------------------------------------------------------------
(* What waits in the backend queue, and with the I/O threads.              *)

\* Answered(w), after a step.
AnsweredNext(w) ==
    /\ w.client \in Clients
    /\ \E j \in DOMAIN delivered'[w.client] : IsReplyTo(delivered'[w.client][j], w)

\* Only the drain loop answers writes, and only the one it takes.
LEMMA AnsweredStep ==
    ASSUME TypeOK, TypeOK', TokenInv, BackendInv, [Next]_vars,
           NEW w, AnsweredNext(w)
    PROVE  \/ Answered(w)
           \/ /\ RpcSendReply
              /\ SameChunk(w, Head(backendQueue).write)
              /\ w.client \in Clients
<1>1. CASE delivered' = delivered
  BY <1>1 DEF Answered, AnsweredNext
<1>2. ASSUME NEW c \in Clients, NEW m \in Messages, Send(c, m)
      PROVE  Answered(w) \/ (w.client = c /\ IsReplyTo(m, w))
  <2>1. PICK j \in DOMAIN delivered'[w.client] :
                w.client \in Clients /\ IsReplyTo(delivered'[w.client][j], w)
    BY DEF AnsweredNext
  <2>2. CASE j \in DOMAIN delivered[w.client]
    <3>1. delivered'[w.client][j] = delivered[w.client][j]
      BY <1>2, <2>1, <2>2, SendEffect
    <3> QED BY <2>1, <2>2, <3>1 DEF Answered, IsReplyTo
  <2>3. CASE j \notin DOMAIN delivered[w.client]
    <3>1. w.client = c /\ delivered'[w.client][j] = m
      BY <1>2, <2>1, <2>3, SendEffect
    <3> QED BY <2>1, <3>1 DEF IsReplyTo
  <2> QED BY <2>2, <2>3
<1>3. ASSUME NEW m, m.kind # "chunk" PROVE ~IsReplyTo(m, w)
  BY <1>3 DEF IsReplyTo
<1>4. ASSUME NEW c \in Clients, NEW e \in Entries, SendsChunk(c, e),
             ChunkMsg(e) \in Messages
      PROVE  Answered(w) \/ /\ RpcSendReply
                            /\ SameChunk(w, Head(backendQueue).write)
                            /\ w.client \in Clients
  <2>1. Answered(w) \/ (w.client = c /\ IsReplyTo(ChunkMsg(e), w))
    BY <1>2, <1>4 DEF SendsChunk
  <2> QED BY <1>4, <2>1 DEF SendsChunk, IsReplyTo, ChunkMsg, SameChunk
<1>5. CurList.kind # "chunk"
  BY DEF CurList
<1> QED BY <1>1, <1>2, <1>3, <1>4, <1>5, SentMessages

LEMMA BackendStep ==
    ASSUME TypeOK, TypeOK', QueueInv, TokenInv, IdentityInv, BackendInv,
           ReplyTruthful, [Next]_vars
    PROVE  BackendInv'
<1>1. \A w : AnsweredNext(w) /\ ~RpcSendReply => Answered(w)
  BY AnsweredStep
<1>2. \A i \in DOMAIN backendQueue : backendQueue[i] \in Entries
  BY DEF TypeOK
<1>3. ASSUME NEW d \in Devices, IoFinish(d) PROVE BackendInv'
  <2> DEFINE w == ioReq[d]
  <2>1. /\ ioPc[d] = "writing"
        /\ ioPc' = [ioPc EXCEPT ![d] = "report"]
        /\ UNCHANGED <<backendQueue, ioReq, delivered>>
        /\ \/ written' = written \cup {w} /\ failed' = failed
           \/ failed' = failed \cup {w} /\ written' = written
    BY <1>3 DEF IoFinish
  <2>2. w \in accepted \ (written \cup failed)
    BY <2>1 DEF QueueInv, Pending
  <2>3. ~Answered(w)
    <3>1. ASSUME Answered(w) PROVE FALSE
      <4>1. PICK j \in DOMAIN delivered[w.client] :
                    IsReplyTo(delivered[w.client][j], w)
        BY <3>1 DEF Answered
      <4> QED BY <2>2, <3>1, <4>1, ReplyToWrite DEF Answered, IsReplyTo
    <3> QED BY <3>1
  <2>4. \A v : AnsweredNext(v) <=> Answered(v)
    BY <2>1 DEF Answered, AnsweredNext
  <2>5. \A x \in Devices : ioPc'[x] = "report" => x = d \/ ioPc[x] = "report"
    BY <2>1 DEF TypeOK
  <2>6. ASSUME NEW i \in DOMAIN backendQueue
        PROVE  LET e == backendQueue[i] IN
               /\ e.write \in written' \cup failed'
               /\ e.success = (e.write \in written')
               /\ \A x \in Devices : ioPc'[x] = "report" => ioReq[x] # e.write
    <3>1. backendQueue[i].write # w
      BY <2>2 DEF BackendInv
    <3> QED BY <2>1, <2>5, <3>1 DEF BackendInv
  <2>7. \A x \in Devices : ioPc'[x] = "report" => ~AnsweredNext(ioReq'[x])
    BY <2>1, <2>3, <2>4, <2>5 DEF BackendInv
  <2>8. \A i \in DOMAIN backendQueue : ~AnsweredNext(backendQueue[i].write)
    BY <2>4 DEF BackendInv
  <2> QED BY <2>1, <2>6, <2>7, <2>8 DEF BackendInv, Answered, AnsweredNext
<1>4. ASSUME NEW d \in Devices, IoReport(d) PROVE BackendInv'
  <2> DEFINE n == [write |-> ioReq[d], success |-> ioReq[d] \in written]
  <2>1. /\ ioPc[d] = "report"
        /\ backendQueue' = Append(backendQueue, n)
        /\ ioPc' = [ioPc EXCEPT ![d] = "idle"]
        /\ ioReq' = [ioReq EXCEPT ![d] = NoWrite]
        /\ UNCHANGED <<delivered, written, failed>>
    BY <1>4 DEF IoReport, historyVars
  <2>2. /\ Len(backendQueue) \in Nat
        /\ DOMAIN backendQueue = 1 .. Len(backendQueue)
        /\ DOMAIN backendQueue' = 1 .. Len(backendQueue) + 1
        /\ \A i \in DOMAIN backendQueue : backendQueue'[i] = backendQueue[i]
        /\ backendQueue'[Len(backendQueue) + 1] = n
    BY <2>1 DEF TypeOK
  <2>3. \A v : AnsweredNext(v) <=> Answered(v)
    BY <2>1 DEF Answered, AnsweredNext
  <2>4. \A x \in Devices : ioPc'[x] = "report" =>
            x # d /\ ioPc[x] = "report" /\ ioReq'[x] = ioReq[x]
    BY <2>1 DEF TypeOK
  <2>5. \A x \in Devices : ioPc[x] = "report" /\ x # d => ioReq[x] # ioReq[d]
    BY <2>1 DEF QueueInv
  <2>6. /\ ioReq[d] \in written \cup failed
        /\ ~Answered(ioReq[d])
        /\ \A i \in DOMAIN backendQueue : backendQueue[i].write # ioReq[d]
    BY <2>1 DEF QueueInv, BackendInv
  <2>7. ASSUME NEW i \in DOMAIN backendQueue'
        PROVE  LET e == backendQueue'[i] IN
               /\ e.write \in written' \cup failed'
               /\ e.success = (e.write \in written')
               /\ ~AnsweredNext(e.write)
               /\ \A j \in DOMAIN backendQueue' :
                     i # j => backendQueue'[j].write # e.write
               /\ \A x \in Devices : ioPc'[x] = "report" => ioReq'[x] # e.write
    <3>1. CASE i \in DOMAIN backendQueue
      BY <2>1, <2>2, <2>3, <2>4, <2>6, <3>1 DEF BackendInv
    <3>2. CASE i = Len(backendQueue) + 1
      BY <2>1, <2>2, <2>3, <2>4, <2>5, <2>6, <3>2
    <3> QED BY <2>2, <2>7, <3>1, <3>2
  <2>8. \A x \in Devices : ioPc'[x] = "report" => ~AnsweredNext(ioReq'[x])
    BY <2>3, <2>4 DEF BackendInv
  <2> QED BY <2>7, <2>8 DEF BackendInv, Answered, AnsweredNext
<1>5. CASE RpcSendReply
  <2> DEFINE w == Head(backendQueue).write
  <2>1. /\ backendQueue # <<>> /\ backendQueue' = Tail(backendQueue)
        /\ UNCHANGED <<ioPc, ioReq, written, failed>>
    BY <1>5 DEF RpcSendReply, deviceVars, historyVars
  <2>2. /\ 1 \in DOMAIN backendQueue
        /\ Head(backendQueue) = backendQueue[1]
        /\ \A i \in DOMAIN backendQueue' :
              /\ i \in Nat /\ i + 1 \in DOMAIN backendQueue /\ i + 1 # 1
              /\ backendQueue'[i] = backendQueue[i + 1]
    BY <2>1 DEF TypeOK
  <2>3. \A v \in written \cup failed : v # w /\ AnsweredNext(v) => Answered(v)
    <3>1. w \in accepted /\ written \cup failed \subseteq accepted
      BY <2>2 DEF BackendInv, QueueInv
    <3> QED BY <3>1, AnsweredStep DEF IdentityInv
  <2>4. ASSUME NEW i \in DOMAIN backendQueue'
        PROVE  LET e == backendQueue'[i] IN
               /\ e.write \in written' \cup failed'
               /\ e.success = (e.write \in written')
               /\ ~AnsweredNext(e.write)
               /\ \A j \in DOMAIN backendQueue' :
                     i # j => backendQueue'[j].write # e.write
               /\ \A x \in Devices : ioPc'[x] = "report" => ioReq'[x] # e.write
    <3>1. /\ i \in Nat /\ i + 1 \in DOMAIN backendQueue /\ i + 1 # 1
          /\ backendQueue'[i] = backendQueue[i + 1]
      BY <2>2, <2>4
    <3>2. /\ backendQueue[i + 1].write \in written \cup failed
          /\ backendQueue[i + 1].write # w
          /\ ~Answered(backendQueue[i + 1].write)
      BY <2>2, <3>1 DEF BackendInv
    <3>3. ~AnsweredNext(backendQueue'[i].write)
      BY <2>3, <3>1, <3>2
    <3>4. \A j \in DOMAIN backendQueue' :
              i # j => backendQueue'[j].write # backendQueue'[i].write
      BY <2>2, <3>1 DEF BackendInv
    <3> QED BY <2>1, <3>1, <3>3, <3>4 DEF BackendInv
  <2>5. \A x \in Devices : ioPc'[x] = "report" => ~AnsweredNext(ioReq'[x])
    BY <2>1, <2>2, <2>3 DEF BackendInv, QueueInv
  <2> QED BY <2>4, <2>5 DEF BackendInv, Answered, AnsweredNext
<1>6. CASE /\ ~RpcSendReply
           /\ UNCHANGED <<backendQueue, written, failed>>
           /\ \A d \in Devices : ioPc'[d] = "report" =>
                 ioPc[d] = "report" /\ ioReq'[d] = ioReq[d]
  <2>1. \A i \in DOMAIN backendQueue : ~AnsweredNext(backendQueue[i].write)
    BY <1>1, <1>6 DEF BackendInv
  <2>2. \A d \in Devices : ioPc'[d] = "report" => ~AnsweredNext(ioReq'[d])
    BY <1>1, <1>6 DEF BackendInv
  <2>3. ASSUME NEW i \in DOMAIN backendQueue
        PROVE  LET e == backendQueue[i] IN
               /\ e.write \in written' \cup failed'
               /\ e.success = (e.write \in written')
               /\ \A j \in DOMAIN backendQueue : i # j => backendQueue[j].write # e.write
               /\ \A d \in Devices : ioPc'[d] = "report" => ioReq'[d] # e.write
    BY <1>6 DEF BackendInv
  <2> QED BY <1>6, <2>1, <2>2, <2>3 DEF BackendInv, Answered, AnsweredNext
<1>7. CASE ~RpcSendReply /\ UNCHANGED <<backendQueue, ioPc, ioReq, written, failed>>
  BY <1>6, <1>7
<1>8. ASSUME NEW d \in Devices, IoTake(d) \/ IoExit(d)
      PROVE  /\ UNCHANGED <<backendQueue, written, failed>>
             /\ \A x \in Devices : ioPc'[x] = "report" =>
                   ioPc[x] = "report" /\ ioReq'[x] = ioReq[x]
  BY <1>8 DEF IoTake, IoExit, historyVars, TypeOK
<1> QED
  BY <1>3, <1>4, <1>5, <1>6, <1>7, <1>8, StepCases, EnqueueFresh
     DEF ClientLeave, ClientSend, RpcSkip, RpcBad, RpcShutdown, RpcStatus,
         RpcWriteChunks, RpcSendList, MainEndDevice, Quiet, Enqueues,
         deviceVars, historyVars

-----------------------------------------------------------------------------
(* A finished write is on its way or has been reported.                    *)

LEMMA ReplyNotLostStep ==
    ASSUME TypeOK, TypeOK', QueueInv, TokenInv, BackendInv, ReplyNotLost,
           [Next]_vars
    PROVE  ReplyNotLost'
<1> DEFINE Reporting(w) == \E d \in Devices : ioPc[d] = "report" /\ ioReq[d] = w
           Waiting(w) == \E i \in DOMAIN backendQueue : backendQueue[i].write = w
<1>1. ReplyNotLost <=>
        \A w \in written \cup failed :
            w.client \in alive => Reporting(w) \/ Waiting(w) \/ Answered(w)
  BY DEF ReplyNotLost, Answered, IsReplyTo, TypeOK
<1>2. ReplyNotLost' <=>
        \A w \in written' \cup failed' :
            w.client \in alive' =>
                Reporting(w)' \/ Waiting(w)' \/ AnsweredNext(w)
  BY DEF ReplyNotLost, AnsweredNext, IsReplyTo, TypeOK
<1>3. ASSUME NEW w, Answered(w) PROVE AnsweredNext(w)
  <2>1. PICK j \in DOMAIN delivered[w.client] :
                w.client \in Clients /\ IsReplyTo(delivered[w.client][j], w)
    BY <1>3 DEF Answered
  <2>2. CASE delivered' = delivered
    BY <2>1, <2>2 DEF AnsweredNext
  <2>3. ASSUME NEW c \in Clients, NEW m \in Messages, Send(c, m)
        PROVE  AnsweredNext(w)
    <3>1. j \in DOMAIN delivered'[w.client]
          /\ delivered'[w.client][j] = delivered[w.client][j]
      BY <2>1, <2>3, SendEffect
    <3> QED BY <2>1, <3>1 DEF AnsweredNext, IsReplyTo
  <2> QED BY <2>2, <2>3, SentMessages DEF SendsChunk
<1>4. alive' \subseteq alive
  BY StepCases
     DEF ClientLeave, ClientSend, IoTake, IoFinish, IoReport, IoExit, RpcSkip,
         RpcBad, RpcShutdown, RpcWriteChunks, RpcStatus, RpcSendReply,
         RpcEnqueue, TestEnqueue, RpcSendList, MainEndDevice, Quiet, clientVars
<1>5. ASSUME NEW d \in Devices, IoFinish(d) PROVE ReplyNotLost'
  <2>1. /\ ioPc[d] = "writing"
        /\ ioPc' = [ioPc EXCEPT ![d] = "report"]
        /\ UNCHANGED <<backendQueue, ioReq>>
        /\ written' \cup failed' = written \cup failed \cup {ioReq[d]}
    BY <1>5 DEF IoFinish
  <2>2. Reporting(ioReq[d])'
    BY <2>1 DEF TypeOK
  <2>3. \A w : Reporting(w) => Reporting(w)'
    BY <2>1 DEF TypeOK
  <2> QED BY <1>1, <1>2, <1>3, <1>4, <2>1, <2>2, <2>3
<1>6. ASSUME NEW d \in Devices, IoReport(d) PROVE ReplyNotLost'
  <2> DEFINE n == [write |-> ioReq[d], success |-> ioReq[d] \in written]
  <2>1. /\ ioPc[d] = "report"
        /\ backendQueue' = Append(backendQueue, n)
        /\ ioPc' = [ioPc EXCEPT ![d] = "idle"]
        /\ ioReq' = [ioReq EXCEPT ![d] = NoWrite]
        /\ UNCHANGED <<written, failed>>
    BY <1>6 DEF IoReport, historyVars
  <2>2. /\ Len(backendQueue) + 1 \in DOMAIN backendQueue'
        /\ \A i \in DOMAIN backendQueue :
              i \in DOMAIN backendQueue' /\ backendQueue'[i] = backendQueue[i]
        /\ backendQueue'[Len(backendQueue) + 1] = n
    BY <2>1 DEF TypeOK
  <2>3. ASSUME NEW w, Reporting(w) PROVE Reporting(w)' \/ Waiting(w)'
    <3>1. PICK x \in Devices : ioPc[x] = "report" /\ ioReq[x] = w
      BY <2>3
    <3>2. CASE x = d
      BY <2>2, <3>1, <3>2
    <3>3. CASE x # d
      BY <2>1, <3>1, <3>3 DEF TypeOK
    <3> QED BY <3>2, <3>3
  <2>4. \A w : Waiting(w) => Waiting(w)'
    BY <2>2
  <2> QED BY <1>1, <1>2, <1>3, <1>4, <2>1, <2>3, <2>4
<1>7. CASE RpcSendReply
  <2> DEFINE e == Head(backendQueue)
  <2>1. /\ backendQueue # <<>> /\ backendQueue' = Tail(backendQueue)
        /\ UNCHANGED <<alive, ioPc, ioReq, written, failed>>
    BY <1>7 DEF RpcSendReply, clientVars, deviceVars, historyVars
  <2>2. /\ e = backendQueue[1]
        /\ \A i \in DOMAIN backendQueue :
              i # 1 => /\ i - 1 \in DOMAIN backendQueue'
                       /\ backendQueue'[i - 1] = backendQueue[i]
    BY <2>1 DEF TypeOK
  <2>3. \A w : Waiting(w) => w = e.write \/ Waiting(w)'
    BY <2>2
  <2>4. \A w : Reporting(w) => Reporting(w)'
    BY <2>1
  <2>5. e.write.client \in alive => AnsweredNext(e.write)
    <3>1. SUFFICES ASSUME e.write.client \in alive PROVE AnsweredNext(e.write)
      OBVIOUS
    <3>2. e.write.client \in Clients
      BY <3>1 DEF TypeOK
    <3>3. Send(e.write.client, ChunkMsg(e)) /\ ChunkMsg(e) \in Messages
      BY <1>7, <3>2, SendReplyEffect
    <3>4. PICK j \in DOMAIN delivered'[e.write.client] :
                  delivered'[e.write.client][j] = ChunkMsg(e)
      BY <3>1, <3>2, <3>3, SendEffect
    <3>5. IsReplyTo(ChunkMsg(e), e.write)
      BY DEF IsReplyTo, ChunkMsg
    <3> QED BY <3>2, <3>4, <3>5 DEF AnsweredNext
  <2> QED BY <1>1, <1>2, <1>3, <2>1, <2>3, <2>4, <2>5
<1>8. CASE /\ UNCHANGED <<backendQueue, written, failed>>
           /\ \A d \in Devices : ioPc[d] = "report" =>
                 ioPc'[d] = "report" /\ ioReq'[d] = ioReq[d]
  <2>1. \A w : (Reporting(w) => Reporting(w)') /\ (Waiting(w) => Waiting(w)')
    BY <1>8
  <2> QED BY <1>1, <1>2, <1>3, <1>4, <1>8, <2>1
<1>9. CASE UNCHANGED <<backendQueue, ioPc, ioReq, written, failed>>
  BY <1>8, <1>9
<1>10. ASSUME NEW d \in Devices, IoTake(d) \/ IoExit(d)
       PROVE  /\ UNCHANGED <<backendQueue, written, failed>>
              /\ \A x \in Devices : ioPc[x] = "report" =>
                    ioPc'[x] = "report" /\ ioReq'[x] = ioReq[x]
  BY <1>10 DEF IoTake, IoExit, historyVars, TypeOK
<1> QED
  BY <1>5, <1>6, <1>7, <1>8, <1>9, <1>10, StepCases
     DEF ClientLeave, ClientSend, RpcSkip, RpcBad, RpcShutdown, RpcStatus,
         RpcWriteChunks, RpcEnqueue, TestEnqueue, RpcSendList, MainEndDevice,
         Quiet, deviceVars, historyVars

-----------------------------------------------------------------------------
(* How far main has got with the devices.                                  *)

LEMMA MainStep ==
    ASSUME TypeOK, TypeOK', MainInv, [Next]_vars
    PROVE  MainInv'
<1> USE ConstantsAssumption DEF MainInv
<1>1. \A d \in Devices : d \in Int
  BY DEF Devices
<1>2. ASSUME NEW d \in Devices, IoThread(d) PROVE MainInv'
  <2>1. \A x \in Devices : ioPc[x] = "exited" => ioPc'[x] = "exited"
    BY <1>2 DEF IoThread, IoTake, IoFinish, IoReport, IoExit, TypeOK
  <2>2. UNCHANGED <<mainPc, idev>>
    BY <1>2 DEF IoThread, IoTake, IoFinish, IoReport, IoExit, mainVars
  <2> QED BY <2>1, <2>2
<1>3. CASE MainJoinDevice
  <2>1. /\ ioPc[idev] = "exited" /\ idev' = idev + 1 /\ ioPc' = ioPc
        /\ mainPc' = "devices" /\ idev \in Int
    BY <1>3 DEF MainJoinDevice, deviceVars, TypeOK
  <2> QED BY <1>1, <2>1
<1>4. CASE MainShutdownRpc
  BY <1>4 DEF MainShutdownRpc, deviceVars, TypeOK
<1>5. CASE MainJoinStream
  BY <1>5 DEF MainJoinStream, deviceVars
<1>6. CASE MainJoinRpc
  BY <1>6 DEF MainJoinRpc, deviceVars
<1>7. CASE MainJoinDedispersion \/ MainEndDevice
  BY <1>7 DEF MainJoinDedispersion, MainEndDevice, deviceVars
<1>8. CASE UNCHANGED <<ioPc, mainPc, idev>>
  BY <1>8
<1>9. CASE UNCHANGED <<deviceVars, mainVars>>
  BY <1>8, <1>9 DEF deviceVars, mainVars
<1>10. CASE RpcThread
  BY <1>8, <1>10
     DEF RpcThread, RpcTop, RpcSendReply, RpcDrained, RpcTimeout, RpcBad,
         RpcStatus, RpcWriteChunks, RpcShutdown, RpcEnqueue, RpcSendList,
         RpcJoined, deviceVars, mainVars
<1>11. CASE UNCHANGED vars
  BY <1>8, <1>11, VarsUnchanged
<1> QED
  BY <1>2, <1>3, <1>4, <1>5, <1>6, <1>7, <1>8, <1>9, <1>10, <1>11
     DEF Next, MainThread, Exited, ClientLeave, ClientSend, RpcRecvFails,
         TestEnqueue, L0Ends, StreamThreadsExit, mainVars, deviceVars

-----------------------------------------------------------------------------
(* The theorems.                                                           *)

\* Everything the safety properties say, with what makes it inductive.
THEOREM Safety == Spec => []IInv
<1>1. Init => IInv
  <2> SUFFICES ASSUME Init PROVE IInv
    OBVIOUS
  <2> USE ConstantsAssumption DEF Init
  <2>1. \A c \in Clients : /\ sent[c] = 0 /\ inbox[c] = <<>> /\ delivered[c] = <<>>
                           /\ Len(inbox[c]) = 0 /\ DOMAIN delivered[c] = {}
                           /\ DOMAIN inbox[c] = {}
    OBVIOUS
  <2>2. QueueInv
    BY DEF QueueInv, Pending
  <2>3. TokenInv
    BY <2>1 DEF TokenInv, Received
  <2>4. IdentityInv /\ ListInv
    BY DEF IdentityInv, ListInv
  <2>5. BackendInv
    BY DEF BackendInv
  <2>6. MainInv
    BY DEF MainInv, Devices
  <2>7. ReplyAfterList /\ ReplyAtMostOnce /\ ReplyTruthful
    BY <2>1 DEF ReplyAfterList, ReplyAtMostOnce, ReplyTruthful
  <2>8. ReplyNotLost /\ StatusSettled
    BY DEF ReplyNotLost, StatusSettled, Pending
  <2> QED BY <2>2, <2>3, <2>4, <2>5, <2>6, <2>7, <2>8 DEF IInv
<1>2. TypeOK /\ TypeOK' /\ IInv /\ [Next]_vars => IInv'
  BY QueueStep, TokenStep, IdentityStep, ListStep, BackendStep, MainStep,
     ReplyAfterListStep, ReplyAtMostOnceStep, ReplyTruthfulStep,
     ReplyNotLostStep, StatusStep
     DEF IInv
<1> QED BY <1>1, <1>2, TypeCorrect, PTL DEF Spec

\* A client has the list of its chunks before the first chunk reply, for any
\* number of I/O threads racing the handler that enqueues them.
THEOREM ListFirst == Spec => []ReplyAfterList
<1>1. IInv => ReplyAfterList
  BY DEF IInv
<1> QED BY <1>1, Safety, PTL

\* A client that counts replies never counts a chunk twice.
THEOREM NoDuplicateReply == Spec => []ReplyAtMostOnce
<1>1. IInv => ReplyAtMostOnce
  BY DEF IInv
<1> QED BY <1>1, Safety, PTL

\* What a client is told of a chunk is how its own write ended.
THEOREM RepliesAreTrue == Spec => []ReplyTruthful
<1>1. IInv => ReplyTruthful
  BY DEF IInv
<1> QED BY <1>1, Safety, PTL

\* A finished write of a connected client stays on its way until reported.
THEOREM NoReplyLost == Spec => []ReplyNotLost
<1>1. IInv => ReplyNotLost
  BY DEF IInv
<1> QED BY <1>1, Safety, PTL

\* The status map never says QUEUED, SUCCEEDED or FAILED without a write that
\* explains it.
THEOREM StatusExplained == Spec => []StatusSettled
<1>1. IInv => StatusSettled
  BY DEF IInv
<1> QED BY <1>1, Safety, PTL

\* Whatever the RPC thread was doing when main closed the devices, every write
\* ever accepted has ended when main takes down the RPC server.
THEOREM DevicesAreDrained == Spec => []DevicesDrained
<1>1. TypeOK /\ IInv => DevicesDrained
  <2> SUFFICES ASSUME TypeOK, IInv PROVE DevicesDrained
    OBVIOUS
  <2>1. ASSUME NEW d \in Devices, ioPc[d] = "exited",
               NEW w \in Pending, DeviceOf[w.file] = d
        PROVE  FALSE
    <3>1. w \notin deviceQueue
      BY <2>1 DEF IInv, QueueInv
    <3>2. PICK x \in Devices : ioPc[x] = "writing" /\ ioReq[x] = w
      BY <2>1, <3>1 DEF IInv, QueueInv
    <3>3. x = d
      BY <2>1, <3>2 DEF IInv, QueueInv
    <3> QED BY <2>1, <3>2, <3>3
  <2>2. ASSUME mainPc \in {"joinStream", "joinRpc", "done"} PROVE Pending = {}
    <3>1. \A d \in Devices : ioPc[d] = "exited"
      BY <2>2, ConstantsAssumption DEF IInv, MainInv, Devices
    <3>2. \A w \in Pending : DeviceOf[w.file] \in Devices
      BY DEF IInv, QueueInv, Pending
    <3> QED BY <2>1, <3>1, <3>2
  <2> QED BY <2>1, <2>2 DEF DevicesDrained
<1> QED BY <1>1, Safety, TypeCorrect, PTL

-----------------------------------------------------------------------------
(* Nobody waits in vain.  Answers come and shutdown completes only under    *)
(* fairness (AcceptedIsAnswered, ShutdownCompletes).  What makes them safe  *)
(* from deadlock and from running in circles is proved here: whoever waits  *)
(* waits for a thread that can go on, and nothing is done over.             *)

\* How far main is, which devices it has closed, and who has ended the stream.
JoinInv ==
    /\ \A d \in Devices : ~deviceOpen[d] <=>
          \/ d < idev
          \/ d = idev /\ mainPc = "joinDevice"
    /\ IF mainPc = "dedispersion" THEN idev = 1 ELSE stream = "ended"
    /\ mainPc \in {"joinStream", "joinRpc", "done"} => shutdown
    /\ rpcPc = "join" => shutdown
    /\ shutdown => stream # "running"

\* The I/O thread of device d is at a write, or wakes from its wait.
IoReady(d) ==
    \/ ioPc[d] \in {"writing", "report"}
    \/ /\ ioPc[d] = "idle"
       /\ ~deviceOpen[d] \/ \E w \in deviceQueue : DeviceOf[w.file] = d

\* The RPC thread waits for nothing but the stream: its recv() times out.
RpcReady == rpcPc # "exited" /\ (rpcPc = "join" => stream = "ended")

MainReady ==
    \/ mainPc = "devices"
    \/ mainPc = "joinStream" /\ stream = "ended"
    \/ mainPc = "joinDevice" /\ ioPc[idev] = "exited"
    \/ mainPc = "joinRpc" /\ rpcPc = "exited"

\* Whom main waits for: L0 or a shutdown RPC to end the stream, the threads of a
\* stream that ends, dedispersion threads, whose stream has ended and whose L1b
\* children may not have exited; or an I/O thread or the RPC thread, which can go on.
MainAwaits ==
    \/ mainPc = "dedispersion" /\ stream = "running" /\ ~shutdown
    \/ mainPc = "dedispersion" /\ stream \in {"ending", "ended"}
    \/ mainPc = "joinDevice" /\ IoReady(idev)
    \/ mainPc = "joinRpc" /\ RpcReady

AtReport(w)  == \E d \in Devices : ioPc[d] = "report" /\ ioReq[d] = w
AtBackend(w) == \E i \in DOMAIN backendQueue : backendQueue[i].write = w

\* A write has been answered or a thread that can go on has it; a reply in the
\* backend queue may also be left behind by an RPC thread that has exited.
InGoodHands(w) ==
    \/ Answered(w)
    \/ LET d == DeviceOf[w.file] IN
         IoReady(d) /\ (w \in deviceQueue \/ ioReq[d] = w)
    \/ AtBackend(w) /\ (RpcReady \/ rpcPc = "exited" \/ stream = "ending")

NoVainWait ==
    /\ mainPc = "done" \/ MainReady \/ MainAwaits
    /\ rpcPc = "join" => RpcReady \/ stream = "ending"
    /\ \A w \in accepted : w.client \in alive => InGoodHands(w)

LEMMA JoinStep ==
    ASSUME TypeOK, TypeOK', JoinInv, [Next]_vars
    PROVE  JoinInv'
<1> USE ConstantsAssumption DEF JoinInv
<1>1. \A d \in Devices : d \in Int
  BY DEF Devices
<1>2. CASE MainJoinDedispersion
  BY <1>2 DEF MainJoinDedispersion, rpcVars, deviceVars
<1>3. CASE MainEndDevice
  <2>1. /\ mainPc = "devices" /\ mainPc' = "joinDevice" /\ idev' = idev /\ idev \in Devices
        /\ deviceOpen' = [deviceOpen EXCEPT ![idev] = FALSE]
        /\ UNCHANGED <<rpcPc, shutdown, stream>>
    BY <1>3 DEF MainEndDevice, TypeOK, Devices, rpcVars
  <2> QED BY <1>1, <2>1 DEF TypeOK
<1>4. CASE MainJoinDevice
  <2>1. /\ mainPc = "joinDevice" /\ mainPc' = "devices" /\ idev' = idev + 1 /\ idev \in Devices
        /\ UNCHANGED <<rpcPc, shutdown, stream, deviceOpen>>
    BY <1>4 DEF MainJoinDevice, TypeOK, rpcVars, deviceVars
  <2>2. \A d \in Devices : d < idev + 1 <=> d < idev \/ d = idev
    BY <1>1, <2>1
  <2> QED BY <1>1, <2>1, <2>2
<1>5. CASE MainShutdownRpc
  BY <1>5 DEF MainShutdownRpc, EndStream, rpcVars, deviceVars
<1>6. CASE MainJoinStream
  BY <1>6 DEF MainJoinStream, rpcVars, deviceVars
<1>7. CASE MainJoinRpc
  BY <1>7 DEF MainJoinRpc, rpcVars, deviceVars
<1>8. CASE L0Ends \/ StreamThreadsExit
  BY <1>8 DEF L0Ends, StreamThreadsExit, EndStream, rpcVars, deviceVars, mainVars
<1>9. ASSUME NEW c \in Clients, RpcShutdown(c) PROVE JoinInv'
  BY <1>9 DEF RpcShutdown, EndStream, deviceVars, mainVars
<1>10. CASE /\ UNCHANGED <<deviceOpen, idev, mainPc, stream, shutdown>>
            /\ rpcPc' = rpcPc \/ rpcPc' # "join"
  BY <1>10
<1>11. CASE RpcThread /\ ~\E c \in Clients : RpcShutdown(c)
  BY <1>10, <1>11
     DEF RpcThread, RpcTop, RpcSendReply, RpcDrained, RpcTimeout, RpcBad,
         RpcStatus, RpcWriteChunks, RpcEnqueue, RpcSendList,
         RpcJoined, deviceVars, mainVars, rpcVars
<1>12. ASSUME NEW d \in Devices, IoThread(d) PROVE JoinInv'
  BY <1>10, <1>12 DEF IoThread, IoTake, IoFinish, IoReport, IoExit, rpcVars, mainVars
<1>13. CASE UNCHANGED vars
  BY <1>10, <1>13, VarsUnchanged
<1>14. ASSUME NEW c \in Clients, ClientLeave(c) \/ \E r \in Requests : ClientSend(c, r)
       PROVE  JoinInv'
  BY <1>10, <1>14 DEF ClientLeave, ClientSend, rpcVars, deviceVars, mainVars
<1>15. CASE RpcRecvFails
  BY <1>10, <1>15 DEF RpcRecvFails, deviceVars, mainVars
<1>16. ASSUME NEW k \in TestChunks, NEW p \in Patterns, TestEnqueue(k, p)
       PROVE  JoinInv'
  BY <1>10, <1>16 DEF TestEnqueue, rpcVars, mainVars
<1> QED
  BY <1>2, <1>3, <1>4, <1>5, <1>6, <1>7, <1>8, <1>9, <1>11, <1>12, <1>13, <1>14,
     <1>15, <1>16
     DEF Next, MainThread, Exited

LEMMA JoinInvariance == Spec => []JoinInv
<1>1. Init => JoinInv
  BY ConstantsAssumption DEF Init, JoinInv, Devices
<1>2. TypeOK /\ TypeOK' /\ JoinInv /\ [Next]_vars => JoinInv'
  BY JoinStep
<1> QED BY <1>1, <1>2, TypeCorrect, PTL DEF Spec

\* The device of a write that has not ended is at work.
LEMMA PendingAtWork ==
    ASSUME TypeOK, QueueInv, NEW w \in Pending
    PROVE  LET d == DeviceOf[w.file] IN
           IoReady(d) /\ (w \in deviceQueue \/ ioReq[d] = w)
<1> DEFINE d == DeviceOf[w.file]
<1>1. d \in Devices
  BY DEF QueueInv, Pending
<1>2. CASE w \in deviceQueue
  <2>1. ioPc[d] # "exited"
    BY <1>1, <1>2 DEF QueueInv
  <2> QED BY <1>1, <1>2, <2>1 DEF TypeOK, IoReady
<1>3. CASE \E x \in Devices : ioPc[x] = "writing" /\ ioReq[x] = w
  <2>1. PICK x \in Devices : ioPc[x] = "writing" /\ ioReq[x] = w
    BY <1>3
  <2>2. x = d
    BY <2>1 DEF QueueInv
  <2> QED BY <2>1, <2>2 DEF IoReady
<1> QED BY <1>2, <1>3 DEF QueueInv

\* Main, the RPC thread and the clients that wait for their writes always wait
\* for somebody who can go on; only main waits for L0, and only while nothing
\* has ended the stream, and for dedispersion threads, which may wait for L1b
\* children (ch-frb-l1.cpp:920-927, 1481-1516, l1-rpc.cpp:276-446).
THEOREM NobodyWaitsInVain == Spec => []NoVainWait
<1>1. TypeOK /\ IInv /\ JoinInv => NoVainWait
  <2> SUFFICES ASSUME TypeOK, IInv, JoinInv PROVE NoVainWait
    OBVIOUS
  <2>1. mainPc = "done" \/ MainReady \/ MainAwaits
    <3>1. CASE mainPc = "dedispersion"
      BY <3>1 DEF MainReady, MainAwaits, JoinInv, TypeOK
    <3>2. CASE mainPc = "joinDevice"
      <4>1. idev \in Devices /\ ~deviceOpen[idev]
        BY <3>2 DEF TypeOK, JoinInv
      <4>2. ioPc[idev] \in {"idle", "writing", "report", "exited"}
        BY <4>1 DEF TypeOK
      <4> QED BY <3>2, <4>1, <4>2 DEF MainReady, MainAwaits, IoReady
    <3>3. CASE mainPc \in {"joinStream", "joinRpc"}
      BY <3>3 DEF MainReady, MainAwaits, RpcReady, JoinInv
    <3>4. CASE mainPc \in {"devices", "done"}
      BY <3>4 DEF MainReady
    <3> QED BY <3>1, <3>2, <3>3, <3>4 DEF TypeOK
  <2>2. rpcPc = "join" => RpcReady \/ stream = "ending"
    BY DEF RpcReady, JoinInv, TypeOK
  <2>3. ASSUME NEW w \in accepted, w.client \in alive PROVE InGoodHands(w)
    <3>1. CASE w \in Pending
      BY <3>1, PendingAtWork DEF IInv, InGoodHands
    <3>2. CASE AtReport(w)
      <4>1. PICK d \in Devices : ioPc[d] = "report" /\ ioReq[d] = w
        BY <3>2 DEF AtReport
      <4>2. DeviceOf[w.file] = d
        BY <4>1 DEF IInv, QueueInv
      <4> QED BY <4>1, <4>2 DEF InGoodHands, IoReady
    <3>3. CASE AtBackend(w)
      <4>1. RpcReady \/ rpcPc = "exited" \/ stream = "ending"
        BY <2>2 DEF RpcReady
      <4> QED BY <3>3, <4>1 DEF InGoodHands
    <3>4. CASE \E j \in DOMAIN delivered[w.client] :
                  LET m == delivered[w.client][j] IN
                  m.kind = "chunk" /\ m.token = w.token /\ m.chunk = w.chunk
                                   /\ m.file = w.file
      <4>1. w.client \in Clients
        BY <2>3 DEF TypeOK
      <4> QED BY <3>4, <4>1 DEF InGoodHands, Answered, IsReplyTo
    <3>5. w \in Pending \/ w \in written \cup failed
      BY DEF Pending
    <3> QED BY <2>3, <3>1, <3>2, <3>3, <3>4, <3>5
            DEF IInv, ReplyNotLost, AtReport, AtBackend
  <2> QED BY <2>1, <2>2, <2>3 DEF NoVainWait
<1> QED BY <1>1, TypeCorrect, Safety, JoinInvariance, PTL

-----------------------------------------------------------------------------
(* Nothing is done over.                                                   *)

\* The stages of a write: asked for, queued, being written, ended, with its
\* reply in the backend queue, reported.
WriteAt(w) ==
    IF w \notin accepted THEN 0
    ELSE IF w \in deviceQueue THEN 1
    ELSE IF w \in Pending THEN 2
    ELSE IF AtReport(w) THEN 3
    ELSE IF AtBackend(w) THEN 4
    ELSE 5

\* The steps of join_all_threads().
MainAt ==
    IF mainPc = "dedispersion" THEN 0
    ELSE IF mainPc = "devices" THEN 2 * idev - 1
    ELSE IF mainPc = "joinDevice" THEN 2 * idev
    ELSE IF mainPc = "joinStream" THEN 2 * NumDevices + 2
    ELSE IF mainPc = "joinRpc" THEN 2 * NumDevices + 3
    ELSE 2 * NumDevices + 4

\* Every write goes through its stages one by one, and main through its steps.
OneStageAtATime ==
    /\ \A w \in Writes : WriteAt(w)' \in {WriteAt(w), WriteAt(w) + 1}
    /\ MainAt' \in {MainAt, MainAt + 1}

\* A step of main is one ahead; one of an I/O thread, or of the loop that sends
\* the replies, takes a write to its next stage, unless the thread exits.
StepsLead ==
    /\ MainThread => MainAt' = MainAt + 1
    /\ \A d \in Devices :
         IoThread(d) => ioPc'[d] = "exited" \/ \E w \in Writes : WriteAt(w)' = WriteAt(w) + 1
    /\ RpcSendReply => \E w \in Writes : WriteAt(w) = 4 /\ WriteAt(w)' = 5

\* No stage changes but that of write v.
LEMMA StagesKept ==
    ASSUME NEW v,
           \A w \in Writes \ {v} :
             /\ w \in accepted' <=> w \in accepted
             /\ w \in deviceQueue' <=> w \in deviceQueue
             /\ w \in Pending' <=> w \in Pending
             /\ AtReport(w)' <=> AtReport(w)
             /\ AtBackend(w)' <=> AtBackend(w)
    PROVE  \A w \in Writes \ {v} : WriteAt(w)' = WriteAt(w)
  BY DEF WriteAt

LEMMA WriteStages ==
    ASSUME TypeOK, TypeOK', IInv, [Next]_vars
    PROVE  /\ \A w \in Writes : WriteAt(w)' \in {WriteAt(w), WriteAt(w) + 1}
           /\ \A d \in Devices : IoThread(d) =>
                ioPc'[d] = "exited" \/ \E w \in Writes : WriteAt(w)' = WriteAt(w) + 1
           /\ RpcSendReply => \E w \in Writes : WriteAt(w) = 4 /\ WriteAt(w)' = 5
<1> DEFINE Goal == \A w \in Writes : WriteAt(w)' \in {WriteAt(w), WriteAt(w) + 1}
<1>1. ASSUME NEW v \in Writes, WriteAt(v)' = WriteAt(v) + 1,
             \A w \in Writes \ {v} : WriteAt(w)' = WriteAt(w)
      PROVE  Goal
  BY <1>1
<1>2. ASSUME UNCHANGED <<accepted, written, failed, deviceQueue, ioPc, ioReq,
                        backendQueue>>
      PROVE  Goal
  BY <1>2 DEF WriteAt, Pending, AtReport, AtBackend
<1>3. ASSUME NEW d \in Devices, IoTake(d)
      PROVE  Goal /\ \E w \in Writes : WriteAt(w)' = WriteAt(w) + 1
  <2>1. PICK v \in deviceQueue : deviceQueue' = deviceQueue \ {v}
    BY <1>3 DEF IoTake
  <2>2. /\ ioPc[d] = "idle" /\ ioPc' = [ioPc EXCEPT ![d] = "writing"]
        /\ UNCHANGED <<accepted, written, failed, backendQueue>>
        /\ \A x \in Devices \ {d} : ioReq'[x] = ioReq[x]
    BY <1>3 DEF IoTake, historyVars, TypeOK
  <2>3. Pending' = Pending /\ v \in Pending /\ v \in accepted /\ v \in Writes
    BY <2>2 DEF Pending, IInv, QueueInv, TypeOK
  <2>4. \A w : (AtReport(w)' <=> AtReport(w)) /\ (AtBackend(w)' <=> AtBackend(w))
    BY <2>2 DEF AtReport, AtBackend, TypeOK
  <2>5. WriteAt(v) = 1 /\ WriteAt(v)' = 2
    BY <2>1, <2>2, <2>3 DEF WriteAt
  <2>6. \A w \in Writes \ {v} : WriteAt(w)' = WriteAt(w)
    BY <2>1, <2>2, <2>3, <2>4, StagesKept
  <2> QED BY <1>1, <2>3, <2>5, <2>6
<1>4. ASSUME NEW d \in Devices, IoFinish(d)
      PROVE  Goal /\ \E w \in Writes : WriteAt(w)' = WriteAt(w) + 1
  <2> DEFINE v == ioReq[d]
  <2>1. /\ ioPc[d] = "writing" /\ ioPc' = [ioPc EXCEPT ![d] = "report"]
        /\ UNCHANGED <<accepted, deviceQueue, ioReq, backendQueue>>
        /\ \/ written' = written \cup {v} /\ failed' = failed
           \/ failed' = failed \cup {v} /\ written' = written
    BY <1>4 DEF IoFinish
  <2>2. v \in Writes /\ v \in accepted /\ v \in Pending /\ v \notin deviceQueue
    BY <2>1 DEF IInv, QueueInv, Pending, TypeOK
  <2>3. Pending' = Pending \ {v}
    BY <2>1 DEF Pending
  <2>4. \A w : AtReport(w)' <=> AtReport(w) \/ w = v
    BY <2>1 DEF AtReport, TypeOK
  <2>5. \A w : AtBackend(w)' <=> AtBackend(w)
    BY <2>1 DEF AtBackend
  <2> HIDE DEF v
  <2>6. WriteAt(v) = 2
    BY <2>2 DEF WriteAt
  <2>7. v \in accepted' /\ v \notin deviceQueue' /\ v \notin Pending'
    BY <2>1, <2>2, <2>3
  <2>8. PICK u \in Writes : u = v
    BY <2>2
  <2>9. WriteAt(u)' = 3
    <3>1. u \in accepted' /\ u \notin deviceQueue' /\ u \notin Pending' /\ AtReport(u)'
      BY <2>4, <2>7, <2>8
    <3> QED BY <3>1 DEF WriteAt
  <2>10. \A w \in Writes \ {u} : WriteAt(w)' = WriteAt(w)
    BY <2>1, <2>3, <2>4, <2>5, <2>8, StagesKept
  <2> QED BY <1>1, <2>6, <2>8, <2>9, <2>10
<1>5. ASSUME NEW d \in Devices, IoReport(d)
      PROVE  Goal /\ \E w \in Writes : WriteAt(w)' = WriteAt(w) + 1
  <2>1. PICK v \in Writes : v = ioReq[d] /\ v \in written \cup failed
    BY <1>5 DEF IoReport, IInv, QueueInv, TypeOK
  <2> DEFINE n == [write |-> v, success |-> v \in written]
  <2>2. /\ ioPc[d] = "report" /\ ioPc' = [ioPc EXCEPT ![d] = "idle"]
        /\ ioReq' = [ioReq EXCEPT ![d] = NoWrite]
        /\ backendQueue' = Append(backendQueue, n)
        /\ UNCHANGED <<accepted, written, failed, deviceQueue>>
    BY <1>5, <2>1 DEF IoReport, historyVars
  <2>3. /\ Len(backendQueue) \in Nat
        /\ DOMAIN backendQueue = 1 .. Len(backendQueue)
        /\ DOMAIN backendQueue' = 1 .. Len(backendQueue) + 1
        /\ \A i \in DOMAIN backendQueue : backendQueue'[i] = backendQueue[i]
        /\ backendQueue'[Len(backendQueue) + 1] = n
    BY <2>2 DEF TypeOK
  <2>4. n.write = v
    OBVIOUS
  <2> HIDE DEF n
  <2>5. AtBackend(v)' /\ \A w : w # v => (AtBackend(w)' <=> AtBackend(w))
    <3>1. AtBackend(v)'
      <4>1. Len(backendQueue) + 1 \in DOMAIN backendQueue'
        BY <2>3
      <4> QED BY <2>3, <2>4, <4>1 DEF AtBackend
    <3>2. ASSUME NEW w, w # v PROVE AtBackend(w)' <=> AtBackend(w)
      <4>1. \A i \in DOMAIN backendQueue' :
              i \in DOMAIN backendQueue \/ i = Len(backendQueue) + 1
        BY <2>3
      <4>2. DOMAIN backendQueue \subseteq DOMAIN backendQueue'
        BY <2>3
      <4> QED BY <2>3, <2>4, <3>2, <4>1, <4>2 DEF AtBackend
    <3> QED BY <3>1, <3>2
  <2>6. AtReport(v) /\ ~AtReport(v)'
    <3>1. \A x \in Devices : ioPc[x] = "report" /\ ioReq[x] = v => x = d
      BY <2>1, <2>2 DEF IInv, QueueInv
    <3> QED BY <2>1, <2>2, <3>1 DEF AtReport, TypeOK
  <2>7. \A w : w # v => (AtReport(w)' <=> AtReport(w))
    BY <2>1, <2>2 DEF AtReport, TypeOK
  <2>8. /\ Pending' = Pending /\ v \notin Pending /\ v \notin deviceQueue /\ v \in accepted
    BY <2>1, <2>2 DEF Pending, IInv, QueueInv
  <2>9. WriteAt(v) = 3
    BY <2>6, <2>8 DEF WriteAt
  <2>10. WriteAt(v)' = 4
    BY <2>2, <2>5, <2>6, <2>8 DEF WriteAt
  <2>11. \A w \in Writes \ {v} : WriteAt(w)' = WriteAt(w)
    BY <2>2, <2>5, <2>7, <2>8, StagesKept
  <2> QED BY <1>1, <2>9, <2>10, <2>11
<1>6. ASSUME NEW d \in Devices, IoExit(d) PROVE Goal /\ ioPc'[d] = "exited"
  <2>1. /\ ioPc[d] = "idle" /\ ioPc' = [ioPc EXCEPT ![d] = "exited"]
        /\ UNCHANGED <<accepted, written, failed, deviceQueue, ioReq, backendQueue>>
    BY <1>6 DEF IoExit, historyVars
  <2>2. \A w : (AtReport(w)' <=> AtReport(w)) /\ (AtBackend(w)' <=> AtBackend(w))
    BY <2>1 DEF AtReport, AtBackend, TypeOK
  <2>3. Pending' = Pending
    BY <2>1 DEF Pending
  <2>4. \A w : WriteAt(w)' = WriteAt(w)
    BY <2>1, <2>2, <2>3 DEF WriteAt
  <2> QED BY <2>1, <2>4 DEF TypeOK
<1>7. ASSUME RpcSendReply
      PROVE  Goal /\ \E w \in Writes : WriteAt(w) = 4 /\ WriteAt(w)' = 5
  <2>1. /\ backendQueue # <<>> /\ backendQueue' = Tail(backendQueue)
        /\ UNCHANGED <<accepted, written, failed, deviceQueue, ioPc, ioReq>>
    BY <1>7 DEF RpcSendReply, deviceVars, historyVars
  <2>2. /\ 1 \in DOMAIN backendQueue /\ Head(backendQueue) = backendQueue[1]
        /\ Head(backendQueue) \in Entries
        /\ \A i \in DOMAIN backendQueue' :
              i + 1 \in DOMAIN backendQueue /\ i + 1 # 1
              /\ backendQueue'[i] = backendQueue[i + 1]
        /\ \A i \in DOMAIN backendQueue : i # 1 =>
              i - 1 \in DOMAIN backendQueue' /\ backendQueue'[i - 1] = backendQueue[i]
    BY <2>1 DEF TypeOK
  <2>3. PICK v \in Writes : v = backendQueue[1].write
    BY <2>2 DEF Entries
  <2>4. v \in written \cup failed /\ ~AtReport(v) /\ AtBackend(v)
    BY <2>2, <2>3 DEF IInv, BackendInv, AtReport, AtBackend
  <2>5. v \in accepted /\ v \notin deviceQueue /\ v \notin Pending
    BY <2>4 DEF Pending, IInv, QueueInv
  <2>6. ~AtBackend(v)'
    BY <2>2, <2>3 DEF IInv, BackendInv, AtBackend
  <2>7. \A w : w # v => (AtBackend(w)' <=> AtBackend(w))
    <3> SUFFICES ASSUME NEW w, w # v PROVE AtBackend(w)' <=> AtBackend(w)
      OBVIOUS
    <3>1. AtBackend(w)' => AtBackend(w)
      BY <2>2 DEF AtBackend
    <3>2. ASSUME NEW i \in DOMAIN backendQueue, backendQueue[i].write = w
          PROVE  AtBackend(w)'
      <4>1. i # 1
        BY <2>3, <3>2
      <4> QED BY <2>2, <3>2, <4>1 DEF AtBackend
    <3> QED BY <3>1, <3>2 DEF AtBackend
  <2>8. Pending' = Pending /\ \A w : AtReport(w)' <=> AtReport(w)
    BY <2>1 DEF Pending, AtReport
  <2>9. WriteAt(v) = 4 /\ WriteAt(v)' = 5
    BY <2>1, <2>4, <2>5, <2>6, <2>8 DEF WriteAt
  <2>10. \A w \in Writes \ {v} : WriteAt(w)' = WriteAt(w)
    BY <2>1, <2>7, <2>8, StagesKept
  <2>11. WriteAt(v)' = WriteAt(v) + 1
    BY <2>9
  <2> QED BY <1>1, <2>9, <2>10, <2>11
<1>8. ASSUME NEW v, Enqueues(v) PROVE Goal
  <2>1. v \notin accepted /\ v \in Writes
        /\ UNCHANGED <<written, failed, ioPc, ioReq, backendQueue>>
    BY <1>8, EnqueueEffect DEF Enqueues
  <2>2. CASE UNCHANGED <<deviceQueue, accepted>>
    BY <1>2, <2>1, <2>2
  <2>3. CASE deviceQueue' = deviceQueue \cup {v} /\ accepted' = accepted \cup {v}
    <3>1. WriteAt(v) = 0 /\ WriteAt(v)' = 1
      BY <2>1, <2>3 DEF WriteAt
    <3>2. \A w \in Writes \ {v} : WriteAt(w)' = WriteAt(w)
      BY <2>1, <2>3, StagesKept DEF Pending, AtReport, AtBackend
    <3> QED BY <1>1, <2>1, <3>1, <3>2
  <2> QED BY <1>8, <2>2, <2>3, EnqueueEffect
<1>9. Goal
  BY <1>2, <1>3, <1>4, <1>5, <1>6, <1>7, <1>8, StepCases, EnqueueFresh
     DEF IInv, ClientLeave, ClientSend, RpcSkip, RpcBad, RpcShutdown, RpcStatus,
         RpcWriteChunks, RpcSendList, MainEndDevice, Quiet, deviceVars, historyVars
<1> QED BY <1>3, <1>4, <1>5, <1>6, <1>7, <1>9 DEF IoThread

LEMMA MainStages ==
    ASSUME TypeOK, JoinInv, [Next]_vars
    PROVE  /\ MainAt' \in {MainAt, MainAt + 1}
           /\ MainThread => MainAt' = MainAt + 1
<1>1. NumDevices \in Nat /\ idev \in 1 .. NumDevices + 1
  BY ConstantsAssumption DEF TypeOK
<1>4. CASE MainThread
  <2>1. CASE MainJoinDedispersion
    BY <1>1, <2>1 DEF MainJoinDedispersion, JoinInv, MainAt
  <2>2. CASE MainEndDevice
    BY <1>1, <2>2 DEF MainEndDevice, MainAt
  <2>3. CASE MainJoinDevice
    BY <1>1, <2>3 DEF MainJoinDevice, MainAt
  <2>4. CASE MainShutdownRpc
    BY <1>1, <2>4 DEF MainShutdownRpc, MainAt
  <2>5. CASE MainJoinStream
    BY <1>1, <2>5 DEF MainJoinStream, MainAt
  <2>6. CASE MainJoinRpc
    BY <1>1, <2>6 DEF MainJoinRpc, MainAt
  <2> QED BY <1>4, <2>1, <2>2, <2>3, <2>4, <2>5, <2>6 DEF MainThread
<1>6. CASE ~MainThread
  <2>1. UNCHANGED mainVars
    BY <1>6 DEF Next, ClientLeave, ClientSend, IoThread, IoTake, IoFinish, IoReport,
         IoExit, RpcThread, RpcTop, RpcSendReply, RpcDrained, RpcTimeout, RpcBad,
         RpcStatus, RpcWriteChunks, RpcShutdown, RpcEnqueue, RpcSendList, RpcJoined,
         RpcRecvFails, TestEnqueue, L0Ends, StreamThreadsExit, Exited, vars
  <2> QED BY <1>6, <2>1 DEF MainAt, mainVars
<1> QED BY <1>4, <1>6

\* Every write is queued, written, reported and answered at most once and in
\* this order, and no step of main, of an I/O thread or of the reply loop leads
\* nowhere: the writes that are accepted are done with after finitely many
\* steps of those threads, and so is shutdown (l1-rpc.cpp:204-229, 407-446,
\* ch-frb-l1.cpp:1481-1516).
THEOREM NothingDoneOver ==
    Spec => [](MainAt \in 0 .. 2 * NumDevices + 4) /\ [][OneStageAtATime /\ StepsLead]_vars
<1>1. TypeOK /\ JoinInv => MainAt \in 0 .. 2 * NumDevices + 4
  BY ConstantsAssumption DEF TypeOK, Devices, MainAt
<1>2. TypeOK /\ TypeOK' /\ IInv /\ JoinInv /\ [Next]_vars
        => [OneStageAtATime /\ StepsLead]_vars
  BY MainStages, WriteStages DEF OneStageAtATime, StepsLead
<1> QED BY <1>1, <1>2, TypeCorrect, Safety, JoinInvariance, PTL DEF Spec
=============================================================================
