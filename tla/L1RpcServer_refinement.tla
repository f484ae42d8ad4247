----------------------- MODULE L1RpcServer_refinement -----------------------
(***************************************************************************)
(* The RPC server with its I/O threads, devices and main implements        *)
(* WriteService: each of its steps is one of the service or changes        *)
(* nothing the service is about.  For any number of clients, chunks,       *)
(* files, devices and requests.                                            *)
(***************************************************************************)
EXTENDS L1RpcServer_proofs

-----------------------------------------------------------------------------
(* The list under construction is the list of what was accepted.           *)

\* The other half of what IdentityInv says of the current request.
CurrentInv ==
    rpcPc = "enqueue" =>
        \A k \in reply.accepted :
            \E w \in accepted : /\ w.client = cur.client /\ w.token = cur.token
                                /\ w.chunk = k

LEMMA CurrentStep ==
    ASSUME TypeOK, CurrentInv, [Next]_vars
    PROVE  CurrentInv'
<1>1. ASSUME NEW k \in Chunks, RpcEnqueue(k) PROVE CurrentInv'
  <2>1. /\ rpcPc = "enqueue" /\ cur' = cur
        /\ EnqueueWrite(CurWrite(k))
        /\ reply'.accepted = IF Accepts(CurWrite(k).file)
                             THEN reply.accepted \cup {k} ELSE reply.accepted
    BY <1>1 DEF RpcEnqueue, CurWrite
  <2>2. CASE Accepts(CurWrite(k).file)
    <3>1. /\ accepted' = accepted \cup {CurWrite(k)}
          /\ reply'.accepted = reply.accepted \cup {k}
      BY <2>1, <2>2 DEF EnqueueWrite
    <3>2. /\ CurWrite(k).client = cur.client /\ CurWrite(k).token = cur.token
          /\ CurWrite(k).chunk = k
      BY DEF CurWrite
    <3> QED BY <2>1, <3>1, <3>2 DEF CurrentInv
  <2>3. CASE ~Accepts(CurWrite(k).file)
    BY <2>1, <2>3 DEF CurrentInv, EnqueueWrite
  <2> QED BY <2>2, <2>3
<1>2. ASSUME NEW k \in TestChunks, NEW p \in Patterns, TestEnqueue(k, p)
      PROVE  CurrentInv'
  <2>1. accepted \subseteq accepted' /\ UNCHANGED <<rpcPc, cur, reply>>
    BY <1>2 DEF TestEnqueue, EnqueueWrite, rpcVars
  <2> QED BY <2>1 DEF CurrentInv
<1>3. ASSUME NEW c \in Clients, RpcWriteChunks(c) PROVE CurrentInv'
  BY <1>3 DEF RpcWriteChunks, NoReply, CurrentInv
<1>4. CASE rpcPc' # "enqueue"
  BY <1>4 DEF CurrentInv
<1>5. CASE /\ UNCHANGED <<accepted, cur, reply>>
           /\ rpcPc' = "enqueue" <=> rpcPc = "enqueue"
  BY <1>5 DEF CurrentInv
<1> QED
  BY <1>1, <1>2, <1>3, <1>4, <1>5, StepCases
     DEF ClientLeave, ClientSend, IoTake, IoFinish, IoReport, IoExit, RpcSkip,
         RpcBad, RpcShutdown, RpcStatus, RpcSendReply, RpcSendList, MainEndDevice,
         Quiet, rpcVars, historyVars

-----------------------------------------------------------------------------
(* The refinement mapping: what a message adds to it.                      *)

WriteOf(c, m) == [client |-> c, token |-> m.token, chunk |-> m.chunk, file |-> m.file]

LEMMA AnnouncementsAre ==
    \A x : x \in Announcements <=>
        \E c \in Clients : \E j \in DOMAIN delivered[c] :
            /\ delivered[c][j].kind = "list"
            /\ x = <<c, delivered[c][j].token, delivered[c][j].accepted>>
  BY DEF Announcements

LEMMA AnswersAre ==
    \A x : x \in Answers <=>
        \E c \in Clients : \E j \in DOMAIN delivered[c] :
            /\ delivered[c][j].kind = "chunk"
            /\ x = <<WriteOf(c, delivered[c][j]), delivered[c][j].success>>
  BY DEF Answers, WriteOf

\* The same, after a step.
LEMMA MappingNext ==
    /\ \A x : x \in Announcements' <=>
         \E c \in Clients : \E j \in DOMAIN delivered'[c] :
            /\ delivered'[c][j].kind = "list"
            /\ x = <<c, delivered'[c][j].token, delivered'[c][j].accepted>>
    /\ \A x : x \in Answers' <=>
         \E c \in Clients : \E j \in DOMAIN delivered'[c] :
            /\ delivered'[c][j].kind = "chunk"
            /\ x = <<WriteOf(c, delivered'[c][j]), delivered'[c][j].success>>
  BY DEF Announcements, Answers, WriteOf

LEMMA SendMaps ==
    ASSUME TypeOK, NEW c \in Clients, NEW m \in Messages, Send(c, m)
    PROVE  /\ Announcements' =
                IF c \in alive /\ m.kind = "list"
                THEN Announcements \cup {<<c, m.token, m.accepted>>} ELSE Announcements
           /\ Answers' =
                IF c \in alive /\ m.kind = "chunk"
                THEN Answers \cup {<<WriteOf(c, m), m.success>>} ELSE Answers
<1>1. CASE c \notin alive
  <2>1. delivered' = delivered
    BY <1>1 DEF Send
  <2> QED BY <1>1, <2>1 DEF Announcements, Answers
<1>2. CASE c \in alive
  <2>1. PICK j \in DOMAIN delivered'[c] : delivered'[c][j] = m
    BY <1>2, SendEffect
  <2>2. ASSUME NEW x \in Clients, NEW i \in DOMAIN delivered[x]
        PROVE  i \in DOMAIN delivered'[x] /\ delivered'[x][i] = delivered[x][i]
    BY <2>2, SendEffect
  <2>3. ASSUME NEW x \in Clients, NEW i \in DOMAIN delivered'[x]
        PROVE  \/ i \in DOMAIN delivered[x] /\ delivered'[x][i] = delivered[x][i]
               \/ x = c /\ delivered'[x][i] = m
    BY <2>2, <2>3, SendEffect
  <2>4. \A x : x \in Announcements' <=>
                 x \in Announcements \/ (m.kind = "list" /\ x = <<c, m.token, m.accepted>>)
    BY <2>1, <2>2, <2>3, AnnouncementsAre, MappingNext
  <2>5. \A x : x \in Answers' <=>
                 x \in Answers \/ (m.kind = "chunk" /\ x = <<WriteOf(c, m), m.success>>)
    BY <2>1, <2>2, <2>3, AnswersAre, MappingNext
  <2> QED BY <1>2, <2>4, <2>5
<1> QED BY <1>1, <1>2

LEMMA MappingFrame ==
    delivered' = delivered => Announcements' = Announcements /\ Answers' = Answers
  BY DEF Announcements, Answers

\* An announced list is a message with its token.
LEMMA ListWasSent ==
    ASSUME NEW a \in Announcements
    PROVE  /\ a[1] \in Clients
           /\ \E j \in DOMAIN delivered[a[1]] : delivered[a[1]][j].token = a[2]
  BY AnnouncementsAre

\* No message has the token of a request that is being handled.
LEMMA TokenIsNew ==
    ASSUME TypeOK, TokenInv, rpcPc = "enqueue"
    PROVE  \A j \in DOMAIN delivered[cur.client] :
              delivered[cur.client][j].token # cur.token
<1> SUFFICES ASSUME NEW j \in DOMAIN delivered[cur.client]
             PROVE  delivered[cur.client][j].token # cur.token
  OBVIOUS
<1>1. delivered[cur.client][j] \in Messages
  BY CurTyped DEF TypeOK
<1>2. delivered[cur.client][j].token < cur.token
  BY DEF TokenInv
<1> QED BY <1>1, <1>2, MsgTyped

-----------------------------------------------------------------------------
(* The steps of the service.                                               *)

\* A write is accepted before the list of its request is out.
LEMMA AcceptStep ==
    ASSUME TypeOK, TokenInv, NEW w, Enqueues(w)
    PROVE  Service!Accept(w) \/ UNCHANGED <<accepted, written, failed, Announcements, Answers>>
<1>1. UNCHANGED <<delivered, written, failed>> /\ w \in Writes
  BY DEF Enqueues
<1>2. w \notin accepted
  BY EnqueueEffect
<1>3. ~Service!Announced(w.client, w.token)
  <2>1. SUFFICES ASSUME NEW a \in Announcements, a[1] = w.client, a[2] = w.token
                 PROVE  FALSE
    BY DEF Service!Announced
  <2>2. /\ w.client \in Clients
        /\ \E j \in DOMAIN delivered[w.client] : delivered[w.client][j].token = w.token
    BY <2>1, ListWasSent
  <2>3. rpcPc = "enqueue" /\ w.client = cur.client /\ w.token = cur.token
    BY <2>2 DEF Enqueues
  <2> QED BY <2>2, <2>3, TokenIsNew
<1> QED BY <1>1, <1>2, <1>3, MappingFrame, EnqueueEffect DEF Service!Accept

LEMMA FinishStep ==
    ASSUME TypeOK, QueueInv, NEW d \in Devices, IoFinish(d)
    PROVE  ioReq[d] \in Writes /\ Service!Finish(ioReq[d])
<1>1. /\ ioPc[d] = "writing" /\ ioReq[d] \in Writes
      /\ UNCHANGED <<delivered, accepted>>
  BY DEF IoFinish, TypeOK
<1>2. ioReq[d] \in accepted \ (written \cup failed)
  BY <1>1 DEF QueueInv, Pending
<1> QED BY <1>1, <1>2, MappingFrame DEF IoFinish, Service!Finish

\* The list of a request goes out once and names what was accepted for it.
LEMMA AnnounceStep ==
    ASSUME Chunks # {}, TypeOK, TokenInv, IdentityInv, CurrentInv, RpcSendList
    PROVE  \/ UNCHANGED <<accepted, written, failed, Announcements, Answers>>
           \/ \E c \in Clients, t \in {w.token : w \in Writes} : Service!Announce(c, t)
<1>1. /\ rpcPc = "enqueue" /\ Send(cur.client, CurList)
      /\ UNCHANGED <<accepted, written, failed>>
  BY DEF RpcSendList, CurList, historyVars
<1>2. cur.client \in Clients /\ cur.token \in Tokens /\ CurList \in Messages
  BY <1>1, CurTyped, ListMsgTyped DEF TypeOK, CurList
<1>3. cur.token \in {w.token : w \in Writes}
  <2>1. PICK k \in Chunks : TRUE
    OBVIOUS
  <2>2. CurWrite(k) \in Writes /\ CurWrite(k).token = cur.token
    BY <1>1, CurTyped DEF CurWrite
  <2> QED BY <2>2
<1>4. CASE cur.client \notin alive
  BY <1>1, <1>2, <1>4, SendMaps DEF CurList
<1>5. CASE cur.client \in alive
  <2>1. /\ Answers' = Answers
        /\ Announcements' =
             Announcements \cup {<<cur.client, cur.token, reply.accepted>>}
    BY <1>1, <1>2, <1>5, SendMaps DEF CurList
  <2>2. ~Service!Announced(cur.client, cur.token)
    <3>1. SUFFICES ASSUME NEW a \in Announcements, a[1] = cur.client, a[2] = cur.token
                   PROVE  FALSE
      BY DEF Service!Announced
    <3>2. \E j \in DOMAIN delivered[cur.client] :
             delivered[cur.client][j].token = cur.token
      BY <3>1, ListWasSent
    <3> QED BY <1>1, <3>2, TokenIsNew
  <2>3. reply.accepted =
          {w.chunk : w \in {v \in accepted : v.client = cur.client /\ v.token = cur.token}}
    <3>1. \A k \in reply.accepted :
            k \in {w.chunk : w \in {v \in accepted : v.client = cur.client
                                                     /\ v.token = cur.token}}
      BY <1>1 DEF CurrentInv
    <3>2. \A w \in accepted : w.client = cur.client /\ w.token = cur.token =>
                                w.chunk \in reply.accepted
      BY <1>1 DEF IdentityInv
    <3> QED BY <3>1, <3>2
  <2>4. Service!Announce(cur.client, cur.token)
    BY <1>1, <2>1, <2>2, <2>3 DEF Service!Announce
  <2> QED BY <1>2, <1>3, <2>4
<1> QED BY <1>4, <1>5

\* A write is answered once, truthfully, after its list.
LEMMA AnswerStep ==
    ASSUME TypeOK, QueueInv, ListInv, BackendInv,
           NEW c \in Clients, NEW e \in Entries, SendsChunk(c, e),
           ChunkMsg(e) \in Messages
    PROVE  \/ UNCHANGED <<accepted, written, failed, Announcements, Answers>>
           \/ e.write \in Writes /\ Service!Answer(e.write)
<1> DEFINE w == e.write
<1>1. /\ rpcPc = "drain" /\ w \in written \cup failed /\ c = w.client
      /\ e.success = (w \in written)
      /\ UNCHANGED <<accepted, written, failed>>
      /\ e = backendQueue[1] /\ 1 \in DOMAIN backendQueue
  BY SendReplyEffect DEF SendsChunk, RpcSendReply, historyVars
<1>2. w \in Writes /\ w \in accepted
  BY <1>1 DEF QueueInv, TypeOK
<1>3. /\ WriteOf(c, ChunkMsg(e)) = w /\ ChunkMsg(e).success = (w \in written)
      /\ ChunkMsg(e).kind = "chunk"
  BY <1>1, <1>2, WriteRecord DEF WriteOf, ChunkMsg
<1>4. CASE c \notin alive
  BY <1>1, <1>3, <1>4, SendMaps DEF SendsChunk
<1>5. CASE c \in alive
  <2>1. /\ Announcements' = Announcements
        /\ Answers' = Answers \cup {<<w, w \in written>>}
    BY <1>3, <1>5, SendMaps DEF SendsChunk
  <2>2. Service!Announced(w.client, w.token)
    <3>1. PICK j \in DOMAIN delivered[w.client] : Lists(delivered[w.client][j], w)
      BY <1>1, <1>2, <1>5 DEF ListInv
    <3>2. <<w.client, delivered[w.client][j].token, delivered[w.client][j].accepted>>
             \in Announcements
      BY <1>1, <3>1, AnnouncementsAre DEF Lists
    <3> QED BY <3>1, <3>2 DEF Service!Announced, Lists
  <2>3. \A a \in Answers : a[1] # w
    <3>1. SUFFICES ASSUME NEW a \in Answers, a[1] = w PROVE FALSE
      OBVIOUS
    <3>2. PICK x \in Clients : \E j \in DOMAIN delivered[x] :
                  /\ delivered[x][j].kind = "chunk"
                  /\ a = <<WriteOf(x, delivered[x][j]), delivered[x][j].success>>
      BY AnswersAre
    <3>3. \E j \in DOMAIN delivered[x] :
             delivered[x][j].kind = "chunk" /\ w = WriteOf(x, delivered[x][j])
      BY <3>1, <3>2
    <3>4. Answered(w)
      BY <3>3 DEF Answered, IsReplyTo, WriteOf
    <3> QED BY <1>1, <3>4 DEF BackendInv
  <2> QED BY <1>1, <1>2, <2>1, <2>2, <2>3 DEF Service!Answer
<1> QED BY <1>4, <1>5

\* The answer to get_writechunk_status is what the map said.
LEMMA StatusIsSent ==
    ASSUME TypeOK, NEW c \in Clients, RpcStatus(c)
    PROVE  \E m \in Messages : /\ m.kind = "status" /\ m.file \in Files
                               /\ m.status = status[m.file]
                               /\ Send(c, m)
<1> DEFINE r == Head(inbox[c])
           m == [kind |-> "status", token |-> r.token, file |-> r.file,
                 status |-> status[r.file]]
<1>1. Receive(c, "get_writechunk_status") /\ Send(c, m)
  BY DEF RpcStatus
<1>2. r \in Requests /\ r.fn = "get_writechunk_status"
  BY <1>1, ReceiveEffect
<1>3. r.token \in Tokens /\ r.file \in Files
  BY <1>2, RequestTyped
<1>4. m \in Messages
  BY <1>3, StatusMsgTyped DEF TypeOK
<1> QED BY <1>1, <1>3, <1>4

LEMMA ServiceStep ==
    ASSUME Chunks # {}, TypeOK, TypeOK', IInv, CurrentInv, [Next]_vars
    PROVE  [Service!Next]_Service!vars
<1> DEFINE Stutter == UNCHANGED <<accepted, written, failed, Announcements, Answers>>
<1> SUFFICES Stutter \/ Service!Next
  BY DEF Service!vars
<1> USE DEF IInv
<1>1. ASSUME NEW w, Enqueues(w) PROVE Stutter \/ Service!Next
  <2>1. w \in Writes
    BY <1>1 DEF Enqueues
  <2> QED BY <1>1, <2>1, AcceptStep DEF Service!Next
<1>2. ASSUME NEW d \in Devices, IoFinish(d) PROVE Service!Next
  BY <1>2, FinishStep DEF Service!Next
<1>3. CASE RpcSendList
  BY <1>3, AnnounceStep DEF Service!Next
<1>4. CASE RpcSendReply
  <2>1. UNCHANGED <<accepted, written, failed>>
    BY <1>4 DEF RpcSendReply, historyVars
  <2>2. CASE delivered' = delivered
    BY <2>1, <2>2, MappingFrame
  <2>3. ASSUME NEW c \in Clients, NEW e \in Entries, SendsChunk(c, e),
               ChunkMsg(e) \in Messages
        PROVE  Stutter \/ Service!Next
    BY <2>3, AnswerStep DEF Service!Next
  <2> QED BY <1>4, <2>2, <2>3, SendReplyEffect DEF SendsChunk
<1>5. ASSUME NEW c \in Clients, RpcStatus(c) PROVE Stutter
  <2>1. UNCHANGED <<accepted, written, failed>>
    BY <1>5 DEF RpcStatus, historyVars
  <2>2. PICK x \in Clients, m \in Messages : m.kind = "status" /\ Send(x, m)
    BY <1>5, StatusIsSent
  <2> QED BY <2>1, <2>2, SendMaps
<1>6. CASE UNCHANGED <<delivered, accepted, written, failed>>
  BY <1>6, MappingFrame
<1> HIDE DEF Stutter
<1> QED
  BY <1>1, <1>2, <1>3, <1>4, <1>5, <1>6, StepCases, EnqueueFresh
     DEF ClientLeave, ClientSend, IoTake, IoReport, IoExit, RpcSkip, RpcBad,
         RpcShutdown, RpcWriteChunks, MainEndDevice, Quiet, historyVars

-----------------------------------------------------------------------------
(* The status that a client is told after a reply.                         *)

LEMMA StatusAfterReplyStep ==
    ASSUME TypeOK, TypeOK', IInv, StatusAfterReply, [Next]_vars
    PROVE  StatusAfterReply'
<1> DEFINE Excused(c, m, A) ==
             \E w \in A : w.file = m.file /\ w # WriteOf(c, m)
<1> USE DEF IInv
<1>1. accepted \subseteq accepted'
  <2>1. \A w : Enqueues(w) => accepted \subseteq accepted'
    BY EnqueueEffect
  <2> QED BY <2>1, StepCases, EnqueueFresh
     DEF ClientLeave, ClientSend, IoTake, IoFinish, IoReport, IoExit, RpcSkip,
         RpcBad, RpcShutdown, RpcWriteChunks, RpcStatus, RpcSendReply,
         RpcSendList, MainEndDevice, Quiet, historyVars
<1>2. CASE delivered' = delivered
  BY <1>1, <1>2 DEF StatusAfterReply
<1>3. ASSUME NEW c \in Clients, NEW n \in Messages, Send(c, n),
             \A i \in DOMAIN delivered[c] :
                 LET m == delivered[c][i] IN
                 m.kind = "chunk" /\ n.kind = "status" /\ m.file = n.file =>
                     n.status \in Final \/ Excused(c, m, accepted)
      PROVE  StatusAfterReply'
  <2> SUFFICES ASSUME NEW x \in Clients, NEW i \in DOMAIN delivered'[x],
                      NEW j \in DOMAIN delivered'[x], i < j,
                      delivered'[x][i].kind = "chunk",
                      delivered'[x][j].kind = "status",
                      delivered'[x][i].file = delivered'[x][j].file
               PROVE  \/ delivered'[x][j].status \in Final
                      \/ Excused(x, delivered'[x][i], accepted')
    BY DEF StatusAfterReply, WriteOf
  <2>1. /\ DOMAIN delivered[x] = 1 .. Len(delivered[x]) /\ Len(delivered[x]) \in Nat
        /\ i \in Nat /\ j \in Nat
    BY DEF TypeOK
  <2>2. i \in DOMAIN delivered[x]
    BY <1>3, <2>1, SendEffect
  <2>3. delivered'[x][i] = delivered[x][i]
    BY <1>3, <2>2, SendEffect
  <2>4. CASE j \in DOMAIN delivered[x]
    <3>1. delivered'[x][j] = delivered[x][j]
      BY <1>3, <2>4, SendEffect
    <3>2. delivered[x][j].status \in Final \/ Excused(x, delivered[x][i], accepted)
      BY <2>2, <2>3, <2>4, <3>1 DEF StatusAfterReply, WriteOf
    <3> QED BY <1>1, <2>3, <3>1, <3>2
  <2>5. CASE j \notin DOMAIN delivered[x]
    <3>1. x = c /\ delivered'[x][j] = n
      BY <1>3, <2>5, SendEffect
    <3> QED BY <1>1, <1>3, <2>2, <2>3, <3>1
  <2> QED BY <2>4, <2>5
<1>4. ASSUME NEW c \in Clients, RpcStatus(c)
      PROVE  StatusAfterReply'
  <2>1. PICK n \in Messages : n.kind = "status" /\ Send(c, n) /\ n.status = status[n.file]
                              /\ n.file \in Files
    BY <1>4, StatusIsSent
  <2>2. ASSUME NEW i \in DOMAIN delivered[c],
               delivered[c][i].kind = "chunk", delivered[c][i].file = n.file
        PROVE  n.status \in Final \/ Excused(c, delivered[c][i], accepted)
    <3> DEFINE w == WriteOf(c, delivered[c][i])
    <3>1. w \in written \cup failed /\ w.file = n.file
      BY <2>2 DEF ReplyTruthful, WriteOf
    <3>2. w \in accepted /\ w \notin Pending
      BY <3>1 DEF QueueInv, Pending
    <3>3. status[n.file] # "UNKNOWN" /\ status[n.file] \in StatusSet
      BY <2>1, <3>1, <3>2 DEF StatusSettled, TypeOK
    <3>4. CASE status[n.file] = "QUEUED"
      <4>1. PICK v \in Pending : v.file = n.file
        BY <2>1, <3>4 DEF StatusSettled
      <4>2. v \in accepted /\ v # w
        BY <3>2, <4>1 DEF Pending
      <4> QED BY <2>2, <4>1, <4>2
    <3> QED BY <2>1, <3>3, <3>4 DEF StatusSet
  <2> QED BY <1>3, <2>1, <2>2
<1>5. CASE RpcSendList
  <2>1. /\ cur.client \in Clients /\ CurList \in Messages /\ Send(cur.client, CurList)
    BY <1>5, CurTyped, ListMsgTyped DEF RpcSendList, CurList, TypeOK
  <2> QED BY <1>3, <2>1 DEF CurList
<1>6. ASSUME NEW c \in Clients, NEW e \in Entries, SendsChunk(c, e), ChunkMsg(e) \in Messages
      PROVE  StatusAfterReply'
  BY <1>3, <1>6 DEF SendsChunk, ChunkMsg
<1> QED BY <1>2, <1>4, <1>5, <1>6, SentMessages

-----------------------------------------------------------------------------
(* The theorems.                                                           *)

LEMMA InitMaps ==
    ASSUME Init
    PROVE  Service!Init /\ CurrentInv /\ StatusAfterReply
<1>1. \A c \in Clients : DOMAIN delivered[c] = {}
  BY DEF Init
<1>2. Announcements = {} /\ Answers = {}
  BY <1>1, AnnouncementsAre, AnswersAre
<1> QED BY <1>1, <1>2 DEF Init, Service!Init, CurrentInv, StatusAfterReply

\* What the threads of the RPC server, the devices and main do together is
\* what rpc.hpp:111-121 promises, if the ring buffers can hold a chunk at all.
THEOREM ServiceImplemented ==
    ASSUME Chunks # {}
    PROVE  Spec => ImplementsService
<1>1. Init => Service!Init /\ CurrentInv
  BY InitMaps
<1>2. TypeOK /\ CurrentInv /\ [Next]_vars => CurrentInv'
  BY CurrentStep
<1>3. TypeOK /\ TypeOK' /\ IInv /\ CurrentInv /\ [Next]_vars
        => [Service!Next]_Service!vars
  BY ServiceStep
<1> QED BY <1>1, <1>2, <1>3, TypeCorrect, Safety, PTL
        DEF Spec, ImplementsService, Service!Spec

\* A client that was told how a write ended gets no "QUEUED" for the file,
\* unless another write of the file has been accepted.
THEOREM StatusFollowsReply == Spec => []StatusAfterReply
<1>1. Init => StatusAfterReply
  BY InitMaps
<1>2. TypeOK /\ TypeOK' /\ IInv /\ StatusAfterReply /\ [Next]_vars => StatusAfterReply'
  BY StatusAfterReplyStep
<1> QED BY <1>1, <1>2, TypeCorrect, Safety, PTL DEF Spec

=============================================================================
