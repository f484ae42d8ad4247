----------------------------- MODULE Cnc_proofs -----------------------------
(***************************************************************************)
(* The safety properties of Cnc, for any servers, timeout, number of calls *)
(* and polls and of lines; and that whoever waits for a reply waits for a  *)
(* daemon that has the request.                                            *)
(***************************************************************************)
EXTENDS Cnc, SequenceTheorems, TLAPS

\* A loop over the list starts at its first.
ReapInv == \A s \in Servers : daemon[s].pc = "reap" => daemon[s].i >= 1

\* A request from the call in progress or from a poll has not been answered.
Awaited(s, r) ==
    /\ r.from = "call" => /\ r.kind = call.kind /\ r.kind \in Kinds
                          /\ r.pid = PidOf(call.kind, calls)
                          /\ s \in call.pending /\ answers[s] = None
    /\ r.from = "poll" => r.kind = "read" /\ r.pid = polling[s]
    /\ r.kind \in Launching \cup {"read"} => r.pid \in Pids

\* It is the only one at its server.
RequestAt(s) ==
    /\ \A k \in DOMAIN inbox[s] :
         /\ Awaited(s, inbox[s][k])
         /\ inbox[s][k].from # "nobody" => inbox[s][k].from # daemon[s].req.from
         /\ \A j \in DOMAIN inbox[s] :
              inbox[s][j].from = inbox[s][k].from /\ inbox[s][k].from # "nobody" => j = k
    /\ Awaited(s, daemon[s].req)
    /\ daemon[s].pc \in {"poll", "reap", "off"} => daemon[s].req = NoRequest
    /\ daemon[s].pc = "run" => daemon[s].req.kind = "run"
    /\ daemon[s].pc \in {"read", "again"} => daemon[s].req.kind = "read"

RequestInv == \A s \in Servers : RequestAt(s)

\* What the call has received, and what it has read, is for it.
CallInv ==
    /\ \A s \in All : answers[s] # None => s \in call.pending
    /\ \A s \in Servers : answers[s] \in {None, PidOf(call.kind, calls)}
    /\ OwnAnswers

Increasing(q) == \A i, j \in DOMAIN q : i < j => q[i] < q[j]

\* What polls have returned has been taken from the queue, and what is about to
\* be sent was taken later.
OutputAt(s) ==
    /\ \A p \in Pids :
         /\ lines[s][p].taken <= lines[s][p].queued
         /\ lines[s][p].queued <= lines[s][p].made
         /\ Increasing(got[s][p])
         /\ \A j \in DOMAIN got[s][p] : got[s][p][j] <= lines[s][p].taken
    /\ daemon[s].pc = "again" =>
         /\ Increasing(daemon[s].out)
         /\ \A j \in DOMAIN daemon[s].out :
              /\ daemon[s].out[j] <= lines[s][daemon[s].req.pid].taken
              /\ \A i \in DOMAIN got[s][daemon[s].req.pid] :
                   got[s][daemon[s].req.pid][i] < daemon[s].out[j]

OutputInv == \A s \in Servers : OutputAt(s)

IInv == /\ TypeOK /\ ReapInv /\ RequestInv /\ CallInv /\ OutputInv
        /\ RunningAreKnown

-----------------------------------------------------------------------------
(* Types.                                                                  *)

LEMMA Types ==
    ASSUME TypeOK, NEW s \in Servers
    PROVE  /\ daemon[s] \in DaemonStates /\ polling[s] \in Pids \cup {0}
           /\ inbox[s] \in Seq(Requests) /\ launched[s] \in Seq(Pids)
           /\ lines[s] \in [Pids -> LineCounts]
           /\ got[s] \in [Pids -> Seq(1 .. MaxLines)]
  BY DEF TypeOK

LEMMA RestingType ==
    /\ Resting \in DaemonStates
    /\ [Resting EXCEPT !.pc = "off"] \in DaemonStates
<1>1. NoRequest \in Requests
  BY DEF NoRequest, Requests
<1>2. 0 \in Nat /\ <<>> \in Seq(1 .. MaxLines)
  OBVIOUS
<1> QED BY <1>1, <1>2 DEF Resting, DaemonStates

\* A request has been taken from the inbox.
Taken(s) ==
    /\ inbox[s] # <<>>
    /\ inbox' = [inbox EXCEPT ![s] = Tail(@)]

LEMMA TakeType ==
    ASSUME TypeOK, NEW s \in Servers, NEW kind, Take(s, kind)
    PROVE  /\ inbox' \in [Servers -> Seq(Requests)]
           /\ Request(s) \in Requests /\ Request(s) = inbox[s][1]
           /\ 1 \in DOMAIN inbox[s]
           /\ Request(s).kind = kind /\ daemon[s].pc = "poll"
           /\ Taken(s)
<1>1. inbox[s] \in Seq(Requests) /\ inbox[s] # <<>>
  BY DEF TypeOK, Take
<1>2. Tail(inbox[s]) \in Seq(Requests) /\ Head(inbox[s]) \in Requests
  BY <1>1, HeadTailProperties
<1>3. 1 \in DOMAIN inbox[s]
  BY <1>1, EmptySeq, LenProperties
<1> QED BY <1>1, <1>2, <1>3 DEF TypeOK, Take, Request, Taken

\* There is a process id for what is to be launched.
LEMMA PidLeft ==
    ASSUME TypeOK, RequestInv, NEW s \in Servers,
           Take(s, "launch") \/ Take(s, "captive")
    PROVE  Request(s).pid \in Pids
<1>1. Awaited(s, Request(s))
  BY TakeType DEF RequestInv, RequestAt
<1>2. Request(s).kind \in Launching
  BY TakeType DEF Launching
<1> QED BY <1>1, <1>2 DEF Awaited

LEMMA ReplyType ==
    ASSUME TypeOK, NEW s \in Servers, NEW req \in Requests,
           req.from = "poll" => req.pid \in Pids,
           NEW answer \in Pids \cup {0},
           NEW out \in Seq(1 .. MaxLines), Reply(s, req, answer, out)
    PROVE  /\ answers' \in [All -> Pids \cup {0, None}]
           /\ polling' \in [Servers -> Pids \cup {0}]
           /\ got' \in [Servers -> [Pids -> Seq(1 .. MaxLines)]]
<1>1. /\ answers' \in [All -> Pids \cup {0, None}]
      /\ polling' \in [Servers -> Pids \cup {0}]
  BY DEF TypeOK, Reply
<1>2. CASE req.from = "poll"
  <2>1. got[s][req.pid] \o out \in Seq(1 .. MaxLines)
    BY <1>2, ConcatProperties, Types
  <2>2. got' = [got EXCEPT ![s] = [got[s] EXCEPT ![req.pid] = got[s][req.pid] \o out]]
    BY <1>2 DEF Reply
  <2>3. [got[s] EXCEPT ![req.pid] = got[s][req.pid] \o out] \in [Pids -> Seq(1 .. MaxLines)]
    BY <2>1, Types
  <2> QED BY <1>1, <2>2, <2>3 DEF TypeOK
<1>3. CASE req.from # "poll"
  BY <1>1, <1>3 DEF TypeOK, Reply
<1> QED BY <1>2, <1>3

\* What Drain() takes from the queue.
LEMMA QueuedType ==
    ASSUME TypeOK, NEW s \in Servers, NEW p \in Pids
    PROVE  Queued(s, p) \in Seq(1 .. MaxLines)
<1>1. /\ lines[s][p].queued \in 0 .. MaxLines /\ lines[s][p].taken \in 0 .. MaxLines
  BY Types DEF LineCounts
<1>2. CASE lines[s][p].queued >= lines[s][p].taken
  BY <1>1, <1>2, CncAssumption DEF Queued
<1>3. CASE lines[s][p].queued < lines[s][p].taken
  <2>1. Queued(s, p) = <<>>
    BY <1>1, <1>3, CncAssumption DEF Queued
  <2> QED BY <2>1
<1> QED BY <1>1, <1>2, <1>3

\* The queue of a child has been emptied.
LEMMA EmptiedType ==
    ASSUME TypeOK, NEW s \in Servers, NEW p \in Pids,
           lines' = [lines EXCEPT ![s][p].taken = lines[s][p].queued]
    PROVE  lines' \in [Servers -> [Pids -> LineCounts]]
<1>1. lines[s][p] \in LineCounts
  BY Types
<1>2. [lines[s][p] EXCEPT !.taken = lines[s][p].queued] \in LineCounts
  BY <1>1 DEF LineCounts
<1>3. lines' = [lines EXCEPT ![s] = [lines[s] EXCEPT ![p] =
                  [lines[s][p] EXCEPT !.taken = lines[s][p].queued]]]
  OBVIOUS
<1>4. lines \in [Servers -> [Pids -> LineCounts]]
  BY DEF TypeOK
<1> QED BY <1>2, <1>3, <1>4

LEMMA AbandonedType ==
    ASSUME TypeOK, NEW s \in Servers, NEW from
    PROVE  /\ [k \in DOMAIN inbox[s] |-> Abandoned(inbox[s][k], from)] \in Seq(Requests)
           /\ \A r \in Requests : Abandoned(r, from) \in Requests
           /\ [daemon[s] EXCEPT !.req = Abandoned(daemon[s].req, from)] \in DaemonStates
<1>1. \A r \in Requests : Abandoned(r, from) \in Requests
  BY DEF Abandoned, Requests
<1>2. /\ inbox[s] \in Seq(Requests) /\ Len(inbox[s]) \in Nat
      /\ DOMAIN inbox[s] = 1 .. Len(inbox[s])
      /\ \A k \in 1 .. Len(inbox[s]) : inbox[s][k] \in Requests
  BY LenProperties, ElementOfSeq DEF TypeOK
<1>3. [k \in 1 .. Len(inbox[s]) |-> Abandoned(inbox[s][k], from)]
         \in [1 .. Len(inbox[s]) -> Requests]
  BY <1>1, <1>2
<1>4. [daemon[s] EXCEPT !.req = Abandoned(daemon[s].req, from)] \in DaemonStates
  BY <1>1, Types DEF DaemonStates
<1> QED BY <1>1, <1>2, <1>3, <1>4

LEMMA TypeStep ==
    ASSUME TypeOK, RequestInv, [Next]_vars
    PROVE  TypeOK'
<1>1. ASSUME NEW s \in Servers, NEW p \in Pids, PrintLine(s, p) PROVE TypeOK'
  <2>1. [lines[s][p] EXCEPT !.made = lines[s][p].made + 1] \in LineCounts
    <3>1. lines[s][p] \in LineCounts
      BY Types
    <3> QED BY <1>1, <3>1, CncAssumption DEF LineCounts, PrintLine
  <2>2. lines' = [lines EXCEPT ![s] = [lines[s] EXCEPT ![p] =
                    [lines[s][p] EXCEPT !.made = lines[s][p].made + 1]]]
    BY <1>1 DEF PrintLine
  <2>3. lines' \in [Servers -> [Pids -> LineCounts]]
    BY <2>1, <2>2 DEF TypeOK
  <2> QED BY <1>1, <2>3 DEF TypeOK, PrintLine, daemonVars, callVars, pollVars
<1>2. ASSUME NEW s \in Servers, NEW p \in Pids, ChildExits(s, p) PROVE TypeOK'
  BY <1>2 DEF TypeOK, ChildExits, daemonVars, callVars, pollVars
<1>3. ASSUME NEW s \in Servers, NEW p \in Pids, Enqueue(s, p) PROVE TypeOK'
  <2>1. [lines[s][p] EXCEPT !.queued = lines[s][p].queued + 1] \in LineCounts
    <3>1. lines[s][p] \in LineCounts
      BY Types
    <3> QED BY <1>3, <3>1, CncAssumption DEF LineCounts, Enqueue
  <2>2. lines' = [lines EXCEPT ![s] = [lines[s] EXCEPT ![p] =
                    [lines[s][p] EXCEPT !.queued = lines[s][p].queued + 1]]]
    BY <1>3 DEF Enqueue
  <2>3. lines' \in [Servers -> [Pids -> LineCounts]]
    BY <2>1, <2>2 DEF TypeOK
  <2> QED BY <1>3, <2>3 DEF TypeOK, Enqueue, daemonVars, callVars, pollVars
<1>4. ASSUME NEW s \in Servers, PollTimesOut(s) PROVE TypeOK'
  <2>1. [daemon[s] EXCEPT !.pc = "reap", !.i = 1] \in DaemonStates
    BY Types DEF DaemonStates
  <2>2. daemon' = [daemon EXCEPT ![s] = [daemon[s] EXCEPT !.pc = "reap", !.i = 1]]
    BY <1>4 DEF PollTimesOut
  <2> QED BY <1>4, <2>1, <2>2 DEF TypeOK, PollTimesOut, childVars, callVars, pollVars
<1>5. ASSUME NEW s \in Servers, Reap(s) PROVE TypeOK'
  <2>1. Resting \in DaemonStates
    BY RestingType
  <2>2. launched[s] \in Seq(Pids) /\ Len(launched[s]) \in Nat /\ daemon[s] \in DaemonStates
    BY DEF TypeOK
  <2>3. daemon' \in [Servers -> DaemonStates]
    <3>1. [daemon[s] EXCEPT !.i = daemon[s].i + 1] \in DaemonStates
      BY <2>2 DEF DaemonStates
    <3>2. daemon' = [daemon EXCEPT ![s] = IF AtChild(s) THEN [daemon[s] EXCEPT !.i = daemon[s].i + 1]
                                             ELSE Resting]
      BY <1>5 DEF Reap
    <3> QED BY <2>1, <3>1, <3>2 DEF TypeOK
  <2>4. launched' \in [Servers -> Seq(Pids)]
    <3>1. ASSUME AtChild(s) PROVE RemoveAt(launched[s], daemon[s].i) \in Seq(Pids)
      <4>1. /\ SubSeq(launched[s], 1, daemon[s].i - 1) \in Seq(Pids)
            /\ SubSeq(launched[s], daemon[s].i + 1, Len(launched[s])) \in Seq(Pids)
        <5>1. daemon[s].i \in Nat
          BY <2>2 DEF DaemonStates
        <5>2. daemon[s].i <= Len(launched[s])
          BY <3>1 DEF AtChild
        <5> QED BY <2>2, <5>1, <5>2, SubSeqProperties, ElementOfSeq
      <4> QED BY <4>1, ConcatProperties DEF RemoveAt
    <3>2. \/ launched' = launched
          \/ AtChild(s) /\ launched' = [launched EXCEPT ![s] = RemoveAt(launched[s], daemon[s].i)]
      BY <1>5 DEF Reap
    <3> QED BY <3>1, <3>2 DEF TypeOK
  <2> QED BY <1>5, <2>3, <2>4 DEF TypeOK, Reap, childVars, callVars, pollVars
<1>6. ASSUME NEW s \in Servers, Run(s) PROVE TypeOK'
  <2>1. /\ Request(s) \in Requests /\ inbox' \in [Servers -> Seq(Requests)]
    BY <1>6, TakeType DEF Run
  <2>2. [daemon[s] EXCEPT !.pc = "run", !.req = Request(s)] \in DaemonStates
    BY <2>1, Types DEF DaemonStates
  <2>3. daemon' = [daemon EXCEPT ![s] = [daemon[s] EXCEPT !.pc = "run", !.req = Request(s)]]
    BY <1>6 DEF Run
  <2>4. daemon' \in [Servers -> DaemonStates]
    BY <2>2, <2>3 DEF TypeOK
  <2> QED BY <1>6, <2>1, <2>4 DEF TypeOK, Run, childVars, callVars, pollVars
<1>7. ASSUME NEW s \in Servers, NEW out \in Seq(1 .. MaxLines),
             Reply(s, daemon[s].req, 0, out)
      PROVE  /\ Resting \in DaemonStates
             /\ answers' \in [All -> Pids \cup {0, None}]
             /\ polling' \in [Servers -> Pids \cup {0}]
             /\ got' \in [Servers -> [Pids -> Seq(1 .. MaxLines)]]
  <2>1. daemon[s].req \in Requests
    BY Types DEF DaemonStates
  <2>2. daemon[s].req.from = "poll" => daemon[s].req.pid \in Pids
    BY DEF RequestInv, RequestAt, Awaited
  <2> QED BY <1>7, <2>1, <2>2, ReplyType, RestingType
<1>8. ASSUME NEW s \in Servers, RunEnds(s) PROVE TypeOK'
  <2>1. <<>> \in Seq(1 .. MaxLines)
    OBVIOUS
  <2> QED BY <1>7, <1>8, <2>1 DEF TypeOK, RunEnds, childVars
<1>9. ASSUME NEW s \in Servers, NEW kind, Take(s, kind), NEW answer \in Pids \cup {0},
             Reply(s, Request(s), answer, <<>>)
      PROVE  /\ inbox' \in [Servers -> Seq(Requests)]
             /\ answers' \in [All -> Pids \cup {0, None}]
             /\ polling' \in [Servers -> Pids \cup {0}]
             /\ got' \in [Servers -> [Pids -> Seq(1 .. MaxLines)]]
  <2>1. inbox' \in [Servers -> Seq(Requests)] /\ Request(s) \in Requests
    BY <1>9, TakeType
  <2>2. Request(s).from = "poll" => Request(s).pid \in Pids
    BY <1>9, TakeType DEF RequestInv, RequestAt, Awaited
  <2>3. <<>> \in Seq(1 .. MaxLines)
    OBVIOUS
  <2> QED BY <1>9, <2>1, <2>2, <2>3, ReplyType
<1>10. ASSUME NEW s \in Servers, Launch(s) PROVE TypeOK'
  <2>1. Take(s, "launch") /\ Request(s).pid \in Pids
    BY <1>10, PidLeft DEF Launch
  <2>2. Append(launched[s], Request(s).pid) \in Seq(Pids)
    BY <2>1, AppendProperties DEF TypeOK
  <2> QED BY <1>9, <1>10, <2>1, <2>2 DEF TypeOK, Launch
<1>11. ASSUME NEW s \in Servers, LaunchCaptive(s) PROVE TypeOK'
  <2>1. Take(s, "captive") /\ Request(s).pid \in Pids
    BY <1>11, PidLeft DEF LaunchCaptive
  <2> QED BY <1>9, <1>11, <2>1 DEF TypeOK, LaunchCaptive
<1>12. ASSUME NEW s \in Servers, ReadProc(s) PROVE TypeOK'
  <2>1. /\ Request(s) \in Requests /\ inbox' \in [Servers -> Seq(Requests)]
    BY <1>12, TakeType DEF ReadProc
  <2>2. [daemon[s] EXCEPT !.pc = "read", !.req = Request(s)] \in DaemonStates
    BY <2>1, Types DEF DaemonStates
  <2>3. daemon' = [daemon EXCEPT ![s] = [daemon[s] EXCEPT !.pc = "read", !.req = Request(s)]]
    BY <1>12 DEF ReadProc
  <2>4. daemon' \in [Servers -> DaemonStates]
    BY <2>2, <2>3 DEF TypeOK
  <2> QED BY <1>12, <2>1, <2>4 DEF TypeOK, ReadProc, childVars, callVars, pollVars
<1>13. ASSUME NEW s \in Servers, daemon[s].pc \in {"read", "again"}
       PROVE  daemon[s].req.pid \in Pids /\ Queued(s, daemon[s].req.pid) \in Seq(1 .. MaxLines)
  <2>1. daemon[s].req.pid \in Pids
    BY <1>13 DEF RequestInv, RequestAt, Awaited
  <2> QED BY <2>1, QueuedType
<1>14. ASSUME NEW s \in Servers, Drain(s) PROVE TypeOK'
  <2> DEFINE p == daemon[s].req.pid
             d == [daemon[s] EXCEPT !.pc = "again", !.out = Queued(s, p)]
  <2>1. p \in Pids /\ Queued(s, p) \in Seq(1 .. MaxLines)
    BY <1>13, <1>14 DEF Drain
  <2>2. daemon' = [daemon EXCEPT ![s] = d] /\ d \in DaemonStates
    BY <1>14, <2>1 DEF TypeOK, Drain, DaemonStates
  <2>3. lines' \in [Servers -> [Pids -> LineCounts]]
    BY <1>14, <2>1, EmptiedType DEF Drain
  <2> QED BY <1>14, <2>2, <2>3 DEF TypeOK, Drain, callVars, pollVars
<1>15. ASSUME NEW s \in Servers, DrainAgain(s) PROVE TypeOK'
  <2> DEFINE p == daemon[s].req.pid
  <2>1. p \in Pids /\ Queued(s, p) \in Seq(1 .. MaxLines) /\ daemon[s] \in DaemonStates
    BY <1>13, <1>15, Types DEF DrainAgain
  <2>2. daemon[s].out \o Queued(s, p) \in Seq(1 .. MaxLines)
    BY <2>1, ConcatProperties DEF DaemonStates
  <2>3. lines' \in [Servers -> [Pids -> LineCounts]]
    BY <1>15, <2>1, EmptiedType DEF DrainAgain
  <2> QED BY <1>7, <1>15, <2>2, <2>3 DEF TypeOK, DrainAgain
<1>16. ASSUME NEW s \in Servers, JoinFails(s) PROVE TypeOK'
  <2>1. daemon[s].req.pid \in Pids /\ <<>> \in Seq(1 .. MaxLines)
    BY <1>13, <1>16 DEF JoinFails
  <2>2. lines' \in [Servers -> [Pids -> LineCounts]]
    BY <1>16, <2>1, EmptiedType DEF JoinFails
  <2> QED BY <1>7, <1>16, <2>1, <2>2 DEF TypeOK, JoinFails
<1>17. ASSUME NEW s \in Servers, Kill(s) PROVE TypeOK'
  BY <1>9, <1>17 DEF TypeOK, Kill, childVars
<1>18. ASSUME NEW s \in Servers, Quit(s) PROVE TypeOK'
  <2>1. [Resting EXCEPT !.pc = "off"] \in DaemonStates
    BY RestingType
  <2> QED BY <1>18, <2>1, TakeType DEF TypeOK, Quit, childVars, callVars, pollVars
<1>19. ASSUME NEW kind \in Kinds, NEW servers \in SUBSET All, Send(kind, servers) PROVE TypeOK'
  <2>1. PidOf(kind, calls + 1) \in Pids \cup {0}
    BY <1>19, CncAssumption DEF TypeOK, Send, PidOf, Pids
  <2>2. \A s \in Servers :
          Append(inbox[s], [kind |-> kind, from |-> "call", pid |-> PidOf(kind, calls + 1)])
             \in Seq(Requests)
    BY <2>1, AppendProperties DEF TypeOK, Requests
  <2>3. inbox' \in [Servers -> Seq(Requests)]
    BY <1>19, <2>2 DEF TypeOK, Send
  <2>4. call' \in Calls /\ calls' \in 0 .. MaxCalls
    BY <1>19, CncAssumption DEF TypeOK, Send, Calls
  <2> QED BY <1>19, <2>3, <2>4 DEF TypeOK, Send, NoAnswer, childVars, pollVars
<1>20. CASE Tick
  <2>1. [call EXCEPT !.spent = call.spent + 1] \in Calls
    <3>1. call \in Calls
      BY DEF TypeOK
    <3>2. call.spent + 1 \in 0 .. Timeout + 1
      BY <1>20, <3>1, CncAssumption DEF Tick, Calls
    <3> QED BY <3>1, <3>2 DEF Calls
  <2> QED BY <1>20, <2>1 DEF TypeOK, Tick, daemonVars, childVars, pollVars
<1>21. CASE ReadReplies
  BY <1>21 DEF TypeOK, ReadReplies, Arrived, Calls, daemonVars, childVars, pollVars
<1>22. CASE PollAgain
  <2>1. Rest \in -1 .. Timeout
    BY CncAssumption DEF TypeOK, Rest, Calls
  <2>2. [call EXCEPT !.pc = "poll", !.left = Rest, !.spent = 0] \in Calls
    <3>1. call \in Calls /\ 0 \in 0 .. Timeout + 1
      BY CncAssumption DEF TypeOK
    <3> QED BY <2>1, <3>1 DEF Calls
  <2> QED BY <1>22, <2>2 DEF TypeOK, PollAgain, daemonVars, childVars, pollVars
<1>23. CASE Return
  <2>1. daemon' \in [Servers -> DaemonStates] /\ inbox' \in [Servers -> Seq(Requests)]
    BY <1>23, AbandonedType DEF Return
  <2>2. call' \in Calls /\ answers' \in [All -> Pids \cup {0, None}]
    BY <1>23, CncAssumption DEF Return, NoCall, Calls, NoAnswer
  <2> QED BY <1>23, <2>1, <2>2 DEF TypeOK, Return, childVars, pollVars
<1>24. ASSUME NEW s \in Servers, NEW p \in Pids, Poll(s, p) PROVE TypeOK'
  <2>1. Append(inbox[s], [kind |-> "read", from |-> "poll", pid |-> p]) \in Seq(Requests)
    BY AppendProperties DEF TypeOK, Requests
  <2>2. polls' \in 0 .. MaxPolls
    BY <1>24, CncAssumption DEF Poll, TypeOK
  <2> QED BY <1>24, <2>1, <2>2 DEF TypeOK, Poll, childVars, callVars
<1>25. ASSUME NEW s \in Servers, PollExpires(s) PROVE TypeOK'
  BY <1>25, AbandonedType DEF TypeOK, PollExpires, childVars, callVars
<1>26. ASSUME NEW s \in Others, OtherAnswers(s) PROVE TypeOK'
  BY <1>26 DEF TypeOK, OtherAnswers, daemonVars, childVars, pollVars
<1>27. CASE UNCHANGED vars
  BY <1>27 DEF TypeOK, vars, daemonVars, childVars, callVars, pollVars
<1> QED
  BY <1>1, <1>2, <1>3, <1>4, <1>5, <1>6, <1>8, <1>10, <1>11, <1>12, <1>14, <1>15,
     <1>16, <1>17, <1>18, <1>19, <1>20, <1>21, <1>22, <1>23, <1>24, <1>25, <1>26, <1>27
     DEF Next, DaemonStep, ClientStep

-----------------------------------------------------------------------------
(* The list of children.                                                   *)

\* A step of a daemon leaves the other daemons alone.
LEMMA Rewritten ==
    ASSUME TypeOK, NEW t \in Servers, DaemonStep(t) \/ RunEnds(t)
    PROVE  \E d : daemon' = [daemon EXCEPT ![t] = d]
<1>0. daemon = [daemon EXCEPT ![t] = daemon[t]]
  BY DEF TypeOK
<1>1. CASE Reap(t) \/ RunEnds(t) \/ DrainAgain(t) \/ JoinFails(t) \/ Quit(t)
  BY <1>1 DEF Reap, RunEnds, DrainAgain, JoinFails, Quit
<1>2. CASE PollTimesOut(t)
  BY <1>2 DEF PollTimesOut
<1>3. CASE Run(t)
  BY <1>3 DEF Run
<1>4. CASE ReadProc(t)
  BY <1>4 DEF ReadProc
<1>5. CASE Drain(t)
  BY <1>5 DEF Drain
<1>6. CASE daemon' = daemon
  BY <1>0, <1>6
<1> QED BY <1>1, <1>2, <1>3, <1>4, <1>5, <1>6
     DEF DaemonStep, Launch, LaunchCaptive, Kill

LEMMA ReapShortens ==
    ASSUME TypeOK, NEW s \in Servers, AtChild(s), daemon[s].i >= 1
    PROVE  /\ RemoveAt(launched[s], daemon[s].i) \in Seq(Pids)
           /\ Len(RemoveAt(launched[s], daemon[s].i)) = Len(launched[s]) - 1
           /\ \A k \in 1 .. Len(launched[s]) : k # daemon[s].i =>
                \E j \in 1 .. Len(launched[s]) - 1 :
                    RemoveAt(launched[s], daemon[s].i)[j] = launched[s][k]
<1> DEFINE q == launched[s]
           i == daemon[s].i
           a == SubSeq(q, 1, i - 1)
           b == SubSeq(q, i + 1, Len(q))
<1>1. q \in Seq(Pids) /\ Len(q) \in Nat /\ i \in Nat /\ i >= 1 /\ i <= Len(q)
  BY Types DEF AtChild, DaemonStates
<1>2. \A k \in 1 .. Len(q) : q[k] \in Pids
  BY <1>1, ElementOfSeq
<1> HIDE DEF q, i
<1>3. /\ a \in Seq(Pids) /\ Len(a) = i - 1 /\ \A k \in 1 .. i - 1 : a[k] = q[k]
  BY <1>1, <1>2, SubSeqProperties
<1>4. /\ b \in Seq(Pids) /\ Len(b) = Len(q) - i
      /\ \A k \in 1 .. Len(q) - i : b[k] = q[i + k]
  BY <1>1, <1>2, SubSeqProperties
<1> HIDE DEF a, b
<1>5. /\ a \o b \in Seq(Pids) /\ Len(a \o b) = Len(q) - 1
      /\ \A k \in 1 .. Len(q) - 1 : (a \o b)[k] = IF k <= i - 1 THEN a[k] ELSE b[k - (i - 1)]
  <2>1. /\ a \o b \in Seq(Pids) /\ Len(a \o b) = Len(a) + Len(b)
        /\ \A k \in 1 .. Len(a) + Len(b) :
              (a \o b)[k] = IF k <= Len(a) THEN a[k] ELSE b[k - Len(a)]
    BY <1>3, <1>4, ConcatProperties
  <2>2. Len(a) + Len(b) = Len(q) - 1
    BY <1>1, <1>3, <1>4
  <2> QED BY <1>3, <2>1, <2>2
<1>6. ASSUME NEW k \in 1 .. Len(q), k # i
      PROVE  \E j \in 1 .. Len(q) - 1 : (a \o b)[j] = q[k]
  <2>1. CASE k < i
    <3>1. k \in 1 .. Len(q) - 1 /\ k \in 1 .. i - 1
      BY <1>1, <2>1
    <3> QED BY <1>1, <1>3, <1>5, <3>1
  <2>2. CASE k > i
    <3>1. /\ k - 1 \in 1 .. Len(q) - 1 /\ ~(k - 1 <= i - 1)
          /\ (k - 1) - (i - 1) \in 1 .. Len(q) - i /\ i + ((k - 1) - (i - 1)) = k
      BY <1>1, <2>2
    <3> QED BY <1>4, <1>5, <3>1
  <2>3. k < i \/ k > i
    BY <1>1, <1>6
  <2> QED BY <2>1, <2>2, <2>3
<1> QED BY <1>5, <1>6 DEF RemoveAt, a, b, q, i

LEMMA ReapStep ==
    ASSUME TypeOK, ReapInv, [Next]_vars
    PROVE  ReapInv'
<1> SUFFICES ASSUME NEW s \in Servers, daemon'[s].pc = "reap" PROVE daemon'[s].i >= 1
  BY DEF ReapInv
<1>1. daemon[s] \in DaemonStates /\ daemon[s].i \in Nat
  BY Types DEF DaemonStates
<1>2. CASE daemon'[s] = daemon[s]
  BY <1>2 DEF ReapInv
<1>3. ASSUME NEW from, daemon'[s] = [daemon[s] EXCEPT !.req = Abandoned(daemon[s].req, from)]
      PROVE  daemon'[s].i >= 1
  BY <1>1, <1>3 DEF ReapInv, DaemonStates
<1>4. CASE Return
  BY <1>3, <1>4 DEF Return
<1>5. ASSUME NEW t \in Servers, PollExpires(t) PROVE daemon'[s].i >= 1
  <2>1. \/ daemon'[s] = daemon[s]
        \/ daemon'[s] = [daemon[s] EXCEPT !.req = Abandoned(daemon[s].req, "poll")]
    BY <1>5 DEF PollExpires, TypeOK
  <2> QED BY <1>2, <1>3, <2>1
<1>6. ASSUME NEW t \in Servers, t # s, DaemonStep(t) \/ RunEnds(t) PROVE daemon'[s] = daemon[s]
  <2>1. \E d : daemon' = [daemon EXCEPT ![t] = d]
    BY <1>6, Rewritten
  <2> QED BY <1>6, <2>1 DEF TypeOK
<1>7. CASE PollTimesOut(s)
  BY <1>1, <1>7 DEF PollTimesOut, TypeOK, DaemonStates
<1>8. CASE Reap(s)
  <2>1. CASE AtChild(s)
    <3>1. daemon'[s] = [daemon[s] EXCEPT !.i = daemon[s].i + 1]
      BY <1>8, <2>1 DEF Reap, TypeOK
    <3>2. daemon'[s].i = daemon[s].i + 1
      BY <1>1, <3>1 DEF DaemonStates
    <3> QED BY <1>1, <3>2
  <2>2. CASE ~AtChild(s)
    BY <1>8, <2>2 DEF Reap, Resting, TypeOK
  <2> QED BY <2>1, <2>2
<1>9. CASE Run(s) \/ ReadProc(s) \/ Drain(s)
  <2>1. \E x \in {"run", "read", "again"} : \E r, q :
          daemon'[s] = [daemon[s] EXCEPT !.pc = x, !.req = r, !.out = q]
    <3>1. daemon[s] = [daemon[s] EXCEPT !.out = daemon[s].out]
      BY <1>1 DEF DaemonStates
    <3>2. Run(s) => daemon'[s] = [daemon[s] EXCEPT !.pc = "run", !.req = Request(s),
                                                   !.out = daemon[s].out]
      BY <1>1 DEF Run, TypeOK, DaemonStates
    <3>3. ReadProc(s) => daemon'[s] = [daemon[s] EXCEPT !.pc = "read", !.req = Request(s),
                                                        !.out = daemon[s].out]
      BY <1>1 DEF ReadProc, TypeOK, DaemonStates
    <3>4. Drain(s) => daemon'[s] = [daemon[s] EXCEPT !.pc = "again", !.req = daemon[s].req,
                                      !.out = Queued(s, daemon[s].req.pid)]
      BY <1>1 DEF Drain, TypeOK, DaemonStates
    <3> QED BY <1>9, <3>2, <3>3, <3>4
  <2>2. daemon'[s].pc # "reap"
    BY <1>1, <2>1 DEF DaemonStates
  <2> QED BY <2>2
<1>10. CASE RunEnds(s) \/ DrainAgain(s) \/ JoinFails(s) \/ Quit(s)
  <2>1. daemon'[s] = Resting \/ daemon'[s] = [Resting EXCEPT !.pc = "off"]
    BY <1>10 DEF RunEnds, DrainAgain, JoinFails, Quit, TypeOK
  <2> QED BY <2>1 DEF Resting
<1>11. CASE daemon' = daemon
  BY <1>2, <1>11
<1>12. ASSUME NEW t \in Servers, DaemonStep(t) \/ RunEnds(t) PROVE daemon'[s].i >= 1
  <2>1. CASE t # s
    BY <1>2, <1>6, <1>12, <2>1
  <2>2. CASE t = s
    BY <1>7, <1>8, <1>9, <1>10, <1>11, <1>12, <2>2
       DEF DaemonStep, Launch, LaunchCaptive, Kill
  <2> QED BY <2>1, <2>2
<1> QED
  BY <1>4, <1>5, <1>11, <1>12 DEF Next, ClientStep, PrintLine, ChildExits, Enqueue, Tick,
     ReadReplies, PollAgain, Send, Poll, OtherAnswers,
     daemonVars, childVars, callVars, vars

-----------------------------------------------------------------------------
(* Requests and who waits for their replies.                               *)

\* A daemon that does something leaves the others alone, and the call.
LEMMA Elsewhere ==
    ASSUME TypeOK, NEW t \in Servers, DaemonStep(t) \/ RunEnds(t), NEW s \in Servers, s # t
    PROVE  /\ daemon'[s] = daemon[s] /\ inbox'[s] = inbox[s]
           /\ polling'[s] = polling[s] /\ got'[s] = got[s]
           /\ answers'[s] = answers[s] /\ lines'[s] = lines[s]
<1>1. daemon'[s] = daemon[s]
  <2>1. \E d : daemon' = [daemon EXCEPT ![t] = d]
    BY Rewritten
  <2> QED BY <2>1 DEF TypeOK
<1>2. inbox'[s] = inbox[s]
  BY DEF TypeOK, DaemonStep, PollTimesOut, Reap, Run, RunEnds, Launch, LaunchCaptive,
     ReadProc, Drain, DrainAgain, JoinFails, Kill, Quit, Take
<1>3. polling'[s] = polling[s] /\ got'[s] = got[s] /\ answers'[s] = answers[s]
  <2>1. ASSUME NEW req, NEW a, NEW out, Reply(t, req, a, out)
        PROVE  polling'[s] = polling[s] /\ got'[s] = got[s] /\ answers'[s] = answers[s]
    BY <2>1 DEF Reply, TypeOK, All
  <2>2. CASE \/ RunEnds(t) \/ Launch(t) \/ LaunchCaptive(t) \/ DrainAgain(t)
             \/ JoinFails(t) \/ Kill(t)
    BY <2>1, <2>2 DEF RunEnds, Launch, LaunchCaptive, DrainAgain, JoinFails, Kill
  <2> QED BY <2>2 DEF DaemonStep, PollTimesOut, Reap, Run, ReadProc, Drain, Quit, callVars,
                      pollVars
<1>4. lines'[s] = lines[s]
  BY DEF TypeOK, DaemonStep, PollTimesOut, Reap, Run, RunEnds, Launch, LaunchCaptive,
     ReadProc, Drain, DrainAgain, JoinFails, Kill, Quit, childVars
<1> QED BY <1>1, <1>2, <1>3, <1>4

LEMMA DaemonKeepsCall ==
    ASSUME NEW t \in Servers, DaemonStep(t) \/ RunEnds(t)
    PROVE  call' = call /\ calls' = calls /\ results' = results
  BY DEF DaemonStep, PollTimesOut, Reap, Run, RunEnds, Launch, LaunchCaptive,
     ReadProc, Drain, DrainAgain, JoinFails, Kill, Quit, callVars

\* Nothing has happened at this server to the requests.
LEMMA RequestKept ==
    ASSUME NEW s \in Servers, RequestAt(s), inbox'[s] = inbox[s],
           daemon'[s].req = daemon[s].req,
           \/ daemon'[s].pc = daemon[s].pc
           \/ daemon[s].pc = "read" /\ daemon'[s].pc = "again"
           \/ daemon[s].pc = "poll" /\ daemon'[s].pc = "reap"
           \/ daemon[s].pc = "reap" /\ daemon'[s].pc = "poll",
           polling'[s] = polling[s],
           answers'[s] = answers[s], call'.kind = call.kind,
           call'.pending = call.pending, calls' = calls
    PROVE  RequestAt(s)'
<1>1. \A r : Awaited(s, r) => Awaited(s, r)'
  BY DEF Awaited
<1>2. \A k \in DOMAIN inbox[s] : Awaited(s, inbox[s][k])'
  BY <1>1 DEF RequestAt, Awaited
<1>3. Awaited(s, daemon[s].req)'
  BY <1>1 DEF RequestAt, Awaited
<1> QED BY <1>2, <1>3 DEF RequestAt

\* What is left in the inbox after a request has been taken.
LEMMA AfterTake ==
    ASSUME TypeOK, RequestInv, NEW s \in Servers, NEW kind, Take(s, kind)
    PROVE  /\ Awaited(s, Request(s)) /\ daemon[s].req = NoRequest
           /\ \A k \in DOMAIN inbox'[s] : Awaited(s, inbox'[s][k])
           /\ Request(s).from # "nobody" =>
                \A k \in DOMAIN inbox'[s] : inbox'[s][k].from # Request(s).from
           /\ \A j, k \in DOMAIN inbox'[s] :
                inbox'[s][j].from = inbox'[s][k].from /\ inbox'[s][k].from # "nobody"
                  => j = k
<1> DEFINE q == inbox[s]
<1>1. q \in Seq(Requests) /\ q # <<>> /\ inbox'[s] = Tail(q) /\ Request(s) = q[1]
  BY TakeType, Types DEF Taken, TypeOK
<1>2. /\ Len(q) \in Nat /\ Len(q) >= 1
      /\ DOMAIN inbox'[s] = 1 .. Len(q) - 1 /\ DOMAIN q = 1 .. Len(q)
      /\ \A k \in 1 .. Len(q) - 1 : inbox'[s][k] = q[k + 1]
  BY <1>1, HeadTailProperties, EmptySeq, LenProperties
<1>3. RequestAt(s)
  BY DEF RequestInv
<1>4. \A k \in 1 .. Len(q) - 1 : k + 1 \in DOMAIN q /\ k + 1 # 1
  BY <1>2
<1>5. 1 \in DOMAIN q
  BY <1>2
<1>6. daemon[s].req = NoRequest
  BY <1>3 DEF RequestAt, Take
<1>7. Awaited(s, q[1]) /\ \A k \in DOMAIN inbox'[s] : Awaited(s, inbox'[s][k])
  <2>1. \A k \in DOMAIN q : Awaited(s, q[k])
    BY <1>3 DEF RequestAt
  <2> QED BY <1>2, <1>4, <1>5, <2>1
<1>8. q[1].from # "nobody" => \A k \in DOMAIN inbox'[s] : inbox'[s][k].from # q[1].from
  <2>1. \A j, k \in DOMAIN q : q[j].from = q[k].from /\ q[k].from # "nobody" => j = k
    BY <1>3 DEF RequestAt
  <2> SUFFICES ASSUME q[1].from # "nobody", NEW k \in DOMAIN inbox'[s],
                      inbox'[s][k].from = q[1].from
               PROVE  FALSE
    OBVIOUS
  <2>2. q[k + 1].from = q[1].from /\ k + 1 \in DOMAIN q /\ k + 1 # 1
    BY <1>2, <1>4
  <2> QED BY <1>5, <2>1, <2>2
<1>9. ASSUME NEW j \in DOMAIN inbox'[s], NEW k \in DOMAIN inbox'[s],
             inbox'[s][j].from = inbox'[s][k].from, inbox'[s][k].from # "nobody"
      PROVE  j = k
  <2>1. q[j + 1].from = q[k + 1].from /\ q[k + 1].from # "nobody"
    BY <1>2, <1>9
  <2>2. j + 1 = k + 1
    BY <1>2, <1>3, <1>4, <2>1 DEF RequestAt
  <2> QED BY <1>2, <2>2
<1> QED BY <1>1, <1>6, <1>7, <1>8, <1>9

\* The request in hand is the one taken, and nothing else has changed.
LEMMA RequestInHand ==
    ASSUME TypeOK, RequestInv, NEW s \in Servers, NEW kind, Take(s, kind),
           daemon'[s].req = Request(s),
           \/ daemon'[s].pc = "run" /\ kind = "run"
           \/ daemon'[s].pc = "read" /\ kind = "read",
           polling' = polling, answers' = answers, call' = call, calls' = calls
    PROVE  RequestAt(s)'
<1>1. /\ Awaited(s, Request(s)) /\ Request(s).kind = kind
      /\ \A k \in DOMAIN inbox'[s] : Awaited(s, inbox'[s][k])
      /\ Request(s).from # "nobody" =>
           \A k \in DOMAIN inbox'[s] : inbox'[s][k].from # Request(s).from
      /\ \A j, k \in DOMAIN inbox'[s] :
            inbox'[s][j].from = inbox'[s][k].from /\ inbox'[s][k].from # "nobody" => j = k
  BY AfterTake, TakeType
<1>2. \A r : Awaited(s, r)' <=> Awaited(s, r)
  BY DEF Awaited
<1>3. Awaited(s, daemon[s].req)' /\ \A k \in DOMAIN inbox'[s] : Awaited(s, inbox[s][k])'
  BY <1>1, <1>2 DEF Awaited
<1> QED BY <1>1, <1>3 DEF RequestAt

\* The request that was taken or in hand has been replied to.
LEMMA RequestReplied ==
    ASSUME NEW s \in Servers, NEW req, NEW answer, NEW out,
           TypeOK, Reply(s, req, answer, out), call' = call, calls' = calls,
           daemon'[s].req = NoRequest, daemon'[s].pc \in {"poll", "off"},
           \A k \in DOMAIN inbox'[s] : Awaited(s, inbox'[s][k]),
           req.from # "nobody" => \A k \in DOMAIN inbox'[s] : inbox'[s][k].from # req.from,
           \A j, k \in DOMAIN inbox'[s] :
              inbox'[s][j].from = inbox'[s][k].from /\ inbox'[s][k].from # "nobody" => j = k
    PROVE  RequestAt(s)'
<1>1. /\ req.from # "poll" => polling'[s] = polling[s]
      /\ req.from # "call" => answers'[s] = answers[s]
  BY DEF Reply
<1>2. ASSUME NEW k \in DOMAIN inbox'[s] PROVE Awaited(s, inbox[s][k])'
  <2>1. Awaited(s, inbox'[s][k])
    OBVIOUS
  <2>2. inbox'[s][k].from # "nobody" => inbox'[s][k].from # req.from
    OBVIOUS
  <2> QED BY <1>1, <2>1, <2>2 DEF Awaited
<1>3. Awaited(s, daemon[s].req)'
  BY DEF Awaited, NoRequest, Launching
<1>4. \A k \in DOMAIN inbox'[s] :
        inbox'[s][k].from # "nobody" => inbox'[s][k].from # daemon'[s].req.from
  BY DEF NoRequest
<1> QED BY <1>2, <1>3, <1>4 DEF RequestAt, NoRequest

\* Requests whose socket has been closed, in the inbox and in hand.
LEMMA Forgotten ==
    ASSUME TypeOK, NEW s \in Servers, RequestAt(s), NEW from \in {"call", "poll"},
           inbox'[s] = [k \in DOMAIN inbox[s] |-> Abandoned(inbox[s][k], from)],
           daemon'[s] = [daemon[s] EXCEPT !.req = Abandoned(daemon[s].req, from)],
           from # "call" => /\ call' = call /\ calls' = calls /\ answers' = answers,
           from # "poll" => polling' = polling
    PROVE  RequestAt(s)'
<1>0. /\ \A k \in DOMAIN inbox[s] : inbox[s][k] \in Requests
      /\ daemon[s] \in DaemonStates /\ daemon[s].req \in Requests
  BY Types, ElementOfSeq, LenProperties DEF DaemonStates
<1>1. \A r \in Requests :
        /\ Abandoned(r, from).kind = r.kind /\ Abandoned(r, from).pid = r.pid
        /\ Abandoned(r, from).from # from
        /\ Abandoned(r, from).from \in {r.from, "nobody"}
        /\ r = NoRequest => Abandoned(r, from) = NoRequest
  BY DEF Abandoned, Requests, NoRequest
<1>2. /\ daemon'[s].pc = daemon[s].pc
      /\ daemon'[s].req = Abandoned(daemon[s].req, from)
  BY <1>0 DEF DaemonStates
<1>3. /\ DOMAIN inbox'[s] = DOMAIN inbox[s]
      /\ \A k \in DOMAIN inbox[s] : inbox'[s][k] = Abandoned(inbox[s][k], from)
  OBVIOUS
<1>4. ASSUME NEW r \in Requests, NEW q, q = Abandoned(r, from), Awaited(s, r)
      PROVE  Awaited(s, q)'
  BY <1>1, <1>4 DEF Awaited
<1>5. \A k \in DOMAIN inbox'[s] : Awaited(s, inbox[s][k])'
  <2> SUFFICES ASSUME NEW k \in DOMAIN inbox'[s] PROVE Awaited(s, inbox[s][k])'
    OBVIOUS
  <2>1. Awaited(s, inbox[s][k]) /\ inbox[s][k] \in Requests
    BY <1>0, <1>3 DEF RequestAt
  <2>2. \E q : q = inbox'[s][k] /\ Awaited(s, q)'
    BY <1>3, <1>4, <2>1
  <2> QED BY <2>2 DEF Awaited
<1>6. Awaited(s, daemon[s].req)'
  <2>1. \E q : q = daemon'[s].req /\ Awaited(s, q)'
    BY <1>0, <1>2, <1>4 DEF RequestAt
  <2> QED BY <2>1 DEF Awaited
<1>7. \A k \in DOMAIN inbox'[s] :
        /\ inbox'[s][k].from # "nobody" => inbox'[s][k].from # daemon'[s].req.from
        /\ \A j \in DOMAIN inbox'[s] :
             inbox'[s][j].from = inbox'[s][k].from /\ inbox'[s][k].from # "nobody" => j = k
  <2>1. /\ \A k \in DOMAIN inbox[s] : inbox'[s][k].from \in {inbox[s][k].from, "nobody"}
        /\ daemon'[s].req.from \in {daemon[s].req.from, "nobody"}
    BY <1>0, <1>1, <1>2, <1>3
  <2>2. \A k \in DOMAIN inbox[s] :
          /\ inbox[s][k].from # "nobody" => inbox[s][k].from # daemon[s].req.from
          /\ \A j \in DOMAIN inbox[s] :
               inbox[s][j].from = inbox[s][k].from /\ inbox[s][k].from # "nobody" => j = k
    BY DEF RequestAt
  <2> QED BY <1>3, <2>1, <2>2
<1>8. /\ daemon'[s].pc \in {"poll", "reap", "off"} => daemon'[s].req = NoRequest
      /\ daemon'[s].pc = "run" => daemon'[s].req.kind = "run"
      /\ daemon'[s].pc \in {"read", "again"} => daemon'[s].req.kind = "read"
  BY <1>0, <1>1, <1>2 DEF RequestAt
<1> QED BY <1>5, <1>6, <1>7, <1>8 DEF RequestAt

\* A request joins those that nobody has asked for in the same way.
LEMMA RequestAdded ==
    ASSUME TypeOK, NEW s \in Servers, NEW r \in Requests,
           inbox'[s] = Append(inbox[s], r), daemon' = daemon,
           RequestAt(s),
           Awaited(s, r)', r.from # "nobody",
           \A x : Awaited(s, x) => Awaited(s, x)' /\ x.from # r.from
    PROVE  RequestAt(s)'
<1> DEFINE q == inbox[s]
<1>1. /\ Len(q) \in Nat /\ DOMAIN q = 1 .. Len(q) /\ DOMAIN inbox'[s] = 1 .. Len(q) + 1
      /\ \A k \in 1 .. Len(q) : inbox'[s][k] = q[k]
      /\ inbox'[s][Len(q) + 1] = r
  BY Types, LenProperties, AppendProperties
<1>2. \A k \in 1 .. Len(q) + 1 : k \in 1 .. Len(q) \/ k = Len(q) + 1
  BY <1>1
<1>3. /\ \A k \in DOMAIN q : q[k].from # "nobody" => q[k].from # daemon[s].req.from
      /\ \A j, k \in DOMAIN q : q[j].from = q[k].from /\ q[k].from # "nobody" => j = k
  BY DEF RequestAt
<1>4. /\ \A k \in DOMAIN q : Awaited(s, q[k]) /\ q[k].from # r.from
      /\ Awaited(s, daemon[s].req) /\ daemon[s].req.from # r.from
  BY DEF RequestAt
<1>5. \A k \in DOMAIN inbox'[s] :
        /\ Awaited(s, inbox[s][k])'
        /\ inbox'[s][k].from # "nobody" => inbox'[s][k].from # daemon'[s].req.from
  <2> SUFFICES ASSUME NEW k \in DOMAIN inbox'[s]
               PROVE  /\ Awaited(s, inbox[s][k])'
                      /\ inbox'[s][k].from # "nobody"
                           => inbox'[s][k].from # daemon'[s].req.from
    OBVIOUS
  <2>1. CASE k \in DOMAIN q
    <3>1. inbox'[s][k] = q[k]
      BY <1>1, <2>1
    <3>2. \E x : x = q[k] /\ Awaited(s, x)'
      BY <1>4, <2>1
    <3> QED BY <1>3, <2>1, <3>1, <3>2 DEF Awaited
  <2>2. CASE inbox'[s][k] = r
    BY <1>4, <2>2 DEF Awaited
  <2> QED BY <1>1, <1>2, <2>1, <2>2
<1>6. \A j, k \in DOMAIN inbox'[s] :
        inbox'[s][j].from = inbox'[s][k].from /\ inbox'[s][k].from # "nobody" => j = k
  BY <1>1, <1>2, <1>3, <1>4
<1>7. Awaited(s, daemon[s].req)'
  <2>1. \E x : x = daemon[s].req /\ Awaited(s, x)'
    BY <1>4
  <2> QED BY <2>1 DEF Awaited
<1> QED BY <1>5, <1>6, <1>7 DEF RequestAt

LEMMA RequestStep ==
    ASSUME TypeOK, RequestInv, CallInv, [Next]_vars
    PROVE  RequestInv'
<1> SUFFICES ASSUME NEW s \in Servers PROVE RequestAt(s)'
  BY DEF RequestInv
<1>0. /\ RequestAt(s) /\ Awaited(s, daemon[s].req)
      /\ \A k \in DOMAIN inbox[s] : Awaited(s, inbox[s][k])
      /\ daemon[s] \in DaemonStates
  BY Types DEF RequestInv, RequestAt
<1>1. ASSUME NEW t \in Servers, DaemonStep(t) \/ RunEnds(t), t # s PROVE RequestAt(s)'
  BY <1>0, <1>1, Elsewhere, DaemonKeepsCall, RequestKept
<1>2. CASE PollTimesOut(s)
  <2>1. daemon'[s] = [daemon[s] EXCEPT !.pc = "reap", !.i = 1]
    BY <1>2 DEF PollTimesOut, TypeOK
  <2>2. daemon'[s].req = daemon[s].req /\ daemon[s].pc = "poll" /\ daemon'[s].pc = "reap"
    BY <1>0, <1>2, <2>1 DEF DaemonStates, PollTimesOut
  <2> QED BY <1>0, <1>2, <2>2, RequestKept DEF PollTimesOut, callVars, pollVars
<1>3. CASE Reap(s)
  <2>1. daemon[s].pc = "reap" /\ daemon[s].req = NoRequest
    BY <1>0, <1>3 DEF Reap, RequestAt
  <2>2. daemon'[s] = [daemon[s] EXCEPT !.i = daemon[s].i + 1] \/ daemon'[s] = Resting
    BY <1>3 DEF Reap, TypeOK
  <2>3. daemon'[s].req = daemon[s].req /\ daemon'[s].pc \in {"reap", "poll"}
    BY <1>0, <2>1, <2>2 DEF Resting, DaemonStates
  <2> QED BY <1>0, <1>3, <2>1, <2>3, RequestKept DEF Reap, callVars, pollVars
<1>4. CASE Run(s)
  <2>1. daemon'[s] = [daemon[s] EXCEPT !.pc = "run", !.req = Request(s)]
    BY <1>4 DEF Run, TypeOK
  <2>2. daemon'[s].req = Request(s) /\ daemon'[s].pc = "run"
    BY <1>0, <2>1 DEF DaemonStates
  <2> QED BY <1>4, <2>2, RequestInHand DEF Run, callVars, pollVars
<1>5. CASE ReadProc(s)
  <2>1. daemon'[s] = [daemon[s] EXCEPT !.pc = "read", !.req = Request(s)]
    BY <1>5 DEF ReadProc, TypeOK
  <2>2. daemon'[s].req = Request(s) /\ daemon'[s].pc = "read"
    BY <1>0, <2>1 DEF DaemonStates
  <2> QED BY <1>5, <2>2, RequestInHand DEF ReadProc, callVars, pollVars
<1>6. ASSUME NEW out, RunEnds(s) \/ DrainAgain(s) \/ JoinFails(s),
             Reply(s, daemon[s].req, 0, out)
      PROVE  RequestAt(s)'
  <2>1. daemon'[s] = Resting /\ inbox' = inbox /\ call' = call /\ calls' = calls
    BY <1>6 DEF RunEnds, DrainAgain, JoinFails, TypeOK
  <2>2. daemon'[s].req = NoRequest /\ daemon'[s].pc = "poll"
    BY <2>1 DEF Resting
  <2> QED BY <1>0, <1>6, <2>1, <2>2, RequestReplied DEF RequestAt
<1>7. ASSUME NEW kind, Take(s, kind), NEW answer, Reply(s, Request(s), answer, <<>>),
             daemon' = daemon, call' = call, calls' = calls
      PROVE  RequestAt(s)'
  <2>1. daemon'[s].req = NoRequest /\ daemon'[s].pc = "poll"
    BY <1>7, AfterTake DEF Take
  <2> QED BY <1>7, <2>1, AfterTake, RequestReplied
<1>8. CASE Quit(s)
  <2>1. Take(s, "quit") /\ daemon'[s] = [Resting EXCEPT !.pc = "off"]
    BY <1>8 DEF Quit, TypeOK
  <2>2. daemon'[s].req = NoRequest /\ daemon'[s].pc = "off"
    BY <2>1 DEF Resting
  <2>3. Reply(s, NoRequest, 0, <<>>) /\ NoRequest.from = "nobody" /\ call' = call /\ calls' = calls
    BY <1>8 DEF Reply, NoRequest, Quit, callVars, pollVars
  <2> QED BY <2>1, <2>2, <2>3, AfterTake, RequestReplied
<1>9. CASE Drain(s)
  <2>1. daemon'[s] = [daemon[s] EXCEPT !.pc = "again", !.out = Queued(s, daemon[s].req.pid)]
    BY <1>9 DEF Drain, TypeOK
  <2>2. daemon'[s].req = daemon[s].req /\ daemon[s].pc = "read" /\ daemon'[s].pc = "again"
    BY <1>0, <1>9, <2>1 DEF DaemonStates, Drain
  <2> QED BY <1>0, <1>9, <2>2, RequestKept DEF Drain, callVars, pollVars
<1>10. ASSUME NEW kind \in Kinds, NEW servers \in SUBSET All, Send(kind, servers)
       PROVE  RequestAt(s)'
  <2>1. /\ call = NoCall /\ daemon' = daemon /\ polling' = polling /\ answers' = answers
        /\ call'.kind = kind /\ call'.pending = servers /\ calls' = calls + 1
    BY <1>10 DEF Send, pollVars
  <2>2. \A r : Awaited(s, r) => r.from # "call" /\ Awaited(s, r)'
    BY <2>1 DEF Awaited, NoCall
  <2>3. CASE s \in servers
    <3>1. PICK r : r = [kind |-> kind, from |-> "call", pid |-> PidOf(kind, calls + 1)]
      OBVIOUS
    <3>2. /\ PidOf(kind, calls + 1) \in Pids \cup {0}
          /\ kind \in Launching => r.pid \in Pids
      <4>1. calls + 1 \in Pids
        BY <1>10, CncAssumption DEF TypeOK, Send, Pids
      <4> QED BY <3>1, <4>1 DEF PidOf
    <3>3. r \in Requests /\ inbox'[s] = Append(inbox[s], r)
      BY <1>0, <1>10, <2>3, <3>1, <3>2 DEF Send, Requests
    <3>4. Awaited(s, r)'
      <4>1. answers[s] = None
        BY <2>1 DEF CallInv, NoCall, All
      <4>2. kind # "read"
        BY CncAssumption
      <4>3. r.pid = PidOf(call.kind, calls)'
        BY <2>1, <3>1 DEF PidOf
      <4>4. r.kind = kind /\ r.from = "call" /\ answers'[s] = None /\ s \in call'.pending
        BY <2>1, <2>3, <3>1, <4>1
      <4> QED BY <2>1, <3>2, <4>2, <4>3, <4>4 DEF Awaited
    <3> QED BY <1>0, <2>1, <2>2, <3>1, <3>3, <3>4, RequestAdded
  <2>4. CASE s \notin servers
    <3>1. inbox'[s] = inbox[s]
      BY <1>10, <2>4 DEF Send
    <3>2. /\ \A k \in DOMAIN inbox[s] : inbox[s][k].from # "call"
          /\ daemon[s].req.from # "call"
      BY <1>0, <2>2
    <3> QED BY <1>0, <2>1, <3>1, <3>2 DEF RequestAt, Awaited
  <2> QED BY <2>3, <2>4
<1>11. ASSUME NEW t \in Servers, NEW p \in Pids, Poll(t, p) PROVE RequestAt(s)'
  <2>1. daemon' = daemon /\ answers' = answers /\ call' = call /\ calls' = calls
    BY <1>11 DEF Poll, callVars
  <2>2. CASE t = s
    <3>1. PICK r : r = [kind |-> "read", from |-> "poll", pid |-> p]
      OBVIOUS
    <3>2. /\ r \in Requests /\ inbox'[s] = Append(inbox[s], r)
          /\ polling'[s] = p /\ polling[s] = 0
      BY <1>11, <2>2, <3>1 DEF Poll, Requests, TypeOK
    <3>3. Awaited(s, r)'
      BY <3>1, <3>2 DEF Awaited
    <3>4. \A x : Awaited(s, x) => Awaited(s, x)' /\ x.from # "poll"
      BY <2>1, <3>2, CncAssumption DEF Awaited, Pids
    <3> QED BY <1>0, <2>1, <3>1, <3>2, <3>3, <3>4, RequestAdded
  <2>3. CASE t # s
    <3>1. inbox'[s] = inbox[s] /\ polling'[s] = polling[s]
      BY <1>11, <2>3 DEF Poll, TypeOK
    <3> QED BY <1>0, <2>1, <3>1, RequestKept
  <2> QED BY <2>2, <2>3
<1>12. CASE Return
  BY <1>0, <1>12, Forgotten DEF Return, pollVars
<1>13. ASSUME NEW t \in Servers, PollExpires(t) PROVE RequestAt(s)'
  <2>1. answers' = answers /\ call' = call /\ calls' = calls
    BY <1>13 DEF PollExpires, callVars
  <2>2. CASE t = s
    <3>1. /\ inbox'[s] = [k \in DOMAIN inbox[s] |-> Abandoned(inbox[s][k], "poll")]
          /\ daemon'[s] = [daemon[s] EXCEPT !.req = Abandoned(daemon[s].req, "poll")]
      BY <1>13, <2>2 DEF PollExpires, TypeOK
    <3> QED BY <1>0, <2>1, <3>1, Forgotten
  <2>3. CASE t # s
    <3>1. inbox'[s] = inbox[s] /\ polling'[s] = polling[s] /\ daemon'[s] = daemon[s]
      BY <1>13, <2>3 DEF PollExpires, TypeOK
    <3> QED BY <1>0, <2>1, <3>1, RequestKept
  <2> QED BY <2>2, <2>3
<1>14. ASSUME NEW t \in Others, OtherAnswers(t) PROVE RequestAt(s)'
  <2>1. answers'[s] = answers[s]
    BY <1>14, CncAssumption DEF OtherAnswers, TypeOK, All
  <2> QED BY <1>0, <1>14, <2>1, RequestKept DEF OtherAnswers, daemonVars, pollVars
<1>15. CASE ReadReplies
  <2>1. /\ daemon' = daemon /\ inbox' = inbox /\ polling' = polling /\ call'.kind = call.kind
        /\ call'.pending = call.pending \ Arrived /\ calls' = calls
    BY <1>15 DEF ReadReplies, daemonVars, pollVars, TypeOK, Calls
  <2>2. answers[s] = None => answers'[s] = None /\ s \notin Arrived
    BY <1>15 DEF ReadReplies, Arrived, All
  <2>3. \A r : Awaited(s, r) => Awaited(s, r)'
    BY <2>1, <2>2 DEF Awaited
  <2>4. /\ \A k \in DOMAIN inbox[s] : Awaited(s, inbox[s][k])'
        /\ Awaited(s, daemon[s].req)'
    BY <1>0, <2>1, <2>3 DEF Awaited
  <2> QED BY <1>0, <2>1, <2>4 DEF RequestAt
<1>16. CASE Tick \/ PollAgain
  <2>1. call'.kind = call.kind /\ call'.pending = call.pending
    BY <1>16 DEF Tick, PollAgain, TypeOK, Calls
  <2> QED BY <1>0, <1>16, <2>1, RequestKept DEF Tick, PollAgain, daemonVars, pollVars
<1>17. CASE UNCHANGED <<daemonVars, callVars, pollVars>>
  BY <1>0, <1>17, RequestKept DEF daemonVars, callVars, pollVars
<1>18. ASSUME DaemonStep(s) \/ RunEnds(s) PROVE RequestAt(s)'
  BY <1>2, <1>3, <1>4, <1>5, <1>6, <1>7, <1>8, <1>9, <1>18
     DEF DaemonStep, RunEnds, DrainAgain, JoinFails, Launch, LaunchCaptive, Kill
<1> QED
  BY <1>1, <1>10, <1>11, <1>12, <1>13, <1>14, <1>15, <1>16, <1>17, <1>18
     DEF Next, ClientStep, PrintLine, ChildExits, Enqueue, vars

-----------------------------------------------------------------------------
(* Calls.                                                                  *)

\* What a reply brings for the call is what the call is due.
LEMMA CallReplied ==
    ASSUME TypeOK, CallInv, NEW t \in Servers, NEW req, NEW answer, NEW out,
           Awaited(t, req), Reply(t, req, answer, out),
           call' = call, calls' = calls, results' = results,
           req.from = "call" => answer = PidOf(call.kind, calls)
    PROVE  CallInv'
<1>0. \A s \in All : \/ answers'[s] = answers[s]
                     \/ s = t /\ req.from = "call" /\ answers'[s] = answer
  <2>1. answers' = IF req.from = "call" THEN [answers EXCEPT ![t] = answer] ELSE answers
    BY DEF Reply
  <2> QED BY <2>1 DEF TypeOK
<1>1. ASSUME NEW s \in All, answers'[s] # None PROVE s \in call'.pending
  <2>1. answers'[s] = answers[s] \/ (s = t /\ req.from = "call")
    BY <1>0
  <2> QED BY <1>1, <2>1 DEF CallInv, Awaited
<1>2. \A s \in Servers : answers'[s] \in {None, PidOf(call.kind, calls)}
  BY <1>0 DEF CallInv, All
<1>3. OwnAnswers'
  BY DEF CallInv, OwnAnswers, PidOf
<1> QED BY <1>1, <1>2, <1>3 DEF CallInv, PidOf

LEMMA CallStep ==
    ASSUME TypeOK, RequestInv, CallInv, [Next]_vars
    PROVE  CallInv'
<1>1. ASSUME NEW t \in Servers, RunEnds(t) \/ DrainAgain(t) \/ JoinFails(t), NEW out,
             Reply(t, daemon[t].req, 0, out)
      PROVE  CallInv'
  <2>1. Awaited(t, daemon[t].req) /\ daemon[t].req.kind \in {"run", "read"}
    BY <1>1 DEF RequestInv, RequestAt, RunEnds, DrainAgain, JoinFails
  <2>2. daemon[t].req.from = "call" => 0 = PidOf(call.kind, calls)
    BY <2>1 DEF Awaited, PidOf, Launching
  <2> QED BY <1>1, <2>1, <2>2, CallReplied DEF RunEnds, DrainAgain, JoinFails
<1>2. ASSUME NEW t \in Servers, Launch(t) \/ LaunchCaptive(t) PROVE CallInv'
  <2>1. Awaited(t, Request(t))
    BY <1>2, AfterTake DEF Launch, LaunchCaptive
  <2>2. Request(t).from = "call" => Request(t).pid = PidOf(call.kind, calls)
    BY <2>1 DEF Awaited
  <2> QED BY <1>2, <2>1, <2>2, CallReplied DEF Launch, LaunchCaptive
<1>3. ASSUME NEW t \in Servers, Kill(t) PROVE CallInv'
  <2>1. Awaited(t, Request(t)) /\ Request(t).kind = "kill"
    BY <1>3, AfterTake DEF Kill, Take
  <2>2. Request(t).from = "call" => 0 = PidOf(call.kind, calls)
    BY <2>1 DEF Awaited, PidOf, Launching
  <2> QED BY <1>3, <2>1, <2>2, CallReplied DEF Kill
<1>4. ASSUME NEW kind \in Kinds, NEW servers \in SUBSET All, Send(kind, servers) PROVE CallInv'
  <2>1. \A s \in All : answers'[s] = None /\ results'[s] = None
    BY <1>4 DEF Send, CallInv, NoCall, NoAnswer
  <2> QED BY <2>1 DEF CallInv, OwnAnswers, All
<1>5. ASSUME NEW t \in Others, OtherAnswers(t) PROVE CallInv'
  <2>1. /\ call' = call /\ results' = results /\ calls' = calls
        /\ \A s \in Servers : answers'[s] = answers[s]
        /\ \A s \in All : answers'[s] = answers[s] \/ s \in call.pending
    BY <1>5, CncAssumption DEF OtherAnswers, TypeOK, All
  <2> QED BY <2>1 DEF CallInv, OwnAnswers, PidOf
<1>6. CASE ReadReplies
  <2>1. /\ call'.kind = call.kind /\ call'.pending = call.pending \ Arrived
        /\ call.pc # "none" /\ calls' = calls
    BY <1>6 DEF ReadReplies, TypeOK, Calls
  <2>2. \A s \in All : /\ answers'[s] = IF s \in Arrived THEN None ELSE answers[s]
                       /\ results'[s] = IF s \in Arrived THEN answers[s] ELSE results[s]
    BY <1>6 DEF ReadReplies
  <2>3. \A s \in Servers : /\ answers'[s] \in {None, PidOf(call.kind, calls)}
                           /\ results'[s] \in {None, PidOf(call.kind, calls)}
    BY <2>1, <2>2 DEF CallInv, OwnAnswers, All
  <2>4. \A s \in All : answers'[s] # None => s \in call'.pending
    BY <2>1, <2>2 DEF CallInv
  <2> QED BY <2>1, <2>3, <2>4 DEF CallInv, OwnAnswers, PidOf
<1>7. CASE Return
  BY <1>7 DEF Return, CallInv, OwnAnswers, NoCall, NoAnswer, All
<1>8. CASE Tick \/ PollAgain
  <2>1. /\ call'.kind = call.kind /\ call'.pending = call.pending /\ call.pc # "none"
        /\ calls' = calls /\ answers' = answers /\ results' = results
    BY <1>8 DEF Tick, PollAgain, TypeOK, Calls
  <2> QED BY <2>1 DEF CallInv, OwnAnswers, PidOf
<1>9. CASE UNCHANGED <<calls, call, answers, results>>
  BY <1>9 DEF CallInv, OwnAnswers, PidOf
<1> QED
  BY <1>1, <1>2, <1>3, <1>4, <1>5, <1>6, <1>7, <1>8, <1>9
     DEF Next, DaemonStep, ClientStep, PollTimesOut, Reap, Run, RunEnds, ReadProc, Drain,
     DrainAgain, JoinFails, Quit, Poll, PollExpires, PrintLine, ChildExits, Enqueue,
     callVars, vars

-----------------------------------------------------------------------------
(* Output.                                                                 *)

LEMMA LinesAreNumbers ==
    ASSUME NEW q \in Seq(1 .. MaxLines), NEW i \in DOMAIN q
    PROVE  q[i] \in Int
<1>1. DOMAIN q = 1 .. Len(q)
  BY LenProperties
<1>2. q[i] \in 1 .. MaxLines
  BY <1>1, ElementOfSeq
<1> QED BY <1>2

LEMMA QueuedLines ==
    ASSUME TypeOK, NEW s \in Servers, NEW p \in Pids
    PROVE  /\ Increasing(Queued(s, p))
           /\ \A k \in DOMAIN Queued(s, p) :
                lines[s][p].taken < Queued(s, p)[k] /\ Queued(s, p)[k] <= lines[s][p].queued
<1>1. lines[s][p].queued \in Nat /\ lines[s][p].taken \in Nat
  BY Types, CncAssumption DEF LineCounts
<1> DEFINE u == lines[s][p].queued
           v == lines[s][p].taken
           q == [k \in 1 .. u - v |-> v + k]
<1>2. u \in Nat /\ v \in Nat
  BY <1>1
<1>3. Queued(s, p) = q
  BY Zenon DEF Queued
<1>4. /\ \A i, j \in DOMAIN q : i < j => q[i] < q[j]
      /\ \A k \in DOMAIN q : v < q[k] /\ q[k] <= u
  <2> HIDE DEF u, v
  <2>. QED BY <1>2
<1> HIDE DEF q
<1> QED BY <1>3, <1>4 DEF Increasing

LEMMA IncreasingConcat ==
    ASSUME NEW a \in Seq(1 .. MaxLines), NEW b \in Seq(1 .. MaxLines),
           Increasing(a), Increasing(b),
           \A i \in DOMAIN a, j \in DOMAIN b : a[i] < b[j]
    PROVE  /\ Increasing(a \o b)
           /\ \A k \in DOMAIN (a \o b) : \/ \E i \in DOMAIN a : (a \o b)[k] = a[i]
                                       \/ \E j \in DOMAIN b : (a \o b)[k] = b[j]
<1>1. /\ DOMAIN a = 1 .. Len(a) /\ DOMAIN b = 1 .. Len(b) /\ Len(a) \in Nat /\ Len(b) \in Nat
      /\ DOMAIN (a \o b) = 1 .. Len(a) + Len(b)
      /\ \A k \in 1 .. Len(a) + Len(b) :
            (a \o b)[k] = IF k <= Len(a) THEN a[k] ELSE b[k - Len(a)]
  BY ConcatProperties, LenProperties
<1>2. \A k \in DOMAIN (a \o b) :
        \/ k \in DOMAIN a /\ (a \o b)[k] = a[k]
        \/ k > Len(a) /\ k - Len(a) \in DOMAIN b /\ (a \o b)[k] = b[k - Len(a)]
  BY <1>1
<1>3. ASSUME NEW i \in DOMAIN (a \o b), NEW j \in DOMAIN (a \o b), i < j
      PROVE  (a \o b)[i] < (a \o b)[j]
  <2>1. CASE i \in DOMAIN a /\ j \in DOMAIN a
    <3>1. (a \o b)[i] = a[i] /\ (a \o b)[j] = a[j]
      BY <1>1, <2>1
    <3> QED BY <1>3, <2>1, <3>1 DEF Increasing
  <2>2. CASE i \in DOMAIN a /\ j \notin DOMAIN a
    BY <1>1, <1>2, <2>2
  <2>3. CASE i \notin DOMAIN a
    <3>1. /\ i - Len(a) \in DOMAIN b /\ j - Len(a) \in DOMAIN b /\ i - Len(a) < j - Len(a)
          /\ (a \o b)[i] = b[i - Len(a)] /\ (a \o b)[j] = b[j - Len(a)]
      BY <1>1, <1>3, <2>3
    <3> QED BY <3>1 DEF Increasing
  <2> QED BY <2>1, <2>2, <2>3
<1> QED BY <1>2, <1>3 DEF Increasing

\* Polls have returned something new only when their request was carried out.
LEMMA GotMoves ==
    ASSUME TypeOK, RequestInv, [Next]_vars, NEW s \in Servers
    PROVE  \/ got'[s] = got[s]
           \/ /\ DrainAgain(s)
              /\ got'[s] = [got[s] EXCEPT ![daemon[s].req.pid] =
                              @ \o (daemon[s].out \o Queued(s, daemon[s].req.pid))]
<1>1. ASSUME NEW req, Awaited(s, req), req.kind # "read", NEW answer, NEW out,
             Reply(s, req, answer, out)
      PROVE  got'[s] = got[s]
  BY <1>1 DEF Reply, Awaited
<1>2. CASE RunEnds(s)
  <2>1. Awaited(s, daemon[s].req) /\ daemon[s].req.kind # "read"
    BY <1>2 DEF RequestInv, RequestAt, RunEnds
  <2> QED BY <1>1, <1>2, <2>1 DEF RunEnds
<1>3. CASE Launch(s) \/ LaunchCaptive(s) \/ Kill(s)
  <2>1. Awaited(s, Request(s)) /\ Request(s).kind # "read"
    BY <1>3, AfterTake DEF Launch, LaunchCaptive, Kill, Take
  <2> QED BY <1>1, <1>3, <2>1 DEF Launch, LaunchCaptive, Kill
<1>4. CASE JoinFails(s)
  <2> DEFINE p == daemon[s].req.pid
  <2>1. p \in Pids
    BY <1>4 DEF RequestInv, RequestAt, Awaited, JoinFails
  <2>2. got[s][p] \o <<>> = got[s][p] /\ got[s] \in [Pids -> Seq(1 .. MaxLines)]
    BY <2>1, Types, ConcatEmptySeq
  <2>3. got'[s] = got[s] \/ got'[s] = [got[s] EXCEPT ![p] = got[s][p] \o <<>>]
    BY <1>4 DEF JoinFails, Reply, TypeOK
  <2>4. [got[s] EXCEPT ![p] = got[s][p]] = got[s]
    BY <2>1, <2>2
  <2> QED BY <2>2, <2>3, <2>4
<1>5. CASE DrainAgain(s)
  <2> DEFINE o == daemon[s].out \o Queued(s, daemon[s].req.pid)
  <2>1. Reply(s, daemon[s].req, 0, o)
    BY <1>5 DEF DrainAgain
  <2> HIDE DEF o
  <2>2. \/ got' = got
        \/ got' = [got EXCEPT ![s][daemon[s].req.pid] = @ \o o]
    BY <2>1 DEF Reply
  <2>3. \/ got'[s] = got[s]
        \/ got'[s] = [got[s] EXCEPT ![daemon[s].req.pid] = @ \o o]
    BY <2>2 DEF TypeOK
  <2> QED BY <1>5, <2>3 DEF o
<1>6. ASSUME NEW t \in Servers, t # s, DaemonStep(t) \/ RunEnds(t) PROVE got'[s] = got[s]
  BY <1>6, Elsewhere
<1>7. CASE got' = got
  BY <1>7
<1> QED
  BY <1>2, <1>3, <1>4, <1>5, <1>6, <1>7
     DEF Next, DaemonStep, ClientStep, PollTimesOut, Reap, Run, ReadProc, Drain, Quit, Send,
     Tick, ReadReplies, PollAgain, Return, Poll, PollExpires, OtherAnswers, PrintLine,
     ChildExits, Enqueue, pollVars, vars

\* The queues of a server have not been emptied, and polls have returned the same.
LEMMA OutputKept ==
    ASSUME TypeOK, RequestInv, NEW s \in Servers, OutputAt(s),
           \A p \in Pids : /\ lines'[s][p].taken = lines[s][p].taken
                           /\ lines'[s][p].taken <= lines'[s][p].queued
                           /\ lines'[s][p].queued <= lines'[s][p].made,
           got'[s] = got[s],
           \/ daemon'[s].pc # "again"
           \/ /\ daemon[s].pc = "again" /\ daemon'[s].out = daemon[s].out
              /\ daemon'[s].req.pid = daemon[s].req.pid
    PROVE  OutputAt(s)'
<1>1. daemon[s].pc = "again" => daemon[s].req.pid \in Pids
  BY DEF RequestInv, RequestAt, Awaited
<1> QED BY <1>1 DEF OutputAt, Increasing

\* The queue of a child is emptied.
LEMMA Emptied ==
    ASSUME TypeOK, NEW s \in Servers, OutputAt(s), NEW p \in Pids,
           lines' = [lines EXCEPT ![s][p].taken = lines[s][p].queued]
    PROVE  /\ lines'[s][p].taken = lines[s][p].queued
           /\ \A x \in Pids : /\ lines[s][x].taken <= lines'[s][x].taken
                              /\ lines'[s][x].taken <= lines'[s][x].queued
                              /\ lines'[s][x].queued <= lines'[s][x].made
<1>1. lines[s] \in [Pids -> LineCounts]
  BY Types
<1>2. lines'[s] = [lines[s] EXCEPT ![p] = [lines[s][p] EXCEPT !.taken = lines[s][p].queued]]
  BY DEF TypeOK
<1>3. /\ lines'[s][p].taken = lines[s][p].queued /\ lines'[s][p].queued = lines[s][p].queued
      /\ lines'[s][p].made = lines[s][p].made
  BY <1>1, <1>2 DEF LineCounts
<1>4. \A x \in Pids : x # p => lines'[s][x] = lines[s][x]
  BY <1>1, <1>2
<1>5. \A x \in Pids : /\ lines[s][x].taken \in Int /\ lines[s][x].queued \in Int
                      /\ lines[s][x].taken <= lines[s][x].queued
                      /\ lines[s][x].queued <= lines[s][x].made
  BY <1>1 DEF LineCounts, OutputAt
<1>6. ASSUME NEW x \in Pids
      PROVE  /\ lines[s][x].taken <= lines'[s][x].taken
             /\ lines'[s][x].taken <= lines'[s][x].queued
             /\ lines'[s][x].queued <= lines'[s][x].made
  <2>1. CASE x = p
    BY <1>3, <1>5, <2>1
  <2>2. CASE x # p
    BY <1>4, <1>5, <2>2
  <2> QED BY <2>1, <2>2
<1> QED BY <1>3, <1>6

\* What a daemon is about to send has been taken in Drain().
LEMMA DaemonAgain ==
    ASSUME TypeOK, [Next]_vars, NEW s \in Servers, daemon'[s].pc = "again"
    PROVE  \/ Drain(s)
           \/ /\ daemon[s].pc = "again" /\ daemon'[s].out = daemon[s].out
              /\ daemon'[s].req.pid = daemon[s].req.pid
<1>0. daemon[s] \in DaemonStates
  BY Types
<1>1. CASE daemon'[s] = daemon[s]
  BY <1>1
<1>2. ASSUME NEW t \in Servers, t # s, DaemonStep(t) \/ RunEnds(t) PROVE daemon'[s] = daemon[s]
  BY <1>2, Elsewhere
<1>3. ASSUME NEW from, daemon'[s] = [daemon[s] EXCEPT !.req = Abandoned(daemon[s].req, from)]
      PROVE  /\ daemon[s].pc = "again" /\ daemon'[s].out = daemon[s].out
             /\ daemon'[s].req.pid = daemon[s].req.pid
  <2>1. /\ daemon'[s].req = Abandoned(daemon[s].req, from) /\ daemon[s].req \in Requests
        /\ daemon'[s].pc = daemon[s].pc /\ daemon'[s].out = daemon[s].out
    BY <1>0, <1>3 DEF DaemonStates
  <2> QED BY <2>1 DEF Abandoned, Requests
<1>4. CASE Return
  BY <1>3, <1>4 DEF Return
<1>5. ASSUME NEW t \in Servers, PollExpires(t)
      PROVE  /\ daemon[s].pc = "again" /\ daemon'[s].out = daemon[s].out
             /\ daemon'[s].req.pid = daemon[s].req.pid
  <2>1. \/ daemon'[s] = daemon[s]
        \/ daemon'[s] = [daemon[s] EXCEPT !.req = Abandoned(daemon[s].req, "poll")]
    BY <1>5 DEF PollExpires, TypeOK
  <2> QED BY <1>1, <1>3, <2>1
<1>6. PollTimesOut(s) => daemon'[s].pc = "reap"
  BY <1>0 DEF PollTimesOut, TypeOK, DaemonStates
<1>7. Run(s) => daemon'[s].pc = "run"
  BY <1>0 DEF Run, TypeOK, DaemonStates
<1>8. ReadProc(s) => daemon'[s].pc = "read"
  BY <1>0 DEF ReadProc, TypeOK, DaemonStates
<1>9. Reap(s) => daemon'[s].pc \in {"reap", "poll"}
  <2>1. ASSUME Reap(s)
        PROVE  \/ daemon'[s] = [daemon[s] EXCEPT !.i = daemon[s].i + 1] /\ daemon[s].pc = "reap"
               \/ daemon'[s] = Resting
    BY <2>1 DEF Reap, TypeOK
  <2> QED BY <1>0, <2>1 DEF DaemonStates, Resting
<1>10. RunEnds(s) \/ DrainAgain(s) \/ JoinFails(s) \/ Quit(s) => daemon'[s].pc \in {"poll", "off"}
  <2>1. RunEnds(s) \/ DrainAgain(s) \/ JoinFails(s) => daemon'[s] = Resting
    BY DEF RunEnds, DrainAgain, JoinFails, TypeOK
  <2>2. Quit(s) => daemon'[s] = [Resting EXCEPT !.pc = "off"]
    BY DEF Quit, TypeOK
  <2> QED BY <2>1, <2>2 DEF Resting
<1> QED
  BY <1>1, <1>2, <1>4, <1>5, <1>6, <1>7, <1>8, <1>9, <1>10
     DEF Next, DaemonStep, ClientStep, Launch, LaunchCaptive, Kill, PrintLine,
     ChildExits, Enqueue, Tick, ReadReplies, PollAgain, Send, Poll,
     OtherAnswers, daemonVars, childVars, callVars, vars

LEMMA OutputStep ==
    ASSUME TypeOK, RequestInv, OutputInv, [Next]_vars
    PROVE  OutputInv'
<1> SUFFICES ASSUME NEW s \in Servers PROVE OutputAt(s)'
  BY DEF OutputInv
<1>0. /\ OutputAt(s) /\ RequestAt(s) /\ Awaited(s, daemon[s].req)
      /\ daemon[s] \in DaemonStates /\ lines[s] \in [Pids -> LineCounts]
      /\ got[s] \in [Pids -> Seq(1 .. MaxLines)]
  BY Types DEF OutputInv, RequestInv, RequestAt
<1>1. \A p \in Pids : /\ lines[s][p].taken <= lines[s][p].queued
                      /\ lines[s][p].queued <= lines[s][p].made
                      /\ lines[s][p] \in LineCounts
  BY <1>0 DEF OutputAt
<1>2. CASE DrainAgain(s) \/ JoinFails(s) \/ Drain(s)
  <2> DEFINE p == daemon[s].req.pid
  <2>1. p \in Pids /\ daemon[s].pc \in {"read", "again"}
    BY <1>0, <1>2 DEF DrainAgain, JoinFails, Drain, RequestAt, Awaited
  <2>2. lines' = [lines EXCEPT ![s][p].taken = lines[s][p].queued]
    BY <1>2 DEF DrainAgain, JoinFails, Drain
  <2>3. /\ lines'[s][p].taken = lines[s][p].queued
        /\ \A x \in Pids : /\ lines[s][x].taken <= lines'[s][x].taken
                           /\ lines'[s][x].taken <= lines'[s][x].queued
                           /\ lines'[s][x].queued <= lines'[s][x].made
    BY <1>0, <2>1, <2>2, Emptied
  <2>4. \A x \in Pids : lines'[s][x].taken \in Int /\ lines[s][x].taken \in Int
    <3>1. lines' \in [Servers -> [Pids -> LineCounts]]
      BY <2>1, <2>2, EmptiedType
    <3> QED BY <1>1, <3>1 DEF LineCounts
  <2>5. \A x \in Pids : \A j \in DOMAIN got[s][x] :
          /\ got[s][x][j] \in Int /\ got[s][x][j] <= lines[s][x].taken
          /\ got[s][x][j] <= lines'[s][x].taken
    <3> SUFFICES ASSUME NEW x \in Pids, NEW j \in DOMAIN got[s][x]
                 PROVE  /\ got[s][x][j] \in Int /\ got[s][x][j] <= lines[s][x].taken
                        /\ got[s][x][j] <= lines'[s][x].taken
      OBVIOUS
    <3>1. got[s][x][j] \in Int
      BY <1>0, LinesAreNumbers
    <3>2. got[s][x][j] <= lines[s][x].taken
      BY <1>0 DEF OutputAt
    <3> QED BY <2>3, <2>4, <3>1, <3>2
  <2>6. \A x \in Pids : Increasing(got[s][x])
    BY <1>0 DEF OutputAt
  <2>7. CASE got'[s] = got[s] /\ ~Drain(s)
    <3>1. daemon'[s].pc = "poll"
      BY <1>2, <2>7 DEF DrainAgain, JoinFails, TypeOK, Resting
    <3> QED BY <2>3, <2>5, <2>6, <2>7, <3>1 DEF OutputAt, Increasing
  <2>8. CASE Drain(s)
    <3>1. /\ daemon'[s] = [daemon[s] EXCEPT !.pc = "again", !.out = Queued(s, p)]
          /\ got' = got
      BY <2>8 DEF Drain, pollVars, TypeOK
    <3>2. daemon'[s].req = daemon[s].req /\ daemon'[s].out = Queued(s, p)
      BY <1>0, <3>1 DEF DaemonStates
    <3>3. /\ Increasing(Queued(s, p))
          /\ \A k \in DOMAIN Queued(s, p) :
               lines[s][p].taken < Queued(s, p)[k] /\ Queued(s, p)[k] <= lines[s][p].queued
      BY <2>1, QueuedLines
    <3>4. \A k \in DOMAIN Queued(s, p) :
            /\ Queued(s, p)[k] <= lines'[s][p].taken
            /\ \A i \in DOMAIN got[s][p] : got[s][p][i] < Queued(s, p)[k]
      <4>1. \A k \in DOMAIN Queued(s, p) : Queued(s, p)[k] \in Int
        BY <2>1, QueuedType, LinesAreNumbers
      <4> QED BY <2>1, <2>3, <2>4, <2>5, <3>3, <4>1
    <3> QED BY <2>3, <2>5, <2>6, <3>1, <3>2, <3>3, <3>4 DEF OutputAt, Increasing
  <2>9. CASE /\ DrainAgain(s)
             /\ got'[s] = [got[s] EXCEPT ![p] = @ \o (daemon[s].out \o Queued(s, p))]
    <3> DEFINE a == got[s][p]
               b == daemon[s].out
               c == Queued(s, p)
    <3>1. a \in Seq(1 .. MaxLines) /\ b \in Seq(1 .. MaxLines) /\ c \in Seq(1 .. MaxLines)
      BY <1>0, <2>1, QueuedType DEF DaemonStates
    <3>2. daemon'[s].pc = "poll" /\ daemon[s].pc = "again"
      BY <2>9 DEF DrainAgain, TypeOK, Resting
    <3>3. /\ Increasing(a) /\ Increasing(b) /\ Increasing(c)
          /\ \A j \in DOMAIN b : b[j] <= lines[s][p].taken
          /\ \A i \in DOMAIN a, j \in DOMAIN b : a[i] < b[j]
          /\ \A k \in DOMAIN c : lines[s][p].taken < c[k] /\ c[k] <= lines[s][p].queued
      BY <1>0, <2>1, <3>2, QueuedLines DEF OutputAt
    <3>4. \A i \in DOMAIN a : a[i] <= lines[s][p].taken
      BY <2>1, <2>5
    <3>5. /\ \A i \in DOMAIN a : a[i] \in Int
          /\ \A i \in DOMAIN b : b[i] \in Int
          /\ \A i \in DOMAIN c : c[i] \in Int
          /\ lines[s][p].taken \in Int /\ lines[s][p].queued \in Int
          /\ lines[s][p].taken <= lines[s][p].queued
      <4> HIDE DEF a, b, c
      <4> QED BY <1>1, <2>1, <3>1, LinesAreNumbers DEF LineCounts
    <3> HIDE DEF a, b, c
    <3>6. /\ b \o c \in Seq(1 .. MaxLines) /\ Increasing(b \o c)
          /\ \A k \in DOMAIN (b \o c) : \/ \E i \in DOMAIN b : (b \o c)[k] = b[i]
                                      \/ \E j \in DOMAIN c : (b \o c)[k] = c[j]
      <4>1. \A i \in DOMAIN b, j \in DOMAIN c : b[i] < c[j]
        BY <3>3, <3>5
      <4> QED BY <3>1, <3>3, <4>1, IncreasingConcat, ConcatProperties
    <3>7. \A k \in DOMAIN (b \o c) :
            (b \o c)[k] <= lines[s][p].queued /\ \A i \in DOMAIN a : a[i] < (b \o c)[k]
      <4> SUFFICES ASSUME NEW k \in DOMAIN (b \o c)
                   PROVE  /\ (b \o c)[k] <= lines[s][p].queued
                          /\ \A i \in DOMAIN a : a[i] < (b \o c)[k]
        OBVIOUS
      <4>1. CASE \E i \in DOMAIN b : (b \o c)[k] = b[i]
        BY <3>3, <3>5, <4>1
      <4>2. CASE \E j \in DOMAIN c : (b \o c)[k] = c[j]
        BY <3>3, <3>4, <3>5, <4>2
      <4> QED BY <3>6, <4>1, <4>2
    <3>8. /\ Increasing(a \o (b \o c))
          /\ \A k \in DOMAIN (a \o (b \o c)) :
               \/ \E i \in DOMAIN a : (a \o (b \o c))[k] = a[i]
               \/ \E j \in DOMAIN (b \o c) : (a \o (b \o c))[k] = (b \o c)[j]
      BY <3>1, <3>3, <3>6, <3>7, IncreasingConcat
    <3>9. \A k \in DOMAIN (a \o (b \o c)) : (a \o (b \o c))[k] <= lines[s][p].queued
      <4> SUFFICES ASSUME NEW k \in DOMAIN (a \o (b \o c))
                   PROVE  (a \o (b \o c))[k] <= lines[s][p].queued
        OBVIOUS
      <4>1. CASE \E i \in DOMAIN a : (a \o (b \o c))[k] = a[i]
        BY <3>4, <3>5, <4>1
      <4>2. CASE \E j \in DOMAIN (b \o c) : (a \o (b \o c))[k] = (b \o c)[j]
        BY <3>7, <4>2
      <4> QED BY <3>8, <4>1, <4>2
    <3>10. /\ got'[s][p] = a \o (b \o c)
           /\ \A x \in Pids : x # p => got'[s][x] = got[s][x]
      BY <1>0, <2>1, <2>9 DEF a, b, c
    <3>11. \A x \in Pids : /\ Increasing(got'[s][x])
                           /\ \A j \in DOMAIN got'[s][x] : got'[s][x][j] <= lines'[s][x].taken
      BY <2>3, <2>5, <2>6, <3>8, <3>9, <3>10
    <3> QED BY <2>3, <3>2, <3>11 DEF OutputAt, Increasing
  <2>10. DrainAgain(s) => ~Drain(s)
    BY DEF DrainAgain, Drain
  <2> QED BY <1>2, <2>7, <2>8, <2>9, <2>10, GotMoves
<1>3. ASSUME NEW t \in Servers, NEW p \in Pids, PrintLine(t, p) \/ Enqueue(t, p)
      PROVE  OutputAt(s)'
  <2>1. daemon' = daemon /\ got' = got
    BY <1>3 DEF PrintLine, Enqueue, daemonVars, pollVars
  <2>2. \A x \in Pids : /\ lines'[s][x].taken = lines[s][x].taken
                       /\ lines'[s][x].taken <= lines'[s][x].queued
                       /\ lines'[s][x].queued <= lines'[s][x].made
    <3> SUFFICES ASSUME NEW x \in Pids
                 PROVE  /\ lines'[s][x].taken = lines[s][x].taken
                        /\ lines'[s][x].taken <= lines'[s][x].queued
                        /\ lines'[s][x].queued <= lines'[s][x].made
      OBVIOUS
    <3>1. CASE lines'[s][x] = lines[s][x]
      BY <1>1, <3>1
    <3>2. CASE PrintLine(s, x)
      <4>1. lines'[s][x] = [lines[s][x] EXCEPT !.made = lines[s][x].made + 1]
        BY <1>0, <3>2 DEF PrintLine, TypeOK
      <4> QED BY <1>1, <4>1 DEF LineCounts
    <3>3. CASE Enqueue(s, x)
      <4>1. /\ lines'[s][x] = [lines[s][x] EXCEPT !.queued = lines[s][x].queued + 1]
            /\ lines[s][x].queued < lines[s][x].made
        BY <1>0, <3>3 DEF Enqueue, TypeOK
      <4> QED BY <1>1, <4>1 DEF LineCounts
    <3>4. (t = s /\ p = x) \/ lines'[s][x] = lines[s][x]
      <4>1. \E c : lines' = [lines EXCEPT ![t] = [lines[t] EXCEPT ![p] = c]]
        BY <1>3 DEF PrintLine, Enqueue
      <4> QED BY <1>0, <4>1 DEF TypeOK
    <3> QED BY <1>3, <3>1, <3>2, <3>3, <3>4
  <2> QED BY <1>0, <2>1, <2>2, OutputKept
<1>4. CASE lines'[s] = lines[s] /\ ~Drain(s) /\ ~DrainAgain(s) /\ ~JoinFails(s)
  <2>1. got'[s] = got[s]
    BY <1>4, GotMoves
  <2>2. \/ daemon'[s].pc # "again"
        \/ /\ daemon[s].pc = "again" /\ daemon'[s].out = daemon[s].out
           /\ daemon'[s].req.pid = daemon[s].req.pid
    BY <1>4, DaemonAgain
  <2> QED BY <1>0, <1>1, <1>4, <2>1, <2>2, OutputKept
<1>5. ASSUME NEW t \in Servers, DaemonStep(t) \/ RunEnds(t),
             ~Drain(s), ~DrainAgain(s), ~JoinFails(s)
      PROVE  lines'[s] = lines[s]
  <2>1. CASE t # s
    BY <1>5, <2>1, Elsewhere
  <2>2. CASE t = s
    BY <1>5, <2>2 DEF DaemonStep, PollTimesOut, Reap, Run, RunEnds, Launch, LaunchCaptive,
       ReadProc, Kill, Quit, childVars
  <2> QED BY <2>1, <2>2
<1> QED
  BY <1>2, <1>3, <1>4, <1>5
     DEF Next, ClientStep, ChildExits, Tick, ReadReplies, PollAgain, Return, Send,
     Poll, PollExpires, OtherAnswers, childVars, vars

-----------------------------------------------------------------------------
(* Children that the daemon knows of.                                      *)

LEMMA CaptiveGrows ==
    ASSUME TypeOK, [Next]_vars, NEW s \in Servers
    PROVE  captive[s] \subseteq captive'[s]
<1>1. ASSUME NEW t \in Servers, LaunchCaptive(t) PROVE captive[s] \subseteq captive'[s]
  BY <1>1 DEF LaunchCaptive, TypeOK
<1>2. CASE captive' = captive
  BY <1>2
<1> QED
  BY <1>1, <1>2
     DEF Next, DaemonStep, ClientStep, PollTimesOut, Reap, Run, RunEnds, Launch, ReadProc,
     Drain, DrainAgain, JoinFails, Kill, Quit, Send, Poll, PollExpires, Return, PrintLine,
     ChildExits, Enqueue, Tick, ReadReplies, PollAgain, OtherAnswers, daemonVars, vars

LEMMA KnownStep ==
    ASSUME TypeOK, RequestInv, ReapInv, RunningAreKnown, [Next]_vars
    PROVE  RunningAreKnown'
<1> SUFFICES ASSUME NEW s \in Servers, NEW p \in Pids, child'[s][p] = "running"
             PROVE  p \in captive'[s] \cup Range(launched'[s])
  BY DEF RunningAreKnown
<1>0. captive[s] \subseteq captive'[s]
  BY CaptiveGrows
<1>1. child[s][p] = "running" => p \in captive[s] \cup Range(launched[s])
  BY DEF RunningAreKnown
<1>2. ASSUME NEW t \in Servers, Launch(t) \/ LaunchCaptive(t)
      PROVE  p \in captive'[s] \cup Range(launched'[s])
  <2>1. Request(t).pid \in Pids /\ launched[t] \in Seq(Pids)
    BY <1>2, PidLeft, Types DEF Launch, LaunchCaptive
  <2>2. Range(launched[s]) \subseteq Range(launched'[s])
    <3>1. CASE launched'[s] = launched[s]
      BY <3>1
    <3>2. CASE launched'[s] = Append(launched[s], Request(s).pid) /\ t = s
      BY <2>1, <3>2, AppendProperties, LenProperties DEF Range
    <3> QED BY <1>2, <3>1, <3>2 DEF Launch, LaunchCaptive, TypeOK
  <2>3. CASE child[s][p] = "running"
    BY <1>0, <1>1, <2>2, <2>3
  <2>4. CASE child[s][p] # "running"
    <3>1. t = s /\ p = Request(s).pid
      <4>1. child' = [child EXCEPT ![t] = [child[t] EXCEPT ![Request(t).pid] = "running"]]
        BY <1>2 DEF Launch, LaunchCaptive
      <4> QED BY <2>1, <2>4, <4>1 DEF TypeOK
    <3>2. CASE Launch(s)
      <4>1. launched'[s] = Append(launched[s], p)
        BY <3>1, <3>2 DEF Launch, TypeOK
      <4>2. p \in Range(launched'[s])
        BY <2>1, <3>1, <4>1, AppendProperties, LenProperties DEF Range
      <4> QED BY <4>2
    <3>3. CASE LaunchCaptive(s)
      BY <3>1, <3>3 DEF LaunchCaptive, TypeOK
    <3> QED BY <1>2, <3>1, <3>2, <3>3
  <2> QED BY <2>3, <2>4
<1>3. CASE Reap(s)
  <2>1. child' = child /\ captive' = captive
    BY <1>3 DEF Reap, childVars
  <2>2. CASE AtChild(s) /\ child[s][Child(s)] = "exited"
    <3>1. launched'[s] = RemoveAt(launched[s], daemon[s].i) /\ daemon[s].i >= 1
      BY <1>3, <2>2 DEF Reap, ReapInv, TypeOK
    <3>2. CASE p \in Range(launched[s])
      <4>1. PICK k \in 1 .. Len(launched[s]) : launched[s][k] = p
        BY <3>2, Types, LenProperties DEF Range
      <4>2. k # daemon[s].i
        BY <2>1, <2>2, <4>1 DEF Child
      <4>3. PICK j \in 1 .. Len(launched[s]) - 1 : launched'[s][j] = p
        BY <2>2, <3>1, <4>1, <4>2, ReapShortens
      <4>4. DOMAIN launched'[s] = 1 .. Len(launched[s]) - 1
        BY <2>2, <3>1, ReapShortens, LenProperties
      <4> QED BY <4>3, <4>4 DEF Range
    <3> QED BY <1>1, <2>1, <3>2
  <2>3. CASE launched' = launched
    BY <1>1, <2>1, <2>3
  <2> QED BY <1>3, <2>2, <2>3 DEF Reap
<1>4. CASE launched'[s] = launched[s] /\ (child[s][p] = "running" \/ child' = child)
  BY <1>0, <1>1, <1>4
<1>5. ASSUME NEW t \in Servers, NEW q \in Pids, ChildExits(t, q)
      PROVE  launched'[s] = launched[s] /\ child[s][p] = "running"
  BY <1>5 DEF ChildExits, daemonVars, TypeOK
<1>6. ASSUME NEW t \in Servers, t # s, Reap(t) PROVE launched'[s] = launched[s] /\ child' = child
  BY <1>6 DEF Reap, TypeOK, childVars
<1> QED
  BY <1>2, <1>3, <1>4, <1>5, <1>6
     DEF Next, DaemonStep, ClientStep, PollTimesOut, Run, RunEnds, ReadProc, Drain,
     DrainAgain, JoinFails, Kill, Quit, Send, Poll, PollExpires, Return, PrintLine, Enqueue,
     Tick, ReadReplies, PollAgain, OtherAnswers, childVars, daemonVars, vars

-----------------------------------------------------------------------------

LEMMA InitIInv == Init => IInv
<1> SUFFICES ASSUME Init PROVE IInv
  OBVIOUS
<1>1. TypeOK
  <2>1. Resting \in DaemonStates /\ NoCall \in Calls
    BY RestingType, CncAssumption DEF NoCall, Calls
  <2>2. [made |-> 0, queued |-> 0, taken |-> 0] \in LineCounts
    BY CncAssumption DEF LineCounts
  <2> QED BY <2>1, <2>2, CncAssumption DEF Init, TypeOK, NoAnswer
<1>2. ReapInv
  BY DEF Init, ReapInv, Resting
<1>3. RequestInv
  BY DEF Init, RequestInv, RequestAt, Awaited, Resting, NoRequest, Launching
<1>4. CallInv
  BY DEF Init, CallInv, OwnAnswers, NoCall, NoAnswer, All
<1>5. OutputInv
  BY DEF Init, OutputInv, OutputAt, Increasing, Resting
<1>6. RunningAreKnown
  BY DEF Init, RunningAreKnown
<1> QED BY <1>1, <1>2, <1>3, <1>4, <1>5, <1>6 DEF IInv

LEMMA StepIInv == IInv /\ [Next]_vars => IInv'
<1> SUFFICES ASSUME IInv, [Next]_vars PROVE IInv'
  OBVIOUS
<1>1. TypeOK'
  BY TypeStep DEF IInv
<1> QED
  BY <1>1, ReapStep, RequestStep, CallStep, OutputStep, KnownStep DEF IInv

LEMMA Safety == Spec => []IInv
<1> QED BY InitIInv, StepIInv, PTL DEF Spec

\* The variables have their types: what a daemon launches has the number of a
\* call that was made.
THEOREM TypeCorrect == Spec => []TypeOK
<1>1. IInv => TypeOK
  BY DEF IInv
<1> QED BY <1>1, Safety, PTL

\* What a call has read from a daemon is the reply to its own request, although
\* daemons still carry out requests of calls that have returned.
THEOREM CallsGetTheirAnswers == Spec => []OwnAnswers
<1>1. IInv => OwnAnswers
  BY DEF IInv, CallInv
<1> QED BY <1>1, Safety, PTL

\* Polls return the lines of a child in order and none twice, although each
\* request empties the queue twice and polls may time out at any moment.
THEOREM OutputComesInOrder == Spec => []OutputInOrder
<1>1. IInv => OutputInOrder
  <2> SUFFICES ASSUME IInv, NEW s \in Servers, NEW p \in Pids,
                      NEW i \in DOMAIN got[s][p], NEW j \in DOMAIN got[s][p]
               PROVE  /\ i < j => got[s][p][i] < got[s][p][j]
                      /\ got[s][p][j] <= lines[s][p].made
    BY DEF OutputInOrder
  <2>1. OutputAt(s) /\ got[s][p] \in Seq(1 .. MaxLines) /\ lines[s][p] \in LineCounts
    BY Types DEF IInv, OutputInv
  <2>2. got[s][p][j] \in Int
    BY <2>1, LinesAreNumbers
  <2> QED BY <2>1, <2>2 DEF OutputAt, Increasing, LineCounts
<1> QED BY <1>1, Safety, PTL

\* No child that is still running drops off the daemon's list while it looks
\* for those that have ended.
THEOREM NoChildForgotten == Spec => []RunningAreKnown
<1>1. IInv => RunningAreKnown
  BY DEF IInv
<1> QED BY <1>1, Safety, PTL

-----------------------------------------------------------------------------
(* Nobody waits in vain, except behind a command.  Calls return and        *)
(* children are reaped under fairness only (CallReturns,                   *)
(* FinishedAreReaped); where the request of a client that waits may be is   *)
(* an invariant.                                                           *)

\* A request from the call or a poll is in the inbox or being served.
InHand(s, from) ==
    \/ daemon[s].req.from = from
    \/ \E k \in DOMAIN inbox[s] : inbox[s][k].from = from

Understood == {"run", "launch", "captive", "kill", "quit", "read"}

\* What has not been answered is still in hand, unless the daemon has quit.
AskedAt(s) ==
    /\ daemon[s].pc # "off" =>
         /\ s \in call.pending /\ answers[s] = None => InHand(s, "call")
         /\ polling[s] # 0 => InHand(s, "poll")
    /\ \A k \in DOMAIN inbox[s] : inbox[s][k].kind \in Understood

AskedInv ==
    /\ \A s \in Servers : AskedAt(s)
    /\ call.pc = "poll" => call.pending # {}

\* The daemon is at its list or at a request that it does not wait for, or
\* takes the next request.
DaemonReady(s) ==
    \/ daemon[s].pc \in {"reap", "read", "again"}
    \/ /\ daemon[s].pc = "poll" /\ inbox[s] # <<>>
       /\ Request(s).kind \in Understood

\* The client has replies to read, or waits for a limited time.
ClientReady ==
    call.pc = "read" \/ (call.pc = "poll" /\ (Arrived # {} \/ call.left >= 0))

\* A daemon has the request and can go on, or waits for a command of `run', which
\* it may do for ever; or it has quit.
Served(s, from) ==
    \/ daemon[s].pc = "off"
    \/ InHand(s, from) /\ (DaemonReady(s) \/ daemon[s].pc = "run")

\* What a call without a limit (Rest) and a poll may wait for.  No other request
\* than `run' stops a daemon.
NoVainWait ==
    /\ call.pc # "none" /\ ~ClientReady =>
         /\ call.pending # {}
         /\ \A s \in call.pending : s \in Others \/ Served(s, "call")
    /\ \A s \in Servers :
         /\ polling[s] # 0 => Served(s, "poll")
         /\ inbox[s] # <<>> => DaemonReady(s) \/ daemon[s].pc \in {"run", "off"}

\* The inbox after a request has been taken.
LEMMA TakeShifts ==
    ASSUME TypeOK, NEW s \in Servers, NEW kind, Take(s, kind)
    PROVE  /\ \A k \in DOMAIN inbox'[s] : \E j \in DOMAIN inbox[s] : inbox'[s][k] = inbox[s][j]
           /\ \A j \in DOMAIN inbox[s] :
                inbox[s][j] = Request(s) \/ \E k \in DOMAIN inbox'[s] : inbox'[s][k] = inbox[s][j]
<1> DEFINE q == inbox[s]
<1>1. q \in Seq(Requests) /\ q # <<>> /\ inbox'[s] = Tail(q) /\ Request(s) = q[1]
  BY TakeType, Types DEF Taken, TypeOK
<1>2. /\ Len(q) \in Nat /\ Len(q) >= 1
      /\ DOMAIN inbox'[s] = 1 .. Len(q) - 1 /\ DOMAIN q = 1 .. Len(q)
      /\ \A k \in 1 .. Len(q) - 1 : inbox'[s][k] = q[k + 1]
  BY <1>1, HeadTailProperties, EmptySeq, LenProperties
<1>3. \A k \in 1 .. Len(q) - 1 : k + 1 \in DOMAIN q
  BY <1>2
<1>4. ASSUME NEW j \in DOMAIN q, j # 1
      PROVE  \E k \in DOMAIN inbox'[s] : inbox'[s][k] = q[j]
  <2>1. j - 1 \in 1 .. Len(q) - 1 /\ (j - 1) + 1 = j
    BY <1>2, <1>4
  <2> QED BY <1>2, <2>1
<1> QED BY <1>1, <1>2, <1>3, <1>4

\* A request has been taken into the hands of the daemon.
LEMMA AskedTaken ==
    ASSUME TypeOK, NEW s \in Servers, AskedAt(s), NEW kind, Take(s, kind),
           daemon[s].req = NoRequest, daemon'[s].req = Request(s),
           polling' = polling, answers' = answers, call' = call
    PROVE  AskedAt(s)'
<1>1. /\ \A k \in DOMAIN inbox'[s] : \E j \in DOMAIN inbox[s] : inbox'[s][k] = inbox[s][j]
      /\ \A j \in DOMAIN inbox[s] :
           inbox[s][j] = Request(s) \/ \E k \in DOMAIN inbox'[s] : inbox'[s][k] = inbox[s][j]
  BY TakeShifts
<1>2. daemon[s].pc # "off" /\ daemon[s].req.from = "nobody"
  BY DEF Take, NoRequest
<1>3. \A x \in {"call", "poll"} : InHand(s, x) => InHand(s, x)'
  <2> SUFFICES ASSUME NEW x \in {"call", "poll"}, InHand(s, x) PROVE InHand(s, x)'
    OBVIOUS
  <2>1. PICK j \in DOMAIN inbox[s] : inbox[s][j].from = x
    BY <1>2 DEF InHand
  <2> QED BY <1>1, <2>1 DEF InHand
<1> QED BY <1>1, <1>2, <1>3 DEF AskedAt

\* A request that was taken or in hand has been replied to.
LEMMA AskedReplied ==
    ASSUME TypeOK, NEW s \in Servers, AskedAt(s), NEW req, NEW answer \in Pids \cup {0},
           NEW out, Reply(s, req, answer, out), call' = call,
           daemon[s].pc # "off",
           \A k \in DOMAIN inbox'[s] : \E j \in DOMAIN inbox[s] : inbox'[s][k] = inbox[s][j],
           \A x \in {"call", "poll"} : InHand(s, x) => req.from = x \/ InHand(s, x)'
    PROVE  AskedAt(s)'
<1>1. /\ req.from = "call" => answers'[s] = answer
      /\ req.from # "call" => answers' = answers
  BY DEF Reply, TypeOK, All
<1>2. answer # None
  BY DEF None, Pids
<1>3. /\ req.from = "poll" => polling'[s] = 0
      /\ req.from # "poll" => polling' = polling
  BY DEF Reply, TypeOK
<1> QED BY <1>1, <1>2, <1>3 DEF AskedAt

LEMMA AskedKept ==
    ASSUME NEW s \in Servers, AskedAt(s), inbox'[s] = inbox[s],
           daemon'[s].req = daemon[s].req, daemon'[s].pc # "off" => daemon[s].pc # "off",
           polling'[s] = polling[s],
           s \in call'.pending /\ answers'[s] = None =>
               s \in call.pending /\ answers[s] = None
    PROVE  AskedAt(s)'
  BY DEF AskedAt, InHand

\* A request has been added; from says by whom.
LEMMA AskedAdded ==
    ASSUME TypeOK, NEW s \in Servers, AskedAt(s), NEW r \in Requests,
           r.kind \in Understood, inbox'[s] = Append(inbox[s], r), daemon' = daemon,
           polling'[s] # 0 => polling[s] # 0 \/ r.from = "poll",
           s \in call'.pending /\ answers'[s] = None =>
               r.from = "call" \/ (s \in call.pending /\ answers[s] = None)
    PROVE  AskedAt(s)'
<1> DEFINE q == inbox[s]
<1>1. /\ Len(q) \in Nat /\ DOMAIN q = 1 .. Len(q) /\ DOMAIN inbox'[s] = 1 .. Len(q) + 1
      /\ \A k \in 1 .. Len(q) : inbox'[s][k] = q[k]
      /\ inbox'[s][Len(q) + 1] = r
  BY Types, LenProperties, AppendProperties
<1>2. /\ \A k \in DOMAIN inbox'[s] : k \in DOMAIN q \/ inbox'[s][k] = r
      /\ \A k \in DOMAIN q : k \in DOMAIN inbox'[s] /\ inbox'[s][k] = q[k]
      /\ Len(q) + 1 \in DOMAIN inbox'[s]
  BY <1>1
<1>3. InHand(s, r.from)'
  BY <1>1, <1>2 DEF InHand
<1>4. \A x : InHand(s, x) => InHand(s, x)'
  BY <1>2 DEF InHand
<1>5. \A k \in DOMAIN inbox'[s] : inbox'[s][k].kind \in Understood
  BY <1>2 DEF AskedAt
<1> QED BY <1>3, <1>4, <1>5 DEF AskedAt

\* Requests from elsewhere stay in hand when a socket is closed.
LEMMA AskedForgotten ==
    ASSUME TypeOK, NEW s \in Servers, RequestAt(s), AskedAt(s), NEW from \in {"call", "poll"},
           inbox'[s] = [k \in DOMAIN inbox[s] |-> Abandoned(inbox[s][k], from)],
           daemon'[s] = [daemon[s] EXCEPT !.req = Abandoned(daemon[s].req, from)],
           polling'[s] # 0 => polling[s] # 0 /\ from # "poll",
           s \in call'.pending /\ answers'[s] = None =>
               s \in call.pending /\ answers[s] = None /\ from # "call"
    PROVE  AskedAt(s)'
<1>1. /\ DOMAIN inbox'[s] = DOMAIN inbox[s]
      /\ \A k \in DOMAIN inbox[s] : inbox'[s][k] = Abandoned(inbox[s][k], from)
  OBVIOUS
<1>2. /\ \A k \in DOMAIN inbox[s] : inbox[s][k] \in Requests
      /\ daemon[s] \in DaemonStates
  BY Types, ElementOfSeq, LenProperties
<1>3. \A r \in Requests : /\ Abandoned(r, from).kind = r.kind
                          /\ r.from # from => Abandoned(r, from) = r
  BY DEF Abandoned, Requests
<1>4. daemon'[s].pc = daemon[s].pc /\ daemon'[s].req = Abandoned(daemon[s].req, from)
      /\ daemon[s].req \in Requests
  BY <1>2 DEF DaemonStates
<1>5. \A x \in {"call", "poll"} \ {from} : InHand(s, x) => InHand(s, x)'
  BY <1>1, <1>2, <1>3, <1>4 DEF InHand
<1>6. \A k \in DOMAIN inbox'[s] : inbox'[s][k].kind \in Understood
  BY <1>1, <1>2, <1>3 DEF AskedAt
<1> QED BY <1>4, <1>5, <1>6 DEF AskedAt

LEMMA AskedStep ==
    ASSUME TypeOK, RequestInv, AskedInv, [Next]_vars
    PROVE  \A s \in Servers : AskedAt(s)'
<1> SUFFICES ASSUME NEW s \in Servers PROVE AskedAt(s)'
  OBVIOUS
<1>0. AskedAt(s) /\ RequestAt(s) /\ daemon[s] \in DaemonStates
  BY Types DEF RequestInv, AskedInv
<1>1. ASSUME NEW t \in Servers, DaemonStep(t) \/ RunEnds(t), t # s PROVE AskedAt(s)'
  BY <1>0, <1>1, Elsewhere, DaemonKeepsCall, AskedKept
<1>2. CASE PollTimesOut(s)
  <2>1. daemon'[s] = [daemon[s] EXCEPT !.pc = "reap", !.i = 1]
    BY <1>2 DEF PollTimesOut, TypeOK
  <2>2. daemon'[s].req = daemon[s].req /\ daemon[s].pc = "poll"
    BY <1>0, <1>2, <2>1 DEF DaemonStates, PollTimesOut
  <2> QED BY <1>0, <1>2, <2>2, AskedKept DEF PollTimesOut, callVars, pollVars
<1>3. CASE Reap(s)
  <2>1. daemon[s].pc = "reap" /\ daemon[s].req = NoRequest
    BY <1>0, <1>3 DEF Reap, RequestAt
  <2>2. daemon'[s] = [daemon[s] EXCEPT !.i = daemon[s].i + 1] \/ daemon'[s] = Resting
    BY <1>3 DEF Reap, TypeOK
  <2>3. daemon'[s].req = daemon[s].req
    BY <1>0, <2>1, <2>2 DEF Resting, DaemonStates
  <2> QED BY <1>0, <1>3, <2>1, <2>3, AskedKept DEF Reap, callVars, pollVars
<1>4. CASE Run(s)
  <2>1. daemon'[s] = [daemon[s] EXCEPT !.pc = "run", !.req = Request(s)]
    BY <1>4 DEF Run, TypeOK
  <2>2. daemon'[s].req = Request(s) /\ daemon[s].req = NoRequest /\ Take(s, "run")
    BY <1>0, <1>4, <2>1 DEF DaemonStates, RequestAt, Run, Take
  <2> QED BY <1>0, <1>4, <2>2, AskedTaken DEF Run, callVars, pollVars
<1>5. CASE ReadProc(s)
  <2>1. daemon'[s] = [daemon[s] EXCEPT !.pc = "read", !.req = Request(s)]
    BY <1>5 DEF ReadProc, TypeOK
  <2>2. daemon'[s].req = Request(s)
    BY <1>0, <2>1 DEF DaemonStates
  <2>3. daemon[s].req = NoRequest /\ Take(s, "read")
    BY <1>0, <1>5 DEF RequestAt, ReadProc, Take
  <2> QED BY <1>0, <1>5, <2>2, <2>3, AskedTaken DEF ReadProc, callVars, pollVars
<1>6. ASSUME NEW out, RunEnds(s) \/ DrainAgain(s) \/ JoinFails(s),
             Reply(s, daemon[s].req, 0, out)
      PROVE  AskedAt(s)'
  <2>1. inbox' = inbox /\ call' = call /\ daemon[s].pc # "off"
    BY <1>6 DEF RunEnds, DrainAgain, JoinFails
  <2>2. \A x \in {"call", "poll"} : InHand(s, x) => daemon[s].req.from = x \/ InHand(s, x)'
    BY <2>1 DEF InHand
  <2>3. \A k \in DOMAIN inbox'[s] : \E j \in DOMAIN inbox[s] : inbox'[s][k] = inbox[s][j]
    BY <2>1
  <2> QED BY <1>0, <1>6, <2>1, <2>2, <2>3, AskedReplied
<1>7. ASSUME NEW kind, Take(s, kind), NEW answer \in Pids \cup {0},
             Reply(s, Request(s), answer, <<>>), daemon' = daemon, call' = call
      PROVE  AskedAt(s)'
  <2>1. /\ \A k \in DOMAIN inbox'[s] : \E j \in DOMAIN inbox[s] : inbox'[s][k] = inbox[s][j]
        /\ \A j \in DOMAIN inbox[s] :
             inbox[s][j] = Request(s) \/ \E k \in DOMAIN inbox'[s] : inbox'[s][k] = inbox[s][j]
    BY <1>7, TakeShifts
  <2>2. \A x \in {"call", "poll"} : InHand(s, x) => Request(s).from = x \/ InHand(s, x)'
    BY <1>7, <2>1 DEF InHand
  <2>3. daemon[s].pc # "off"
    BY <1>7 DEF Take
  <2> QED BY <1>0, <1>7, <2>1, <2>2, <2>3, AskedReplied
<1>8. CASE Quit(s)
  <2>1. Take(s, "quit") /\ daemon'[s] = [Resting EXCEPT !.pc = "off"]
    BY <1>8 DEF Quit, TypeOK
  <2>2. daemon'[s].pc = "off"
    BY <2>1 DEF Resting
  <2>3. \A k \in DOMAIN inbox'[s] : inbox'[s][k].kind \in Understood
    BY <1>0, <2>1, TakeShifts DEF AskedAt
  <2> QED BY <2>2, <2>3 DEF AskedAt
<1>9. CASE Drain(s)
  <2>1. daemon'[s] = [daemon[s] EXCEPT !.pc = "again", !.out = Queued(s, daemon[s].req.pid)]
    BY <1>9 DEF Drain, TypeOK
  <2>2. daemon'[s].req = daemon[s].req /\ daemon[s].pc = "read"
    BY <1>0, <1>9, <2>1 DEF DaemonStates, Drain
  <2> QED BY <1>0, <1>9, <2>2, AskedKept DEF Drain, callVars, pollVars
<1>10. ASSUME NEW kind \in Kinds, NEW servers \in SUBSET All, Send(kind, servers)
       PROVE  AskedAt(s)'
  <2>1. /\ call = NoCall /\ daemon' = daemon /\ polling' = polling /\ answers' = answers
        /\ call'.pending = servers
    BY <1>10 DEF Send, pollVars
  <2>2. CASE s \in servers
    <3>1. PICK r : r = [kind |-> kind, from |-> "call", pid |-> PidOf(kind, calls + 1)]
      OBVIOUS
    <3>2. PidOf(kind, calls + 1) \in Pids \cup {0}
      BY <1>10, CncAssumption DEF TypeOK, Send, PidOf, Pids
    <3>3. r \in Requests /\ inbox'[s] = Append(inbox[s], r)
      BY <1>0, <1>10, <2>2, <3>1, <3>2 DEF Send, Requests
    <3>4. r.kind \in Understood /\ r.from = "call"
      BY <3>1, CncAssumption DEF Understood
    <3> QED BY <1>0, <2>1, <3>3, <3>4, AskedAdded
  <2>3. CASE s \notin servers
    <3>1. inbox'[s] = inbox[s]
      BY <1>10, <2>3 DEF Send
    <3> QED BY <1>0, <2>1, <2>3, <3>1, AskedKept
  <2> QED BY <2>2, <2>3
<1>11. ASSUME NEW t \in Servers, NEW p \in Pids, Poll(t, p) PROVE AskedAt(s)'
  <2>1. daemon' = daemon /\ answers' = answers /\ call' = call
    BY <1>11 DEF Poll, callVars
  <2>2. CASE t = s
    <3>1. PICK r : r = [kind |-> "read", from |-> "poll", pid |-> p]
      OBVIOUS
    <3>2. /\ r \in Requests /\ inbox'[s] = Append(inbox[s], r)
          /\ r.kind \in Understood /\ r.from = "poll"
      BY <1>0, <1>11, <2>2, <3>1 DEF Poll, Requests, TypeOK, Understood
    <3> QED BY <1>0, <2>1, <3>2, AskedAdded
  <2>3. CASE t # s
    <3>1. inbox'[s] = inbox[s] /\ polling'[s] = polling[s]
      BY <1>11, <2>3 DEF Poll, TypeOK
    <3> QED BY <1>0, <2>1, <3>1, AskedKept
  <2> QED BY <2>2, <2>3
<1>12. CASE Return
  <2>1. /\ inbox'[s] = [k \in DOMAIN inbox[s] |-> Abandoned(inbox[s][k], "call")]
        /\ daemon'[s] = [daemon[s] EXCEPT !.req = Abandoned(daemon[s].req, "call")]
        /\ polling' = polling /\ call'.pending = {}
    BY <1>12 DEF Return, NoCall, pollVars
  <2> QED BY <1>0, <2>1, AskedForgotten
<1>13. ASSUME NEW t \in Servers, PollExpires(t) PROVE AskedAt(s)'
  <2>1. answers' = answers /\ call' = call
    BY <1>13 DEF PollExpires, callVars
  <2>2. CASE t = s
    <3>1. /\ inbox'[s] = [k \in DOMAIN inbox[s] |-> Abandoned(inbox[s][k], "poll")]
          /\ daemon'[s] = [daemon[s] EXCEPT !.req = Abandoned(daemon[s].req, "poll")]
          /\ polling'[s] = 0
      BY <1>13, <2>2 DEF PollExpires, TypeOK
    <3> QED BY <1>0, <2>1, <3>1, AskedForgotten
  <2>3. CASE t # s
    <3>1. inbox'[s] = inbox[s] /\ polling'[s] = polling[s] /\ daemon'[s] = daemon[s]
      BY <1>13, <2>3 DEF PollExpires, TypeOK
    <3> QED BY <1>0, <2>1, <3>1, AskedKept
  <2> QED BY <2>2, <2>3
<1>14. ASSUME NEW t \in Others, OtherAnswers(t) PROVE AskedAt(s)'
  <2>1. answers'[s] = answers[s]
    BY <1>14, CncAssumption DEF OtherAnswers, TypeOK, All
  <2> QED BY <1>0, <1>14, <2>1, AskedKept DEF OtherAnswers, daemonVars, pollVars
<1>15. CASE ReadReplies
  <2>1. /\ daemon' = daemon /\ inbox' = inbox /\ polling' = polling
        /\ call'.pending = call.pending \ Arrived
    BY <1>15 DEF ReadReplies, daemonVars, pollVars, TypeOK, Calls
  <2>2. s \in call'.pending => answers[s] = None
    BY <2>1 DEF Arrived
  <2> QED BY <1>0, <2>1, <2>2, AskedKept
<1>16. CASE Tick \/ PollAgain
  <2>1. call'.pending = call.pending
    BY <1>16 DEF Tick, PollAgain, TypeOK, Calls
  <2> QED BY <1>0, <1>16, <2>1, AskedKept DEF Tick, PollAgain, daemonVars, pollVars
<1>17. CASE UNCHANGED <<daemonVars, callVars, pollVars>>
  BY <1>0, <1>17, AskedKept DEF daemonVars, callVars, pollVars
<1>18. CASE Launch(s) \/ LaunchCaptive(s)
  <2>1. Request(s).pid \in Pids
    BY <1>18, PidLeft DEF Launch, LaunchCaptive
  <2> QED BY <1>7, <1>18, <2>1 DEF Launch, LaunchCaptive
<1>19. ASSUME DaemonStep(s) \/ RunEnds(s) PROVE AskedAt(s)'
  BY <1>2, <1>3, <1>4, <1>5, <1>6, <1>7, <1>8, <1>9, <1>18, <1>19
     DEF DaemonStep, RunEnds, DrainAgain, JoinFails, Kill
<1> QED
  BY <1>1, <1>10, <1>11, <1>12, <1>13, <1>14, <1>15, <1>16, <1>17, <1>19
     DEF Next, ClientStep, PrintLine, ChildExits, Enqueue, vars

LEMMA AskedInvariance == Spec => []AskedInv
<1>1. Init => AskedInv
  BY DEF Init, AskedInv, AskedAt, NoCall
<1>2. IInv /\ AskedInv /\ [Next]_vars => AskedInv'
  <2> SUFFICES ASSUME IInv, AskedInv, [Next]_vars PROVE AskedInv'
    OBVIOUS
  <2>1. \A s \in Servers : AskedAt(s)'
    BY AskedStep DEF IInv
  <2>2. call'.pc = "poll" => call'.pending # {}
    <3>1. ASSUME NEW kind \in Kinds, NEW servers \in (SUBSET All) \ {{}}, Send(kind, servers)
          PROVE  call'.pending # {}
      BY <3>1 DEF Send
    <3>2. CASE ClientStep
      <4>1. call \in Calls
        BY DEF IInv, TypeOK
      <4>2. CASE Tick
        BY <4>1, <4>2 DEF Tick, AskedInv, Calls
      <4>3. CASE ReadReplies
        BY <4>1, <4>3 DEF ReadReplies, Calls
      <4>4. CASE PollAgain
        BY <4>1, <4>4 DEF PollAgain, Calls
      <4>5. CASE Return
        BY <4>5 DEF Return, NoCall
      <4> QED BY <3>2, <4>2, <4>3, <4>4, <4>5 DEF ClientStep
    <3>3. CASE call' = call
      BY <3>3 DEF AskedInv
    <3> QED
      BY <3>1, <3>2, <3>3, DaemonKeepsCall
         DEF Next, Poll, PollExpires, OtherAnswers, PrintLine, ChildExits,
             Enqueue, vars, callVars
  <2> QED BY <2>1, <2>2 DEF AskedInv
<1> QED BY <1>1, <1>2, Safety, PTL DEF Spec

\* Whoever waits for a daemon, in a call without a limit or in a poll, has its
\* request there, and only a command of `run' that does not end, or `quit', can
\* keep the daemon from it (cnc.py:42-154, cnc_client.py:42-98).
THEOREM NobodyWaitsInVain == Spec => []NoVainWait
<1>1. IInv /\ AskedInv => NoVainWait
  <2> SUFFICES ASSUME IInv, AskedInv PROVE NoVainWait
    OBVIOUS
  <2>1. ASSUME NEW s \in Servers, inbox[s] # <<>>
        PROVE  DaemonReady(s) \/ daemon[s].pc \in {"run", "off"}
    <3>1. inbox[s] \in Seq(Requests) /\ daemon[s] \in DaemonStates
      BY Types DEF IInv
    <3>2. 1 \in DOMAIN inbox[s] /\ Request(s) = inbox[s][1]
      BY <2>1, <3>1, EmptySeq, LenProperties DEF Request
    <3>3. Request(s).kind \in Understood
      BY <3>2 DEF AskedInv, AskedAt
    <3> QED BY <2>1, <3>1, <3>3 DEF DaemonReady, DaemonStates
  <2>2. ASSUME NEW s \in Servers, NEW x \in {"call", "poll"},
               daemon[s].pc # "off" => InHand(s, x)
        PROVE  Served(s, x)
    <3>1. CASE daemon[s].req.from = x
      <4>1. daemon[s] \in DaemonStates /\ daemon[s].pc \notin {"poll", "reap", "off"}
        BY <3>1, Types DEF IInv, RequestInv, RequestAt, NoRequest
      <4> QED BY <3>1, <4>1 DEF Served, InHand, DaemonReady, DaemonStates
    <3>2. CASE \E k \in DOMAIN inbox[s] : inbox[s][k].from = x
      <4>1. inbox[s] # <<>>
        BY <3>2
      <4> QED BY <2>1, <3>2, <4>1 DEF Served, InHand
    <3> QED BY <2>2, <3>1, <3>2 DEF InHand, Served
  <2>3. ASSUME call.pc # "none", ~ClientReady, NEW s \in call.pending, s \notin Others
        PROVE  Served(s, "call")
    <3>1. call \in Calls /\ s \in Servers
      BY <2>3 DEF IInv, TypeOK, Calls, All
    <3>2. answers[s] = None
      BY <2>3, <3>1 DEF Calls, ClientReady, Arrived
    <3> QED BY <2>2, <3>1, <3>2 DEF AskedInv, AskedAt
  <2>4. call.pc # "none" /\ ~ClientReady => call.pending # {}
    BY DEF IInv, TypeOK, Calls, ClientReady, AskedInv
  <2>5. ASSUME NEW s \in Servers, polling[s] # 0 PROVE Served(s, "poll")
    BY <2>2, <2>5 DEF AskedInv, AskedAt
  <2> QED BY <2>1, <2>3, <2>4, <2>5 DEF NoVainWait
<1> QED BY <1>1, Safety, AskedInvariance, PTL
=============================================================================
