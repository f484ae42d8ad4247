----------------------------- MODULE RpcClient -----------------------------
(***************************************************************************)
(* The Python RPC client (rpc_client.py): calls that send one request to   *)
(* every server, the buffers that sort arriving messages by token, and the *)
(* waits with their timeouts.  Servers are as good as WriteService         *)
(* promises, in the role of whose clients they appear: each has this one.  *)
(*                                                                         *)
(* Time passes, in milliseconds, only while the client polls.  Timeouts    *)
(* are kept in units of 1 / Second ms, so that what the code subtracts, a  *)
(* time in seconds from a number of milliseconds, is an integer.           *)
(***************************************************************************)
EXTENDS Integers, Sequences, FiniteSets

CONSTANTS
    NumServers,  \* servers, numbered in the order of the client's dict
    Chunks,      \* chunks a server can be asked to write
    Timeouts,    \* timeouts of the calls in ms, or -1
    Second,      \* ms in a second
    Kinds,       \* bound: kinds of calls the user makes
    MaxCalls,    \* bound: calls that send requests
    MayRefuse,   \* may a server refuse to write a chunk?
    MayDie       \* may a server fall silent?

Servers == 1 .. NumServers
Tokens  == 1 .. NumServers * MaxCalls

ASSUME RpcClientAssumption ==
    /\ NumServers \in Nat \ {0}
    /\ Timeouts \subseteq {-1} \cup Nat
    /\ Second \in Nat \ {0}
    /\ Kinds \subseteq {"query", "async", "collect", "lists", "write"}
    /\ MaxCalls \in Nat
    /\ MayRefuse \in BOOLEAN /\ MayDie \in BOOLEAN

Writes == [client : Servers, token : Tokens, chunk : Chunks]

VARIABLES
    \* the client object
    token,     \* the last token used
    received,  \* token -> messages not yet handed to a caller
    \* the call in progress, or the last one
    call,      \* its kind, tokens (server -> token) and timeout
    pc,        \* where the client is
    wait,      \* wait_for_tokens(): tokens to do, timeout, time since t0
    gotAny,    \* _receive(): has the first loop received anything?
    left,      \* ms left of the blocking poll, -1 if it has no limit
    all,       \* wait_for_all_writes(): server, timeout, time since t0
    later,     \* tokens of calls made with wait=False
    \* what came of the calls
    got,       \* token -> messages handed to a caller
    timedOut,  \* has a wait of this call timed out?
    spent,     \* ms this call has waited, up to more than any timeout
    \* the servers and the sockets
    inbox,     \* server -> requests on their way
    wire,      \* server -> messages on their way back
    up,        \* servers that answer
    said,      \* token -> messages sent back, in order
    accepted, written, failed, announced, answered

serviceVars == <<accepted, written, failed, announced, answered>>
serverVars  == <<inbox, wire, up, said, serviceVars>>
clientVars  == <<token, received, call, pc, wait, gotAny, left, all, later, got,
                 timedOut, spent>>
vars == <<clientVars, serverVars>>

Service == INSTANCE WriteService WITH Clients <- Servers

Scaled(t) == IF t < 0 THEN -1 ELSE t * Second

NoWait == [todo |-> {}, timeout |-> -1, elapsed |-> 0]
NoAll  == [server |-> 0, timeout |-> -1, elapsed |-> 0]

Init ==
    /\ token = 0
    /\ received = [t \in Tokens |-> <<>>]
    /\ call = [kind |-> "none", tokens |-> [s \in Servers |-> 0], timeout |-> -1]
    /\ pc = "user"
    /\ wait = NoWait /\ gotAny = FALSE /\ left = -1 /\ all = NoAll /\ later = {}
    /\ got = [t \in Tokens |-> <<>>]
    /\ timedOut = FALSE /\ spent = 0
    /\ inbox = [s \in Servers |-> <<>>]
    /\ wire = [s \in Servers |-> <<>>]
    /\ up = Servers
    /\ said = [t \in Tokens |-> <<>>]
    /\ Service!Init

-----------------------------------------------------------------------------
(* The user's calls, each of all servers.                                  *)

StartWait(tokens, t) ==
    /\ wait' = [todo |-> tokens, timeout |-> t, elapsed |-> 0]
    /\ pc' = "scan"

SendToAll(kind, fn, t) ==
    /\ pc = "user"
    /\ kind \in Kinds
    /\ token + NumServers <= NumServers * MaxCalls
    /\ token' = token + NumServers
    /\ call' = [kind |-> kind, tokens |-> [s \in Servers |-> token + s],
                timeout |-> t]
    /\ inbox' = [s \in Servers |->
                   Append(inbox[s], [fn |-> fn, token |-> token + s])]
    /\ timedOut' = FALSE /\ spent' = 0 /\ all' = NoAll
    /\ UNCHANGED <<received, gotAny, left, got, wire, up, said, serviceVars>>

NewTokens == {token + s : s \in Servers}

\* get_statistics() and all the others that get one reply from each server.
Query(t) ==
    /\ SendToAll("query", "get", t)
    /\ StartWait(NewTokens, Scaled(t))
    /\ UNCHANGED later

\* The same with wait=False: the caller keeps the tokens ...
Async ==
    /\ SendToAll("async", "get", -1)
    /\ later' = later \cup NewTokens
    /\ UNCHANGED <<pc, wait>>

\* ... and calls wait_for_tokens() with them when it likes.
Collect(t) ==
    /\ pc = "user"
    /\ "collect" \in Kinds
    /\ later # {}
    /\ call' = [kind |-> "collect", tokens |-> [s \in Servers |-> 0],
                timeout |-> t]
    /\ StartWait(later, Scaled(t))
    /\ later' = {}
    /\ timedOut' = FALSE /\ spent' = 0 /\ all' = NoAll
    /\ UNCHANGED <<token, received, gotAny, left, got, serverVars>>

\* write_chunks(), with waitAll=True or ("lists") without.
WriteChunks(kind, t) ==
    /\ SendToAll(kind, "write_chunks", t)
    /\ StartWait(NewTokens, Scaled(t))
    /\ UNCHANGED later

\* The user makes no call.
Idle == pc = "user" /\ UNCHANGED vars

User ==
    \/ Idle
    \/ \E t \in Timeouts :
         \/ Query(t) \/ Collect(t)
         \/ \E kind \in {"lists", "write"} : WriteChunks(kind, t)
    \/ Async

-----------------------------------------------------------------------------
(* wait_for_tokens() and _receive().                                       *)

\* (mutant) None is taken for an answer
ScanTakesNone ==
    /\ pc = "scan"
    /\ got' = [t \in Tokens |->
                 IF t \notin wait.todo THEN got[t]
                 ELSE Append(got[t], IF received[t] = <<>> THEN [kind |-> "none"]
                                                         ELSE Head(received[t]))]
    /\ received' = [t \in Tokens |->
                      IF t \in wait.todo /\ received[t] # <<>>
                      THEN Tail(received[t]) ELSE received[t]]
    /\ wait' = [wait EXCEPT !.todo = {}]
    /\ pc' = "waited"
    /\ gotAny' = FALSE
    /\ UNCHANGED <<token, call, left, all, later, timedOut, spent, serverVars>>

\* (mutant) pop() for pop(0)
ScanTakesLast ==
    /\ pc = "scan"
    /\ LET done == {t \in wait.todo : received[t] # <<>>}
       IN  /\ got' = [t \in Tokens |->
                        IF t \in done
                        THEN Append(got[t], received[t][Len(received[t])])
                        ELSE got[t]]
           /\ received' = [t \in Tokens |->
                 IF t \in done
                 THEN SubSeq(received[t], 1, Len(received[t]) - 1)
                 ELSE received[t]]
           /\ wait' = [wait EXCEPT !.todo = @ \ done]
           /\ pc' = IF wait.todo = done THEN "waited" ELSE "drain"
    /\ gotAny' = FALSE
    /\ UNCHANGED <<token, call, left, all, later, timedOut, spent, serverVars>>

\* One round of the outer loop: _pop_token() for every token still to do.
Scan ==
    /\ pc = "scan"
    /\ LET done == {t \in wait.todo : received[t] # <<>>}
       IN  /\ got' = [t \in Tokens |->
                        IF t \in done THEN Append(got[t], Head(received[t]))
                                      ELSE got[t]]
           /\ received' = [t \in Tokens |->
                             IF t \in done THEN Tail(received[t])
                                           ELSE received[t]]
           /\ wait' = [wait EXCEPT !.todo = @ \ done]
           /\ pc' = IF wait.todo = done THEN "waited" ELSE "drain"
    /\ gotAny' = FALSE
    /\ UNCHANGED <<token, call, left, all, later, timedOut, spent, serverVars>>

Readable == {s \in Servers : wire[s] # <<>>}

\* (mutant) a message replaces the one that is there for its token
TakeOneFromEachReplaces ==
    /\ received' = [t \in Tokens |->
         IF \E s \in Readable : Head(wire[s]).token = t
         THEN <<Head(wire[CHOOSE s \in Readable : Head(wire[s]).token = t])>>
         ELSE received[t]]
    /\ wire' = [s \in Servers |-> IF s \in Readable THEN Tail(wire[s]) ELSE <<>>]

\* One poll() and the reads after it: a message from each readable socket goes
\* to the buffer of its token.
TakeOneFromEach ==
    /\ received' = [t \in Tokens |->
         IF \E s \in Readable : Head(wire[s]).token = t
         THEN Append(received[t],
                     Head(wire[CHOOSE s \in Readable : Head(wire[s]).token = t]))
         ELSE received[t]]
    /\ wire' = [s \in Servers |-> IF s \in Readable THEN Tail(wire[s]) ELSE <<>>]

\* timeout = max(0, t0 + timeout - tnow); t0 = tnow
Adjust(w) ==
    [w EXCEPT !.timeout = IF @ <= w.elapsed /\ @ > 0 THEN 0
                          ELSE IF @ > 0 THEN @ - w.elapsed ELSE @,
              !.elapsed = 0]

\* The first loop, which does not block.
Drain ==
    /\ pc = "drain"
    /\ Readable # {}
    /\ TakeOneFromEach
    /\ gotAny' = TRUE
    /\ UNCHANGED <<token, call, pc, wait, left, all, later, got, timedOut, spent,
                   inbox, up, said, serviceVars>>

Drained ==
    /\ pc = "drain"
    /\ Readable = {}
    /\ \/ gotAny /\ pc' = "scan" /\ wait' = Adjust(wait) /\ UNCHANGED left
       \/ ~gotAny /\ wait.timeout = 0 /\ pc' = "waited" /\ UNCHANGED <<wait, left>>
       \/ /\ ~gotAny /\ wait.timeout # 0
          /\ pc' = "poll"
          /\ left' = IF wait.timeout < 0 THEN -1 ELSE wait.timeout \div Second
          /\ UNCHANGED wait
    /\ UNCHANGED <<token, received, call, gotAny, all, later, got, timedOut,
                   spent, serverVars>>

PollWakes ==
    /\ pc = "poll"
    /\ Readable # {}
    /\ TakeOneFromEach
    /\ wait' = Adjust(wait)
    /\ pc' = "scan"
    /\ UNCHANGED <<token, call, gotAny, left, all, later, got, timedOut, spent,
                   inbox, up, said, serviceVars>>

\* A millisecond of polling: poll() returns at once when there is a message.
Tick ==
    /\ pc = "poll"
    /\ Readable = {}
    /\ left > 0
    /\ left' = left - 1
    /\ wait' = [wait EXCEPT !.elapsed = @ + 1]
    /\ all' = [all EXCEPT !.elapsed = IF all.server = 0 THEN 0 ELSE @ + 1]
    /\ spent' = IF spent > call.timeout THEN spent ELSE spent + 1
    /\ UNCHANGED <<token, received, call, pc, gotAny, later, got, timedOut,
                   serverVars>>

PollExpires ==
    /\ pc = "poll"
    /\ Readable = {}
    /\ left = 0
    /\ pc' = "waited"
    /\ UNCHANGED <<token, received, call, wait, gotAny, left, all, later, got,
                   timedOut, spent, serverVars>>

-----------------------------------------------------------------------------
(* wait_for_all_writes().                                                  *)

\* (mutant) no break after a timeout
WaitedNoBreak ==
    /\ pc = "waited"
    /\ timedOut' = (timedOut \/ wait.todo # {})
    /\ IF all.server > 0
       THEN all' = Adjust(all) /\ pc' = "writes"
       ELSE IF call.kind = "write"
       THEN all' = [server |-> 1, timeout |-> Scaled(call.timeout), elapsed |-> 0]
            /\ pc' = "writes"
       ELSE UNCHANGED all /\ pc' = "user"
    /\ wait' = NoWait /\ left' = -1 /\ gotAny' = FALSE
    /\ UNCHANGED <<token, received, call, later, got, spent, serverVars>>

\* wait_for_tokens() returns: to the user, to write_chunks(), or to the loop of
\* wait_for_all_writes(), which goes on to the next server if it has timed out.
Waited ==
    /\ pc = "waited"
    /\ timedOut' = (timedOut \/ wait.todo # {})
    /\ \/ /\ all.server > 0
          /\ all' = [Adjust(all) EXCEPT
                       !.server = IF wait.todo # {} THEN @ + 1 ELSE @]
          /\ pc' = "writes"
       \/ /\ all.server = 0 /\ call.kind = "write"
          /\ all' = [server |-> 1, timeout |-> Scaled(call.timeout), elapsed |-> 0]
          /\ pc' = "writes"
       \/ /\ all.server = 0 /\ call.kind # "write"
          /\ pc' = "user"
          /\ UNCHANGED all
    /\ wait' = NoWait /\ left' = -1 /\ gotAny' = FALSE
    /\ UNCHANGED <<token, received, call, later, got, spent, serverVars>>

\* (mutant) the initial list is counted as a reply
RepliesExpectedShort(t) ==
    Cardinality(got[t][1].chunks) + got[t][1].refused - 1

\* N = len(chunklist)
RepliesExpected(t) == Cardinality(got[t][1].chunks) + got[t][1].refused

\* The heads of the two loops, over the servers and over the replies of one.
NextWrite ==
    /\ pc = "writes"
    /\ \/ /\ all.server > NumServers
          /\ pc' = "user"
          /\ UNCHANGED <<all, wait>>
       \/ /\ all.server <= NumServers
          /\ LET t == call.tokens[all.server] IN
               IF got[t] = <<>> \/ Len(got[t]) - 1 >= RepliesExpected(t)
               THEN /\ all' = [all EXCEPT !.server = @ + 1]
                    /\ UNCHANGED <<pc, wait>>
               ELSE StartWait({t}, all.timeout) /\ UNCHANGED all
    /\ UNCHANGED <<token, received, call, gotAny, left, later, got, timedOut,
                   spent, serverVars>>

Client ==
    \/ Scan \/ Drain \/ Drained \/ PollWakes \/ Tick \/ PollExpires
    \/ Waited \/ NextWrite

-----------------------------------------------------------------------------
(* The servers.                                                            *)

\* Server s sends a message back.
Say(s, m) ==
    /\ wire' = [wire EXCEPT ![s] = Append(@, m)]
    /\ said' = [said EXCEPT ![m.token] = Append(@, m)]

Asked(s, fn) == s \in up /\ inbox[s] # <<>> /\ Head(inbox[s]).fn = fn

ServerAnswers(s) ==
    /\ Asked(s, "get")
    /\ Say(s, [kind |-> "value", server |-> s, token |-> Head(inbox[s]).token])
    /\ inbox' = [inbox EXCEPT ![s] = Tail(@)]
    /\ UNCHANGED <<clientVars, up, serviceVars>>

ServerAccepts(s, k) ==
    /\ Asked(s, "write_chunks")
    /\ Service!Accept([client |-> s, token |-> Head(inbox[s]).token, chunk |-> k])
    /\ UNCHANGED <<clientVars, inbox, wire, up, said>>

ServerAnnounces(s) ==
    /\ Asked(s, "write_chunks")
    /\ LET t == Head(inbox[s]).token IN
         /\ Service!Announce(s, t)
         /\ \E n \in IF MayRefuse THEN 0 .. 1 ELSE {0} :
              Say(s, [kind |-> "list", server |-> s, token |-> t, refused |-> n,
                      chunks |-> {w.chunk : w \in
                                    {v \in accepted : v.client = s /\ v.token = t}}])
    /\ inbox' = [inbox EXCEPT ![s] = Tail(@)]
    /\ UNCHANGED <<clientVars, up>>

ServerFinishes(w) ==
    /\ w.client \in up
    /\ Service!Finish(w)
    /\ UNCHANGED <<clientVars, inbox, wire, up, said>>

ServerReports(w) ==
    /\ w.client \in up
    /\ Service!Answer(w)
    /\ Say(w.client, [kind |-> "chunk", server |-> w.client, token |-> w.token,
                      chunk |-> w.chunk, success |-> w \in written])
    /\ UNCHANGED <<clientVars, inbox, up>>

ServerDies(s) ==
    /\ MayDie
    /\ s \in up
    /\ up' = up \ {s}
    /\ UNCHANGED <<clientVars, inbox, wire, said, serviceVars>>

-----------------------------------------------------------------------------

Next ==
    \/ User \/ Client
    \/ \E s \in Servers :
         \/ ServerAnswers(s) \/ ServerAnnounces(s) \/ ServerDies(s)
         \/ \E k \in Chunks : ServerAccepts(s, k)
    \/ \E w \in Writes : ServerFinishes(w) \/ ServerReports(w)

\* The client runs and time passes.  Servers that are up answer every request
\* and finish and report every write.
Fairness ==
    /\ WF_vars(Client)
    /\ \A s \in Servers : WF_vars(ServerAnswers(s) \/ ServerAnnounces(s))
    /\ \A w \in Writes : WF_vars(ServerFinishes(w)) /\ WF_vars(ServerReports(w))

Spec     == Init /\ [][Next]_vars
FairSpec == Spec /\ Fairness

-----------------------------------------------------------------------------
(* Properties.                                                             *)

Messages ==
         [kind : {"value"}, server : Servers, token : Tokens]
    \cup [kind : {"list"}, server : Servers, token : Tokens, refused : 0 .. 1,
          chunks : SUBSET Chunks]
    \cup [kind : {"chunk"}, server : Servers, token : Tokens, chunk : Chunks,
          success : BOOLEAN]

Calls == [kind : Kinds \cup {"none"}, tokens : [Servers -> {0} \cup Tokens],
          timeout : {-1} \cup Timeouts]

Limits == {-1} \cup Nat

TypeOK ==
    /\ token \in 0 .. NumServers * MaxCalls
    /\ received \in [Tokens -> Seq(Messages)]
    /\ call \in Calls
    /\ pc \in {"user", "scan", "drain", "poll", "waited", "writes"}
    /\ wait \in [todo : SUBSET Tokens, timeout : Limits, elapsed : Nat]
    /\ gotAny \in BOOLEAN
    /\ left \in Limits
    /\ all \in [server : Nat, timeout : Limits, elapsed : Nat]
    /\ later \subseteq Tokens
    /\ got \in [Tokens -> Seq(Messages)]
    /\ timedOut \in BOOLEAN /\ spent \in Nat
    /\ inbox \in [Servers -> Seq([fn : {"get", "write_chunks"}, token : Tokens])]
    /\ wire \in [Servers -> Seq(Messages)]
    /\ up \subseteq Servers
    /\ said \in [Tokens -> Seq(Messages)]
    /\ accepted \subseteq Writes

\* The server a token was sent to.
ServerOf(t) == ((t - 1) % NumServers) + 1

\* Whatever has been waited for, timed out, or left for later: for each token
\* the caller gets what its server has said, in that order, and the rest is in
\* the buffer or on its way (rpc_client.py:549-616).
NothingLost ==
    \A t \in Tokens :
        LET have == got[t] \o received[t]
            way  == wire[ServerOf(t)]
        IN  /\ Len(have) <= Len(said[t])
            /\ \A n \in DOMAIN have : have[n] = said[t][n]
            /\ \A n \in Len(have) + 1 .. Len(said[t]) :
                  \E k \in DOMAIN way : way[k] = said[t][n]
            /\ \A k \in DOMAIN way : way[k].token = t =>
                  \E n \in Len(have) + 1 .. Len(said[t]) : way[k] = said[t][n]
            /\ \A j, k \in DOMAIN way, m, n \in DOMAIN said[t] :
                  way[j] = said[t][m] /\ way[k] = said[t][n] => (j < k <=> m < n)

\* A call is answered by the servers it asked: an answer comes from the server
\* its token was sent to, and only the first message of a write_chunks call is
\* taken for its list (rpc_client.py:388-391, 419-436).
OwnAnswers ==
    \A t \in Tokens : \A n \in DOMAIN got[t] :
        /\ got[t][n].token = t
        /\ got[t][n].server = ServerOf(t)
        /\ got[t][n].kind = "chunk" <=> n > 1

\* write_chunks(waitAll=True) that has not timed out has waited for the end of
\* every write the servers have accepted for it, and tells how each one ended.
WaitAllWaits ==
    pc = "user" /\ call.kind = "write" /\ ~timedOut =>
        \A w \in accepted :
            w.token = call.tokens[w.client] =>
                /\ w \in written \cup failed
                /\ \E n \in DOMAIN got[w.token] :
                     LET m == got[w.token][n] IN
                     m.kind = "chunk" /\ m.chunk = w.chunk
                                      /\ m.success = (w \in written)

\* A call that waits for all its answers, and has not timed out, leaves none
\* behind that a later call could come across, in the buffer or on its way
\* (rpc_client.py:384-440, 549-616).
NothingLeftOver ==
    pc = "user" /\ call.kind \in {"query", "write"} /\ ~timedOut =>
        \A s \in Servers :
            /\ received[call.tokens[s]] = <<>>
            /\ \A k \in DOMAIN wire[s] : wire[s][k].token # call.tokens[s]

\* A call with a timeout comes back whatever the servers do, one without if
\* the servers stay up and refuse nothing.
CallReturns ==
    pc # "user" ~>
        \/ pc = "user"
        \/ call.timeout = -1 /\ up # Servers
        \/ call.timeout = -1 /\ \E t \in Tokens : \E n \in DOMAIN said[t] :
                said[t][n].kind = "list" /\ said[t][n].refused > 0

-----------------------------------------------------------------------------
(* What the documentation says and the code does not do.                   *)

\* webapp/webapp.py:657 ("Timeouts are in *milliseconds*") and rpc_client.py:573: a
\* call that waits for answers does so for its timeout at most.  What is left
\* of it after a message is computed in seconds (rpc_client.py:659-663).
TimeoutHolds ==
    call.kind \in {"query", "collect"} /\ call.timeout >= 0 =>
        spent <= call.timeout
=============================================================================
