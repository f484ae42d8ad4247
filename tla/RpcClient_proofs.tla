-------------------------- MODULE RpcClient_proofs --------------------------
(***************************************************************************)
(* The safety properties of RpcClient, for any number of servers and calls, *)
(* any chunks and timeouts.  The inductive invariant follows a message from *)
(* the queue of requests to the caller (InboxInv, SaidInv, LostInv) and a   *)
(* call from its requests to its return (CallInv, WaitInv); counting does   *)
(* the rest: no server says more of a call than it lists, and the client    *)
(* waits for as many messages (RepliesInjective, DoneHasAll).  PollInv      *)
(* shows that a poll is not in vain, and the last section that the servers  *)
(* of the client are those of WriteService.                                 *)
(***************************************************************************)
EXTENDS RpcClient, FiniteSetTheorems, FunctionTheorems, SequenceTheorems, TLAPS

\* The chunks whose writes server s has accepted for a request.
ChunksOf(s, t) == {w.chunk : w \in {v \in accepted : v.client = s /\ v.token = t}}

\* The next tokens go to the servers in their order.
NextTokenInv == \A s \in Servers : ServerOf(token + s) = s

\* A request has been sent to the server of its token, and not been answered.
InboxAt(s) ==
    \A k \in DOMAIN inbox[s] :
        LET t == inbox[s][k].token IN
        /\ ServerOf(t) = s /\ t <= token
        /\ said[t] = <<>>
        /\ ~Service!Announced(s, t)
        /\ \A j \in DOMAIN inbox[s] : inbox[s][j].token = t => j = k

InboxInv == \A s \in Servers : InboxAt(s)

\* Nothing has been said of a token that has not been used.
FreshInv ==
    \A t \in Tokens : t > token =>
        said[t] = <<>> /\ \A s \in Servers : ~Service!Announced(s, t)

\* What the service has done, and said.
ServiceInv ==
    /\ IsFiniteSet(accepted)
    /\ written \cup failed \subseteq accepted
    /\ \A s \in Servers, t \in Tokens :
        Service!Announced(s, t) => said[t] # <<>> /\ ServerOf(t) = s

\* Of a token its server says a value, or a list and then one message for each
\* chunk in the list, once its write has ended.
SaidAt(t) ==
    \A n \in DOMAIN said[t] :
        LET m == said[t][n]
            s == ServerOf(t)
        IN
        /\ m.token = t /\ m.server = s
        /\ m.kind = "chunk" <=> n > 1
        /\ m.kind = "value" => ~Service!Announced(s, t)
        /\ m.kind = "list" => Service!Announced(s, t) /\ m.chunks = ChunksOf(s, t)
        /\ m.kind = "chunk" =>
             /\ Service!Announced(s, t)
             /\ LET w == [client |-> s, token |-> t, chunk |-> m.chunk] IN
                  /\ w \in written \cup failed
                  /\ m.success = (w \in written)
                  /\ \E a \in answered : a[1] = w
             /\ \A k \in DOMAIN said[t] :
                  said[t][k].kind = "chunk" /\ said[t][k].chunk = m.chunk => k = n

SaidInv == \A t \in Tokens : SaidAt(t)

\* What has been said of token t, d, was handed over, g, then is in the buffer,
\* r, and then on its way, q, among other messages but in the same order.
Passes(g, r, q, d, t) ==
    /\ Len(g) + Len(r) <= Len(d)
    /\ \A n \in 1 .. Len(g) : g[n] = d[n]
    /\ \A n \in 1 .. Len(r) : r[n] = d[Len(g) + n]
    /\ \A n \in Len(g) + Len(r) + 1 .. Len(d) : \E k \in 1 .. Len(q) : q[k] = d[n]
    /\ \A k \in 1 .. Len(q) : q[k].token = t =>
         \E n \in Len(g) + Len(r) + 1 .. Len(d) : q[k] = d[n]
    /\ \A j, k \in 1 .. Len(q), m, n \in 1 .. Len(d) :
         (q[j] = d[m] /\ q[k] = d[n]) => (j < k <=> m < n)

LostAt(t) == Passes(got[t], received[t], wire[ServerOf(t)], said[t], t)

LostInv ==
    /\ \A t \in Tokens : LostAt(t)
    /\ \A s \in Servers : \A k \in DOMAIN wire[s] : ServerOf(wire[s][k].token) = s

Asks == IF call.kind \in {"query", "async"} THEN "get" ELSE "write_chunks"
Gets == IF call.kind \in {"query", "async"} THEN "value" ELSE "list"

\* The tokens of the call, which its servers answer as the caller expects.
CallInv ==
    call.kind \in {"query", "async", "lists", "write"} =>
        \A s \in Servers :
            LET t == call.tokens[s] IN
            /\ t \in Tokens /\ ServerOf(t) = s /\ t <= token
            /\ \A k \in DOMAIN inbox[s] : inbox[s][k].token = t => inbox[s][k].fn = Asks
            /\ said[t] # <<>> => said[t][1].kind = Gets

Done(s) ==
    LET t == call.tokens[s] IN
    got[t] # <<>> /\ Len(got[t]) - 1 >= RepliesExpected(t)

\* Where a call is, and what it has got by then.
WaitInv ==
    /\ call.kind \in {"query", "write"} /\ all.server = 0
         /\ pc \in {"scan", "drain", "poll", "waited"} =>
           \A s \in Servers : call.tokens[s] \in wait.todo \/ got[call.tokens[s]] # <<>>
    /\ call.kind = "query" /\ pc = "user" /\ ~timedOut =>
         \A s \in Servers : got[call.tokens[s]] # <<>>
    /\ pc = "writes" => all.server > 0
    /\ all.server > 0 => call.kind = "write"
    /\ call.kind = "write" /\ pc = "user" => all.server > NumServers
    /\ all.server > 0 /\ ~timedOut =>
         /\ \A s \in Servers : got[call.tokens[s]] # <<>>
         /\ \A s \in Servers : s < all.server => Done(s)

IInv ==
    /\ TypeOK /\ NextTokenInv /\ InboxInv /\ FreshInv /\ ServiceInv /\ SaidInv
    /\ LostInv /\ CallInv /\ WaitInv

-----------------------------------------------------------------------------
(* Arithmetic.                                                             *)

LEMMA Remainder ==
    ASSUME NEW a \in Nat, NEW n \in Nat, n > 0
    PROVE  a % n \in 0 .. n - 1
  BY SMT

LEMMA SmallMultiple ==
    ASSUME NEW d \in Int, NEW n \in Nat, n > 0, d * n < n, -n < d * n
    PROVE  d = 0
<1>1. d >= 1 => d * n >= n
  BY SMT
<1>2. d <= -1 => d * n <= -n
  BY SMT
<1> QED BY <1>1, <1>2

LEMMA RemainderShift ==
    ASSUME NEW a \in Nat, NEW n \in Nat, n > 0
    PROVE  (a + n) % n = a % n
<1> DEFINE q == a \div n
           r == a % n
           q2 == (a + n) \div n
           r2 == (a + n) % n
<1>1. q \in Int /\ r \in 0 .. n - 1 /\ a = q * n + r
  BY SMT
<1>2. q2 \in Int /\ r2 \in 0 .. n - 1 /\ a + n = q2 * n + r2
  BY SMT
<1> HIDE DEF q, r, q2, r2
<1>3. (q + 1 - q2) * n = q * n + n - q2 * n
  BY <1>1, <1>2, SMT
<1>4. q + 1 - q2 = 0
  <2>1. (q + 1 - q2) * n < n /\ -n < (q + 1 - q2) * n
    <3>1. q * n \in Int /\ q2 * n \in Int
      BY <1>1, <1>2, SMT
    <3> QED BY <1>1, <1>2, <1>3, <3>1
  <2> QED BY <1>1, <1>2, <2>1, SmallMultiple
<1>5. q2 = q + 1
  BY <1>1, <1>2, <1>4
<1>6. q2 * n = q * n + n
  BY <1>1, <1>5, SMT
<1>7. r2 = r
  <2>1. q * n \in Int
    BY <1>1, SMT
  <2> QED BY <1>1, <1>2, <1>6, <2>1
<1> QED BY <1>7 DEF r, r2

LEMMA Quotient ==
    ASSUME NEW a \in Nat, NEW n \in Nat, n > 0
    PROVE  a \div n \in Nat
  BY SMT

LEMMA Product ==
    ASSUME NEW a \in Nat, NEW n \in Nat
    PROVE  a * n \in Nat
  BY SMT

LEMMA RemainderSmall ==
    ASSUME NEW a \in Nat, NEW n \in Nat, a < n
    PROVE  a % n = a
  BY SMT

LEMMA Above ==
    ASSUME NEW a \in Nat, NEW b \in Nat, NEW c \in Nat, NEW n \in a + b + 1 .. c
    PROVE  n \in 1 .. c
  OBVIOUS

LEMMA AtMost ==
    ASSUME NEW a \in Nat, NEW b \in Nat, NEW c \in Nat, a + b <= c
    PROVE  a <= c
  OBVIOUS

LEMMA NoneLeft ==
    ASSUME NEW a \in Nat, NEW b \in Nat, a + b <= a
    PROVE  b = 0
  OBVIOUS

LEMMA ServerOfToken == ASSUME NEW t \in Tokens PROVE ServerOf(t) \in Servers
<1>1. t - 1 \in Nat /\ NumServers \in Nat /\ NumServers > 0
  BY RpcClientAssumption DEF Tokens
<1>2. (t - 1) % NumServers \in 0 .. NumServers - 1
  BY <1>1, Remainder
<1> QED BY <1>1, <1>2 DEF ServerOf, Servers

\* The tokens of a call follow the last one used.
LEMMA CallTokens ==
    ASSUME TypeOK, token + NumServers <= NumServers * MaxCalls, NEW s \in Servers
    PROVE  token + s \in Tokens /\ token + s > token /\ token + s <= token + NumServers
<1>1. NumServers \in Nat /\ NumServers * MaxCalls \in Nat /\ token \in Nat
  BY RpcClientAssumption, Product DEF TypeOK
<1> QED BY <1>1 DEF Tokens, Servers

-----------------------------------------------------------------------------
(* Types.                                                                  *)

LEMMA Types ==
    ASSUME TypeOK
    PROVE  /\ \A t \in Tokens : /\ got[t] \in Seq(Messages) /\ received[t] \in Seq(Messages)
                               /\ said[t] \in Seq(Messages)
           /\ \A s \in Servers : /\ wire[s] \in Seq(Messages)
                                /\ inbox[s] \in Seq([fn : {"get", "write_chunks"}, token : Tokens])
  BY DEF TypeOK

\* The message at the front of a queue, and what is behind it.
LEMMA FrontType ==
    ASSUME NEW S, NEW q \in Seq(S), q # <<>>
    PROVE  /\ Head(q) \in S /\ Head(q) = q[1] /\ Tail(q) \in Seq(S)
           /\ Len(q) \in Nat /\ Len(q) >= 1
           /\ Len(Tail(q)) = Len(q) - 1
           /\ \A k \in 1 .. Len(q) - 1 : Tail(q)[k] = q[k + 1]
           /\ DOMAIN q = 1 .. Len(q) /\ DOMAIN Tail(q) = 1 .. Len(q) - 1
<1>1. Len(q) \in Nat \ {0}
  BY EmptySeq
<1>2. Tail(q) \in Seq(S) /\ Len(Tail(q)) = Len(q) - 1
  BY HeadTailProperties
<1> QED BY <1>1, <1>2, HeadTailProperties, LenProperties

LEMMA BackType ==
    ASSUME NEW S, NEW q \in Seq(S), NEW m \in S
    PROVE  /\ Append(q, m) \in Seq(S) /\ Len(Append(q, m)) = Len(q) + 1 /\ Len(q) \in Nat
           /\ DOMAIN Append(q, m) = 1 .. Len(q) + 1 /\ DOMAIN q = 1 .. Len(q)
           /\ Append(q, m)[Len(q) + 1] = m
           /\ \A k \in 1 .. Len(q) : Append(q, m)[k] = q[k]
<1>1. Append(q, m) \in Seq(S) /\ Len(Append(q, m)) = Len(q) + 1
  BY AppendProperties
<1> QED BY <1>1, AppendProperties, LenProperties

LEMMA FrontRequest ==
    ASSUME TypeOK, NEW s \in Servers, inbox[s] # <<>>
    PROVE  /\ Head(inbox[s]).token \in Tokens /\ Head(inbox[s]) = inbox[s][1]
           /\ Tail(inbox[s]) \in Seq([fn : {"get", "write_chunks"}, token : Tokens])
           /\ Len(inbox[s]) \in Nat /\ Len(inbox[s]) >= 1
           /\ \A k \in 1 .. Len(inbox[s]) - 1 : Tail(inbox[s])[k] = inbox[s][k + 1]
           /\ DOMAIN inbox[s] = 1 .. Len(inbox[s])
           /\ DOMAIN Tail(inbox[s]) = 1 .. Len(inbox[s]) - 1
<1> DEFINE R == [fn : {"get", "write_chunks"}, token : Tokens]
<1>1. inbox[s] \in Seq(R)
  BY Types
<1>2. Head(inbox[s]) \in R => Head(inbox[s]).token \in Tokens
  OBVIOUS
<1> HIDE DEF R
<1>3. /\ Head(inbox[s]) \in R /\ Head(inbox[s]) = inbox[s][1]
      /\ Tail(inbox[s]) \in Seq(R)
      /\ Len(inbox[s]) \in Nat /\ Len(inbox[s]) >= 1
      /\ \A k \in 1 .. Len(inbox[s]) - 1 : Tail(inbox[s])[k] = inbox[s][k + 1]
      /\ DOMAIN inbox[s] = 1 .. Len(inbox[s])
      /\ DOMAIN Tail(inbox[s]) = 1 .. Len(inbox[s]) - 1
  BY <1>1, FrontType
<1> QED BY <1>2, <1>3 DEF R

LEMMA TakenType ==
    ASSUME TypeOK, TakeOneFromEach
    PROVE  received' \in [Tokens -> Seq(Messages)] /\ wire' \in [Servers -> Seq(Messages)]
<1>1. ASSUME NEW s \in Readable
      PROVE  Head(wire[s]) \in Messages /\ Tail(wire[s]) \in Seq(Messages)
  BY Types, FrontType DEF Readable
<1>2. wire' \in [Servers -> Seq(Messages)]
  BY <1>1 DEF TakeOneFromEach
<1>3. ASSUME NEW t \in Tokens
      PROVE  (IF \E s \in Readable : Head(wire[s]).token = t
              THEN Append(received[t],
                          Head(wire[CHOOSE s \in Readable : Head(wire[s]).token = t]))
              ELSE received[t]) \in Seq(Messages)
  <2>1. received[t] \in Seq(Messages)
    BY Types
  <2>2. CASE \E s \in Readable : Head(wire[s]).token = t
    <3>1. (CHOOSE s \in Readable : Head(wire[s]).token = t) \in Readable
      BY <2>2
    <3>2. Head(wire[CHOOSE s \in Readable : Head(wire[s]).token = t]) \in Messages
      BY <1>1, <3>1
    <3> QED BY <2>1, <2>2, <3>2, BackType
  <2> QED BY <2>1, <2>2
<1> QED BY <1>2, <1>3 DEF TakeOneFromEach

LEMMA AdjustType ==
    ASSUME NEW w, w.timeout \in Limits, w.elapsed \in Nat
    PROVE  LET t == IF w.timeout <= w.elapsed /\ w.timeout > 0 THEN 0
                    ELSE IF w.timeout > 0 THEN w.timeout - w.elapsed ELSE w.timeout
           IN  t \in Limits /\ Adjust(w) = [w EXCEPT !.timeout = t, !.elapsed = 0]
  BY DEF Adjust, Limits

LEMMA AdjustWaitType ==
    ASSUME TypeOK
    PROVE  /\ Adjust(wait) \in [todo : SUBSET Tokens, timeout : Limits, elapsed : Nat]
           /\ Adjust(wait).todo = wait.todo
<1>1. wait \in [todo : SUBSET Tokens, timeout : Limits, elapsed : Nat]
  BY DEF TypeOK
<1>2. PICK t \in Limits : Adjust(wait) = [wait EXCEPT !.timeout = t, !.elapsed = 0]
  BY <1>1, AdjustType
<1>3. PICK v \in [todo : SUBSET Tokens, timeout : Limits, elapsed : Nat] :
        v = [wait EXCEPT !.timeout = t]
  BY <1>1
<1>4. [v EXCEPT !.elapsed = 0] \in [todo : SUBSET Tokens, timeout : Limits, elapsed : Nat]
  BY <1>3
<1>5. Adjust(wait) = [v EXCEPT !.elapsed = 0]
  BY <1>1, <1>2, <1>3
<1>6. Adjust(wait).todo = wait.todo
  BY <1>1, <1>2
<1> QED BY <1>4, <1>5, <1>6

LEMMA AdjustAllType ==
    ASSUME TypeOK
    PROVE  /\ Adjust(all) \in [server : Nat, timeout : Limits, elapsed : Nat]
           /\ Adjust(all).server = all.server
<1>1. all \in [server : Nat, timeout : Limits, elapsed : Nat]
  BY DEF TypeOK
<1>2. PICK t \in Limits : Adjust(all) = [all EXCEPT !.timeout = t, !.elapsed = 0]
  BY <1>1, AdjustType
<1>3. PICK v \in [server : Nat, timeout : Limits, elapsed : Nat] :
        v = [all EXCEPT !.timeout = t]
  BY <1>1
<1>4. [v EXCEPT !.elapsed = 0] \in [server : Nat, timeout : Limits, elapsed : Nat]
  BY <1>3
<1>5. Adjust(all) = [v EXCEPT !.elapsed = 0]
  BY <1>1, <1>2, <1>3
<1>6. Adjust(all).server = all.server
  BY <1>1, <1>2
<1> QED BY <1>4, <1>5, <1>6

LEMMA ScaledType == ASSUME NEW t \in {-1} \cup Timeouts PROVE Scaled(t) \in Limits
<1>1. t \in {-1} \cup Nat /\ Second \in Nat
  BY RpcClientAssumption
<1>2. t < 0 \/ t \in Nat
  BY <1>1
<1> QED BY <1>1, <1>2, Product DEF Scaled, Limits

LEMMA ChunksType ==
    ASSUME TypeOK, NEW s, NEW t
    PROVE  ChunksOf(s, t) \in SUBSET Chunks
<1>1. accepted \subseteq Writes
  BY DEF TypeOK
<1>2. \A w \in Writes : w.chunk \in Chunks
  BY DEF Writes
<1> QED BY <1>1, <1>2 DEF ChunksOf

LEMMA NoAllType == NoAll \in [server : Nat, timeout : Limits, elapsed : Nat]
  BY RpcClientAssumption DEF NoAll, Limits

LEMMA NoWaitType == NoWait \in [todo : SUBSET Tokens, timeout : Limits, elapsed : Nat]
  BY DEF NoWait, Limits

LEMMA SendType ==
    ASSUME TypeOK, NEW kind, NEW fn \in {"get", "write_chunks"},
           NEW t \in {-1} \cup Timeouts, SendToAll(kind, fn, t)
    PROVE  /\ token' \in 0 .. NumServers * MaxCalls
           /\ call' \in Calls /\ NewTokens \subseteq Tokens
           /\ inbox' \in [Servers -> Seq([fn : {"get", "write_chunks"}, token : Tokens])]
           /\ all' \in [server : Nat, timeout : Limits, elapsed : Nat]
           /\ timedOut' \in BOOLEAN /\ spent' \in Nat
<1>1. \A s \in Servers : token + s \in Tokens
  BY CallTokens DEF SendToAll
<1>2. token' \in 0 .. NumServers * MaxCalls
  <2>1. NumServers \in Nat /\ NumServers * MaxCalls \in Nat /\ token \in Nat
    BY RpcClientAssumption, Product DEF TypeOK
  <2> QED BY <2>1 DEF SendToAll
<1>3. call' \in Calls
  BY <1>1 DEF SendToAll, Calls
<1>4. inbox' \in [Servers -> Seq([fn : {"get", "write_chunks"}, token : Tokens])]
  <2>1. ASSUME NEW s \in Servers
        PROVE  Append(inbox[s], [fn |-> fn, token |-> token + s])
                 \in Seq([fn : {"get", "write_chunks"}, token : Tokens])
    <3>1. [fn |-> fn, token |-> token + s] \in [fn : {"get", "write_chunks"}, token : Tokens]
      BY <1>1
    <3> QED BY <3>1, Types, BackType
  <2> QED BY <2>1 DEF SendToAll
<1> QED BY <1>1, <1>2, <1>3, <1>4, NoAllType DEF SendToAll, NewTokens

LEMMA SayType ==
    ASSUME TypeOK, NEW s \in Servers, NEW m \in Messages, Say(s, m)
    PROVE  /\ wire' \in [Servers -> Seq(Messages)] /\ said' \in [Tokens -> Seq(Messages)]
           /\ m.token \in Tokens
<1>1. m.token \in Tokens
  BY DEF Messages
<1>2. Append(wire[s], m) \in Seq(Messages) /\ Append(said[m.token], m) \in Seq(Messages)
  BY <1>1, Types, BackType
<1> QED BY <1>1, <1>2 DEF TypeOK, Say

-----------------------------------------------------------------------------
(* What a message does to the passage of those with its token, and of the   *)
(* others.                                                                 *)

LEMMA PassesSaid ==
    ASSUME NEW M, NEW g \in Seq(M), NEW r \in Seq(M), NEW q \in Seq(M),
           NEW d \in Seq(M), NEW m \in M, NEW t,
           Passes(g, r, q, d, t), m.token = t,
           \A n \in 1 .. Len(d) : d[n] # m,
           \A k \in 1 .. Len(q) : q[k] # m
    PROVE  Passes(g, r, Append(q, m), Append(d, m), t)
<1> DEFINE q2 == Append(q, m)
           d2 == Append(d, m)
<1>1. /\ Len(q) \in Nat /\ Len(q2) = Len(q) + 1 /\ q2[Len(q) + 1] = m
      /\ \A k \in 1 .. Len(q) : q2[k] = q[k]
  BY BackType
<1>2. /\ Len(d) \in Nat /\ Len(d2) = Len(d) + 1 /\ d2[Len(d) + 1] = m
      /\ \A k \in 1 .. Len(d) : d2[k] = d[k]
  BY BackType
<1>3. Len(g) \in Nat /\ Len(r) \in Nat
  BY LenProperties
<1> HIDE DEF q2, d2
<1>4. Len(g) + Len(r) <= Len(d2)
  BY <1>2, <1>3 DEF Passes
<1>5. \A n \in 1 .. Len(g) : g[n] = d2[n]
  BY <1>2, <1>3 DEF Passes
<1>6. ASSUME NEW n \in 1 .. Len(r)
      PROVE  r[n] = d2[Len(g) + n]
  <2>1. Len(g) + n \in 1 .. Len(d)
    BY <1>2, <1>3 DEF Passes
  <2> QED BY <1>2, <2>1 DEF Passes
<1>7. ASSUME NEW n \in Len(g) + Len(r) + 1 .. Len(d2)
      PROVE  \E k \in 1 .. Len(q2) : q2[k] = d2[n]
  <2>1. CASE n = Len(d) + 1
    BY <1>1, <1>2, <2>1
  <2>2. CASE n \in Len(g) + Len(r) + 1 .. Len(d)
    <3>1. PICK k \in 1 .. Len(q) : q[k] = d[n]
      BY <2>2 DEF Passes
    <3>2. n \in 1 .. Len(d) /\ k \in 1 .. Len(q2)
      BY <1>1, <1>2, <1>3, <2>2
    <3> QED BY <1>1, <1>2, <3>1, <3>2
  <2> QED BY <1>2, <1>3, <2>1, <2>2
<1>8. ASSUME NEW k \in 1 .. Len(q2), q2[k].token = t
      PROVE  \E n \in Len(g) + Len(r) + 1 .. Len(d2) : q2[k] = d2[n]
  <2>1. CASE k = Len(q) + 1
    <3>1. Len(d) + 1 \in Len(g) + Len(r) + 1 .. Len(d2)
      BY <1>2, <1>3 DEF Passes
    <3> QED BY <1>1, <1>2, <2>1, <3>1
  <2>2. CASE k \in 1 .. Len(q)
    <3>1. PICK n \in Len(g) + Len(r) + 1 .. Len(d) : q[k] = d[n]
      BY <1>1, <1>8, <2>2 DEF Passes
    <3>2. n \in 1 .. Len(d) /\ n \in Len(g) + Len(r) + 1 .. Len(d2)
      BY <1>2, <1>3
    <3> QED BY <1>1, <1>2, <2>2, <3>1, <3>2
  <2> QED BY <1>1, <2>1, <2>2
<1>9. ASSUME NEW j \in 1 .. Len(q2), NEW k \in 1 .. Len(q2),
             NEW a \in 1 .. Len(d2), NEW b \in 1 .. Len(d2),
             q2[j] = d2[a], q2[k] = d2[b]
      PROVE  j < k <=> a < b
  <2>1. j = Len(q) + 1 <=> a = Len(d) + 1
    <3>1. q2[j] = m <=> j = Len(q) + 1
      <4>1. j \in 1 .. Len(q) \/ j = Len(q) + 1
        BY <1>1
      <4>2. j \in 1 .. Len(q) => q2[j] # m /\ j # Len(q) + 1
        BY <1>1
      <4> QED BY <1>1, <4>1, <4>2
    <3>2. d2[a] = m <=> a = Len(d) + 1
      <4>1. a \in 1 .. Len(d) \/ a = Len(d) + 1
        BY <1>2
      <4>2. a \in 1 .. Len(d) => d2[a] # m /\ a # Len(d) + 1
        BY <1>2
      <4> QED BY <1>2, <4>1, <4>2
    <3> QED BY <1>9, <3>1, <3>2
  <2>2. k = Len(q) + 1 <=> b = Len(d) + 1
    <3>1. q2[k] = m <=> k = Len(q) + 1
      <4>1. k \in 1 .. Len(q) \/ k = Len(q) + 1
        BY <1>1
      <4>2. k \in 1 .. Len(q) => q2[k] # m /\ k # Len(q) + 1
        BY <1>1
      <4> QED BY <1>1, <4>1, <4>2
    <3>2. d2[b] = m <=> b = Len(d) + 1
      <4>1. b \in 1 .. Len(d) \/ b = Len(d) + 1
        BY <1>2
      <4>2. b \in 1 .. Len(d) => d2[b] # m /\ b # Len(d) + 1
        BY <1>2
      <4> QED BY <1>2, <4>1, <4>2
    <3> QED BY <1>9, <3>1, <3>2
  <2>3. CASE j \in 1 .. Len(q) /\ k \in 1 .. Len(q)
    <3>1. a \in 1 .. Len(d) /\ b \in 1 .. Len(d)
      BY <1>1, <1>2, <2>1, <2>2, <2>3
    <3>2. q[j] = d[a] /\ q[k] = d[b]
      BY <1>1, <1>2, <1>9, <2>3, <3>1
    <3> QED BY <2>3, <3>1, <3>2 DEF Passes
  <2>4. CASE j = Len(q) + 1 \/ k = Len(q) + 1
    BY <1>1, <1>2, <2>1, <2>2, <2>4
  <2> QED BY <1>1, <2>3, <2>4
<1> QED BY <1>4, <1>5, <1>6, <1>7, <1>8, <1>9 DEF Passes, q2, d2

LEMMA PassesOther ==
    ASSUME NEW M, NEW g \in Seq(M), NEW r \in Seq(M), NEW q \in Seq(M),
           NEW d \in Seq(M), NEW m \in M, NEW t,
           Passes(g, r, q, d, t), m.token # t,
           \A n \in 1 .. Len(d) : d[n] # m
    PROVE  Passes(g, r, Append(q, m), d, t)
<1> DEFINE q2 == Append(q, m)
<1>1. /\ Len(q) \in Nat /\ Len(q2) = Len(q) + 1 /\ q2[Len(q) + 1] = m
      /\ \A k \in 1 .. Len(q) : q2[k] = q[k]
  BY BackType
<1>2. Len(d) \in Nat /\ Len(g) \in Nat /\ Len(r) \in Nat
  BY LenProperties
<1> HIDE DEF q2
<1>3. ASSUME NEW n \in Len(g) + Len(r) + 1 .. Len(d)
      PROVE  \E k \in 1 .. Len(q2) : q2[k] = d[n]
  <2>1. PICK k \in 1 .. Len(q) : q[k] = d[n]
    BY DEF Passes
  <2>2. k \in 1 .. Len(q2)
    BY <1>1
  <2> QED BY <1>1, <2>1, <2>2
<1>4. ASSUME NEW k \in 1 .. Len(q2), q2[k].token = t
      PROVE  \E n \in Len(g) + Len(r) + 1 .. Len(d) : q2[k] = d[n]
  <2>1. k \in 1 .. Len(q) /\ q2[k] = q[k]
    BY <1>1, <1>4
  <2> QED BY <1>4, <2>1 DEF Passes
<1>5. ASSUME NEW j \in 1 .. Len(q2), NEW k \in 1 .. Len(q2),
             NEW a \in 1 .. Len(d), NEW b \in 1 .. Len(d),
             q2[j] = d[a], q2[k] = d[b]
      PROVE  j < k <=> a < b
  <2>1. j \in 1 .. Len(q) /\ k \in 1 .. Len(q)
    BY <1>1, <1>5
  <2>2. q[j] = d[a] /\ q[k] = d[b]
    BY <1>1, <1>5, <2>1
  <2> QED BY <2>1, <2>2 DEF Passes
<1> QED BY <1>3, <1>4, <1>5 DEF Passes, q2

LEMMA PassesTaken ==
    ASSUME NEW M, NEW g \in Seq(M), NEW r \in Seq(M), NEW q \in Seq(M),
           NEW d \in Seq(M), NEW t,
           Passes(g, r, q, d, t), q # <<>>, Head(q).token = t
    PROVE  Passes(g, Append(r, Head(q)), Tail(q), d, t)
<1> DEFINE q2 == Tail(q)
           r2 == Append(r, Head(q))
           have == Len(g) + Len(r)
<1>1. /\ Head(q) \in M /\ Head(q) = q[1] /\ Len(q) \in Nat /\ Len(q) >= 1
      /\ Len(q2) = Len(q) - 1
      /\ \A k \in 1 .. Len(q) - 1 : q2[k] = q[k + 1]
  BY FrontType
<1>2. /\ Len(r) \in Nat /\ Len(r2) = Len(r) + 1 /\ r2[Len(r) + 1] = q[1]
      /\ \A k \in 1 .. Len(r) : r2[k] = r[k]
  BY <1>1, BackType
<1>3. Len(d) \in Nat /\ Len(g) \in Nat
  BY LenProperties
<1> HIDE DEF q2, r2
<1>4. PICK n1 \in have + 1 .. Len(d) : q[1] = d[n1]
  BY <1>1 DEF Passes
<1>5. n1 = have + 1
  <2>1. SUFFICES ASSUME have + 1 < n1 PROVE FALSE
    BY <1>2, <1>3, <1>4
  <2>2. have + 1 \in have + 1 .. Len(d)
    BY <1>2, <1>3, <1>4
  <2>3. PICK k \in 1 .. Len(q) : q[k] = d[have + 1]
    BY <2>2 DEF Passes
  <2>4. 1 \in 1 .. Len(q) /\ n1 \in 1 .. Len(d) /\ have + 1 \in 1 .. Len(d)
    BY <1>1, <1>2, <1>3, <1>4
  <2>5. k < 1
    BY <1>4, <2>1, <2>3, <2>4 DEF Passes
  <2> QED BY <1>1, <2>3, <2>5
<1>6. have + 1 \in 1 .. Len(d) /\ q[1] = d[have + 1]
  BY <1>2, <1>3, <1>4, <1>5
<1>7. Len(g) + Len(r2) = have + 1 /\ Len(g) + Len(r2) <= Len(d)
  BY <1>2, <1>3, <1>6
<1>8. \A n \in 1 .. Len(g) : g[n] = d[n]
  BY DEF Passes
<1>9. ASSUME NEW n \in 1 .. Len(r2)
      PROVE  r2[n] = d[Len(g) + n]
  <2>1. CASE n = Len(r) + 1
    <3>1. Len(g) + n = have + 1
      BY <1>2, <1>3, <2>1
    <3> QED BY <1>2, <1>6, <2>1, <3>1
  <2>2. CASE n \in 1 .. Len(r)
    BY <1>2, <2>2 DEF Passes
  <2> QED BY <1>2, <2>1, <2>2
<1>10. ASSUME NEW n \in have + 2 .. Len(d)
       PROVE  \E k \in 1 .. Len(q2) : q2[k] = d[n]
  <2> n \in have + 1 .. Len(d)
    BY <1>2, <1>3
  <2>1. PICK k \in 1 .. Len(q) : q[k] = d[n]
    BY DEF Passes
  <2>2. n \in 1 .. Len(d) /\ 1 \in 1 .. Len(q) /\ have + 1 < n
    BY <1>1, <1>2, <1>3
  <2>3. 1 < k
    BY <1>6, <2>1, <2>2 DEF Passes
  <2>4. k - 1 \in 1 .. Len(q) - 1 /\ (k - 1) + 1 = k
    BY <1>1, <2>3
  <2>5. k - 1 \in 1 .. Len(q2) /\ q2[k - 1] = q[k]
    BY <1>1, <2>4
  <2> QED BY <2>1, <2>5
<1>11. ASSUME NEW k \in 1 .. Len(q2), q2[k].token = t
       PROVE  \E n \in have + 2 .. Len(d) : q2[k] = d[n]
  <2>1. k + 1 \in 1 .. Len(q) /\ q2[k] = q[k + 1] /\ 1 \in 1 .. Len(q) /\ 1 < k + 1
    BY <1>1
  <2>2. PICK n \in have + 1 .. Len(d) : q[k + 1] = d[n]
    BY <1>11, <2>1 DEF Passes
  <2>3. n \in 1 .. Len(d)
    BY <1>2, <1>3
  <2>4. have + 1 < n
    BY <1>6, <2>1, <2>2, <2>3 DEF Passes
  <2>5. n \in have + 2 .. Len(d)
    BY <1>2, <1>3, <2>4
  <2> QED BY <2>1, <2>2, <2>5
<1>12. ASSUME NEW j \in 1 .. Len(q2), NEW k \in 1 .. Len(q2),
              NEW a \in 1 .. Len(d), NEW b \in 1 .. Len(d),
              q2[j] = d[a], q2[k] = d[b]
       PROVE  j < k <=> a < b
  <2>1. /\ j + 1 \in 1 .. Len(q) /\ k + 1 \in 1 .. Len(q)
        /\ q[j + 1] = d[a] /\ q[k + 1] = d[b]
    BY <1>1, <1>12
  <2>2. j + 1 < k + 1 <=> a < b
    BY <2>1 DEF Passes
  <2> QED BY <1>1, <2>2
<1>13. Len(g) + Len(r2) + 1 = have + 2
  BY <1>2, <1>3
<1>14. Passes(g, r2, q2, d, t)
  <2> HIDE DEF have
  <2> QED BY <1>7, <1>8, <1>9, <1>10, <1>11, <1>12, <1>13 DEF Passes
<1> QED BY <1>14 DEF q2, r2

LEMMA PassesSkipped ==
    ASSUME NEW M, NEW g \in Seq(M), NEW r \in Seq(M), NEW q \in Seq(M),
           NEW d \in Seq(M), NEW t,
           Passes(g, r, q, d, t), q # <<>>, Head(q).token # t,
           \A n \in 1 .. Len(d) : d[n].token = t
    PROVE  Passes(g, r, Tail(q), d, t)
<1> DEFINE q2 == Tail(q)
           have == Len(g) + Len(r)
<1>1. /\ Head(q) = q[1] /\ Len(q) \in Nat /\ Len(q) >= 1
      /\ Len(q2) = Len(q) - 1
      /\ \A k \in 1 .. Len(q) - 1 : q2[k] = q[k + 1]
  BY FrontType
<1>2. Len(d) \in Nat /\ Len(g) \in Nat /\ Len(r) \in Nat
  BY LenProperties
<1> HIDE DEF q2
<1>3. ASSUME NEW n \in have + 1 .. Len(d)
      PROVE  \E k \in 1 .. Len(q2) : q2[k] = d[n]
  <2>1. PICK k \in 1 .. Len(q) : q[k] = d[n]
    BY DEF Passes
  <2>2. n \in 1 .. Len(d)
    BY <1>2
  <2>3. k # 1
    BY <1>1, <2>1, <2>2
  <2>4. k - 1 \in 1 .. Len(q) - 1 /\ (k - 1) + 1 = k
    BY <1>1, <2>3
  <2>5. k - 1 \in 1 .. Len(q2) /\ q2[k - 1] = q[k]
    BY <1>1, <2>4
  <2> QED BY <2>1, <2>5
<1>4. ASSUME NEW k \in 1 .. Len(q2), q2[k].token = t
      PROVE  \E n \in have + 1 .. Len(d) : q2[k] = d[n]
  <2>1. k + 1 \in 1 .. Len(q) /\ q2[k] = q[k + 1]
    BY <1>1
  <2> QED BY <1>4, <2>1 DEF Passes
<1>5. ASSUME NEW j \in 1 .. Len(q2), NEW k \in 1 .. Len(q2),
             NEW a \in 1 .. Len(d), NEW b \in 1 .. Len(d),
             q2[j] = d[a], q2[k] = d[b]
      PROVE  j < k <=> a < b
  <2>1. /\ j + 1 \in 1 .. Len(q) /\ k + 1 \in 1 .. Len(q)
        /\ q[j + 1] = d[a] /\ q[k + 1] = d[b]
    BY <1>1, <1>5
  <2>2. j + 1 < k + 1 <=> a < b
    BY <2>1 DEF Passes
  <2> QED BY <1>1, <2>2
<1> QED BY <1>3, <1>4, <1>5 DEF Passes, q2

LEMMA PassesHandedOver ==
    ASSUME NEW M, NEW g \in Seq(M), NEW r \in Seq(M), NEW q \in Seq(M),
           NEW d \in Seq(M), NEW t,
           Passes(g, r, q, d, t), r # <<>>
    PROVE  Passes(Append(g, Head(r)), Tail(r), q, d, t)
<1> DEFINE g2 == Append(g, Head(r))
           r2 == Tail(r)
<1>1. /\ Head(r) \in M /\ Head(r) = r[1] /\ Len(r) \in Nat /\ Len(r) >= 1
      /\ Len(r2) = Len(r) - 1
      /\ \A k \in 1 .. Len(r) - 1 : r2[k] = r[k + 1]
  BY FrontType
<1>2. /\ Len(g) \in Nat /\ Len(g2) = Len(g) + 1 /\ g2[Len(g) + 1] = r[1]
      /\ \A k \in 1 .. Len(g) : g2[k] = g[k]
  BY <1>1, BackType
<1> HIDE DEF g2, r2
<1>3. Len(g2) + Len(r2) = Len(g) + Len(r)
  BY <1>1, <1>2
<1>4. r[1] = d[Len(g) + 1]
  BY <1>1, <1>2 DEF Passes
<1>5. ASSUME NEW n \in 1 .. Len(g2)
      PROVE  g2[n] = d[n]
  <2>1. CASE n = Len(g) + 1
    BY <1>2, <1>4, <2>1
  <2>2. CASE n \in 1 .. Len(g)
    BY <1>2, <2>2 DEF Passes
  <2> QED BY <1>2, <2>1, <2>2
<1>6. ASSUME NEW n \in 1 .. Len(r2)
      PROVE  r2[n] = d[Len(g2) + n]
  <2>1. n + 1 \in 1 .. Len(r) /\ r2[n] = r[n + 1]
    BY <1>1
  <2>2. Len(g2) + n = Len(g) + (n + 1)
    BY <1>1, <1>2
  <2> QED BY <2>1, <2>2 DEF Passes
<1> QED BY <1>3, <1>5, <1>6 DEF Passes, g2, r2

-----------------------------------------------------------------------------
(* Every step keeps the types.                                             *)

LEMMA TypeStep ==
    ASSUME TypeOK, CallInv, WaitInv, [Next]_vars
    PROVE  TypeOK'
<1> USE DEF serverVars, clientVars, serviceVars
<1>1. CASE UNCHANGED vars
  BY <1>1 DEF TypeOK, vars
<1>2. ASSUME NEW kind, NEW fn \in {"get", "write_chunks"}, NEW t \in {-1} \cup Timeouts,
             SendToAll(kind, fn, t), StartWait(NewTokens, Scaled(t)), UNCHANGED later
      PROVE  TypeOK'
  <2>1. wait' \in [todo : SUBSET Tokens, timeout : Limits, elapsed : Nat]
    BY <1>2, SendType, ScaledType DEF StartWait
  <2> QED BY <1>2, <2>1, SendType DEF TypeOK, SendToAll, StartWait
<1>3. ASSUME NEW t \in Timeouts, Query(t) PROVE TypeOK'
  BY <1>2, <1>3 DEF Query
<1>4. ASSUME NEW t \in Timeouts, Collect(t) PROVE TypeOK'
  <2>1. call' \in Calls
    BY <1>4 DEF Collect, Calls
  <2>2. wait' \in [todo : SUBSET Tokens, timeout : Limits, elapsed : Nat]
    BY <1>4, ScaledType DEF Collect, StartWait, TypeOK
  <2> QED BY <1>4, <2>1, <2>2, NoAllType DEF TypeOK, Collect, StartWait
<1>5. ASSUME NEW t \in Timeouts, NEW kind \in {"lists", "write"}, WriteChunks(kind, t)
      PROVE  TypeOK'
  BY <1>2, <1>5 DEF WriteChunks
<1>6. CASE Async
  BY <1>6, SendType DEF Async, TypeOK, SendToAll
<1>7. CASE Scan
  <2> DEFINE done == {t \in wait.todo : received[t] # <<>>}
  <2>1. ASSUME NEW t \in Tokens
        PROVE  /\ received[t] \in Seq(Messages) /\ got[t] \in Seq(Messages)
               /\ t \in done => /\ Append(got[t], Head(received[t])) \in Seq(Messages)
                               /\ Tail(received[t]) \in Seq(Messages)
    <3>1. received[t] \in Seq(Messages) /\ got[t] \in Seq(Messages)
      BY Types
    <3> QED BY <3>1, FrontType, BackType
  <2>2. received' \in [Tokens -> Seq(Messages)]
    BY <1>7, <2>1 DEF Scan
  <2>3. got' \in [Tokens -> Seq(Messages)]
    BY <1>7, <2>1 DEF Scan
  <2>4. wait' \in [todo : SUBSET Tokens, timeout : Limits, elapsed : Nat]
    BY <1>7 DEF Scan, TypeOK
  <2> QED BY <1>7, <2>2, <2>3, <2>4 DEF Scan, TypeOK
<1>8. CASE Drain
  BY <1>8, TakenType DEF Drain, TypeOK
<1>9. CASE Drained
  <2>1. wait' \in [todo : SUBSET Tokens, timeout : Limits, elapsed : Nat]
    BY <1>9, AdjustWaitType DEF Drained, TypeOK
  <2>2. left' \in Limits
    <3>1. CASE UNCHANGED left
      BY <3>1 DEF TypeOK
    <3>2. CASE left' = IF wait.timeout < 0 THEN -1 ELSE wait.timeout \div Second
      <4>1. wait.timeout \in Limits /\ Second \in Nat /\ Second > 0
        BY RpcClientAssumption DEF TypeOK
      <4>2. wait.timeout < 0 \/ wait.timeout \in Nat
        BY <4>1 DEF Limits
      <4> QED BY <3>2, <4>1, <4>2, Quotient DEF Limits
    <3> QED BY <1>9, <3>1, <3>2 DEF Drained
  <2> QED BY <1>9, <2>1, <2>2 DEF Drained, TypeOK
<1>10. CASE PollWakes
  BY <1>10, TakenType, AdjustWaitType DEF PollWakes, TypeOK
<1>11. CASE Tick
  <2>1. left' \in Limits
    BY <1>11 DEF Tick, TypeOK, Limits
  <2>2. wait' \in [todo : SUBSET Tokens, timeout : Limits, elapsed : Nat]
    <3>1. wait \in [todo : SUBSET Tokens, timeout : Limits, elapsed : Nat]
      BY DEF TypeOK
    <3>2. wait.elapsed + 1 \in Nat
      BY <3>1
    <3>3. wait' = [wait EXCEPT !.elapsed = wait.elapsed + 1]
      BY <1>11, <3>1 DEF Tick
    <3> QED BY <3>1, <3>2, <3>3
  <2>3. all' \in [server : Nat, timeout : Limits, elapsed : Nat]
    <3>1. all \in [server : Nat, timeout : Limits, elapsed : Nat]
      BY DEF TypeOK
    <3>2. PICK e \in Nat : e = IF all.server = 0 THEN 0 ELSE all.elapsed + 1
      BY <3>1
    <3>3. all' = [all EXCEPT !.elapsed = e]
      BY <1>11, <3>1, <3>2 DEF Tick
    <3> QED BY <3>1, <3>3
  <2>4. spent' \in Nat
    BY <1>11 DEF Tick, TypeOK
  <2> QED BY <1>11, <2>1, <2>2, <2>3, <2>4 DEF Tick, TypeOK
<1>12. CASE PollExpires
  BY <1>12 DEF PollExpires, TypeOK
<1>13. CASE Waited
  <2>1. all' \in [server : Nat, timeout : Limits, elapsed : Nat]
    <3>1. CASE all.server > 0
      <4>1. PICK a \in [server : Nat, timeout : Limits, elapsed : Nat] :
              a = Adjust(all) /\ a.server = all.server
        BY AdjustAllType
      <4>2. PICK n \in Nat : n = IF wait.todo # {} THEN all.server + 1 ELSE all.server
        BY <4>1
      <4>3. all' = [a EXCEPT !.server = n]
        BY <1>13, <3>1, <4>1, <4>2 DEF Waited
      <4> QED BY <4>3
    <3>2. CASE all.server = 0 /\ call.kind = "write"
      <4>1. Scaled(call.timeout) \in Limits
        BY ScaledType DEF TypeOK, Calls
      <4> QED BY <1>13, <3>2, <4>1 DEF Waited
    <3> QED BY <1>13, <3>1, <3>2 DEF Waited, TypeOK
  <2> QED BY <1>13, <2>1, NoWaitType DEF Waited, TypeOK, Limits
<1>14. CASE NextWrite
  <2> DEFINE t == call.tokens[all.server]
  <2>1. CASE all.server > NumServers
    <3>1. ~(all.server <= NumServers)
      BY <2>1, RpcClientAssumption DEF TypeOK
    <3> QED BY <1>14, <2>1, <3>1 DEF NextWrite, TypeOK
  <2>2. CASE all.server <= NumServers /\ all' = [all EXCEPT !.server = @ + 1]
             /\ UNCHANGED <<pc, wait>>
    <3>1. all \in [server : Nat, timeout : Limits, elapsed : Nat]
      BY DEF TypeOK
    <3>2. PICK n \in Nat : n = all.server + 1
      BY <3>1
    <3>3. all' = [all EXCEPT !.server = n]
      BY <2>2, <3>1, <3>2
    <3>4. all' \in [server : Nat, timeout : Limits, elapsed : Nat]
      BY <3>1, <3>3
    <3> QED BY <1>14, <2>2, <3>4 DEF NextWrite, TypeOK
  <2>3. CASE all.server <= NumServers /\ StartWait({t}, all.timeout) /\ UNCHANGED all
    <3>1. all.server \in Servers /\ call.kind = "write"
      BY <1>14, <2>3, RpcClientAssumption DEF NextWrite, WaitInv, TypeOK, Servers
    <3>2. t \in Tokens
      BY <3>1 DEF CallInv
    <3> HIDE DEF t
    <3>3. wait' \in [todo : SUBSET Tokens, timeout : Limits, elapsed : Nat]
      BY <2>3, <3>2 DEF StartWait, TypeOK
    <3> QED BY <1>14, <2>3, <3>3 DEF NextWrite, StartWait, TypeOK
  <2> QED BY <1>14, <2>1, <2>2, <2>3 DEF NextWrite
<1>15. ASSUME NEW s \in Servers, ServerAnswers(s) PROVE TypeOK'
  <2>1. Head(inbox[s]).token \in Tokens
        /\ Tail(inbox[s]) \in Seq([fn : {"get", "write_chunks"}, token : Tokens])
    BY <1>15, FrontRequest DEF ServerAnswers, Asked
  <2>2. [kind |-> "value", server |-> s, token |-> Head(inbox[s]).token] \in Messages
    BY <2>1 DEF Messages
  <2>3. wire' \in [Servers -> Seq(Messages)] /\ said' \in [Tokens -> Seq(Messages)]
    BY <1>15, <2>2, SayType DEF ServerAnswers
  <2> QED BY <1>15, <2>1, <2>3 DEF ServerAnswers, TypeOK
<1>16. ASSUME NEW s \in Servers, ServerAnnounces(s) PROVE TypeOK'
  <2> DEFINE t == Head(inbox[s]).token
             C == ChunksOf(s, t)
  <2>1. t \in Tokens
        /\ Tail(inbox[s]) \in Seq([fn : {"get", "write_chunks"}, token : Tokens])
    BY <1>16, FrontRequest DEF ServerAnnounces, Asked
  <2>2. PICK n \in 0 .. 1 :
          Say(s, [kind |-> "list", server |-> s, token |-> t, refused |-> n, chunks |-> C])
    <3>1. \E n \in IF MayRefuse THEN 0 .. 1 ELSE {0} :
            Say(s, [kind |-> "list", server |-> s, token |-> t, refused |-> n, chunks |-> C])
      BY <1>16 DEF ServerAnnounces, ChunksOf
    <3>2. (IF MayRefuse THEN 0 .. 1 ELSE {0}) \subseteq 0 .. 1
      OBVIOUS
    <3> QED BY <3>1, <3>2
  <2>3. C \in SUBSET Chunks
    BY ChunksType
  <2> HIDE DEF C, t
  <2>4. [kind |-> "list", server |-> s, token |-> t, refused |-> n, chunks |-> C] \in Messages
    BY <2>1, <2>3 DEF Messages
  <2>5. wire' \in [Servers -> Seq(Messages)] /\ said' \in [Tokens -> Seq(Messages)]
    BY <2>2, <2>4, SayType
  <2> QED BY <1>16, <2>1, <2>5 DEF ServerAnnounces, TypeOK, Service!Announce
<1>17. ASSUME NEW s \in Servers, ServerDies(s) PROVE TypeOK'
  BY <1>17 DEF ServerDies, TypeOK
<1>18. ASSUME NEW s \in Servers, NEW k \in Chunks, ServerAccepts(s, k) PROVE TypeOK'
  <2>1. [client |-> s, token |-> Head(inbox[s]).token, chunk |-> k] \in Writes
    BY <1>18, FrontRequest DEF ServerAccepts, Asked, Writes
  <2> QED BY <1>18, <2>1 DEF ServerAccepts, TypeOK, Service!Accept
<1>19. ASSUME NEW w \in Writes, ServerFinishes(w) PROVE TypeOK'
  BY <1>19 DEF ServerFinishes, TypeOK, Service!Finish
<1>20. ASSUME NEW w \in Writes, ServerReports(w) PROVE TypeOK'
  <2>1. [kind |-> "chunk", server |-> w.client, token |-> w.token, chunk |-> w.chunk,
         success |-> w \in written] \in Messages
    BY DEF Messages, Writes
  <2>2. wire' \in [Servers -> Seq(Messages)] /\ said' \in [Tokens -> Seq(Messages)]
    <3>1. w.client \in Servers
      BY DEF Writes
    <3> QED BY <1>20, <2>1, <3>1, SayType DEF ServerReports
  <2> QED BY <1>20, <2>2 DEF ServerReports, TypeOK, Service!Answer
<1> QED
  BY <1>1, <1>3, <1>4, <1>5, <1>6, <1>7, <1>8, <1>9, <1>10, <1>11, <1>12, <1>13,
     <1>14, <1>15, <1>16, <1>17, <1>18, <1>19, <1>20 DEF Next, User, Idle, Client

-----------------------------------------------------------------------------
(* The calls of the user.                                                  *)

LEMMA RequestType ==
    ASSUME TypeOK, NEW s \in Servers, NEW k \in DOMAIN inbox[s]
    PROVE  inbox[s][k].token \in Tokens
<1>1. inbox[s] \in Seq([fn : {"get", "write_chunks"}, token : Tokens])
  BY Types
<1>2. inbox[s][k] \in [fn : {"get", "write_chunks"}, token : Tokens]
  BY <1>1, LenProperties
<1> QED BY <1>2

LEMMA AnnouncedKept ==
    ASSUME UNCHANGED announced
    PROVE  \A s, t : Service!Announced(s, t)' <=> Service!Announced(s, t)
  BY DEF Service!Announced

LEMMA TokenNat ==
    ASSUME TypeOK
    PROVE  token \in Nat /\ NumServers \in Nat /\ NumServers > 0 /\ Tokens \subseteq Nat
<1>1. NumServers * MaxCalls \in Nat
  BY RpcClientAssumption, Product
<1> QED BY <1>1, RpcClientAssumption DEF TypeOK, Tokens

LEMMA ServerOfNext ==
    ASSUME NEW t \in Tokens
    PROVE  ServerOf(t + NumServers) = ServerOf(t)
<1> DEFINE x == t - 1
           y == (t + NumServers) - 1
<1>1. x \in Nat /\ NumServers \in Nat /\ NumServers > 0 /\ y = x + NumServers
  BY RpcClientAssumption DEF Tokens
<1>2. ServerOf(t) = (x % NumServers) + 1 /\ ServerOf(t + NumServers) = (y % NumServers) + 1
  BY DEF ServerOf
<1> HIDE DEF x, y
<1>3. (x + NumServers) % NumServers = x % NumServers
  BY <1>1, RemainderShift
<1> QED BY <1>1, <1>2, <1>3

LEMMA SendStep ==
    ASSUME TypeOK, NextTokenInv, InboxInv, FreshInv, NEW kind,
           NEW fn \in {"get", "write_chunks"}, NEW t,
           SendToAll(kind, fn, t),
           fn = IF kind \in {"query", "async"} THEN "get" ELSE "write_chunks"
    PROVE  NextTokenInv' /\ InboxInv' /\ FreshInv' /\ CallInv'
<1> DEFINE m(s) == [fn |-> fn, token |-> token + s]
<1>1. token' = token + NumServers /\ UNCHANGED <<said, announced>>
  BY DEF SendToAll, serviceVars
<1>2. \A s, u : Service!Announced(s, u)' <=> Service!Announced(s, u)
  BY <1>1, AnnouncedKept
<1>3. NextTokenInv'
  <2> SUFFICES ASSUME NEW s \in Servers PROVE ServerOf(token' + s) = s
    BY DEF NextTokenInv
  <2>1. PICK u \in Tokens : u = token + s
    BY CallTokens DEF SendToAll
  <2>2. token' + s = u + NumServers
    BY <1>1, <2>1, TokenNat DEF Servers
  <2>3. ServerOf(u) = s
    BY <2>1 DEF NextTokenInv
  <2> QED BY <2>2, <2>3, ServerOfNext
<1>4. ASSUME NEW s \in Servers
      PROVE  /\ token + s \in Tokens /\ token + s > token /\ token + s <= token'
             /\ ServerOf(token + s) = s
             /\ said[token + s] = <<>>
             /\ \A v \in Servers : ~Service!Announced(v, token + s)
  BY <1>1, CallTokens DEF SendToAll, NextTokenInv, FreshInv
<1>5. ASSUME NEW s \in Servers
      PROVE  /\ Len(inbox[s]) \in Nat
             /\ DOMAIN inbox[s] = 1 .. Len(inbox[s])
             /\ DOMAIN inbox'[s] = 1 .. Len(inbox[s]) + 1
             /\ inbox'[s][Len(inbox[s]) + 1].fn = fn
             /\ inbox'[s][Len(inbox[s]) + 1].token = token + s
             /\ \A k \in 1 .. Len(inbox[s]) : inbox'[s][k] = inbox[s][k]
  <2>1. m(s).fn = fn /\ m(s).token = token + s
        /\ m(s) \in [fn : {"get", "write_chunks"}, token : Tokens]
    BY <1>4
  <2>2. inbox[s] \in Seq([fn : {"get", "write_chunks"}, token : Tokens])
    BY Types
  <2>3. inbox'[s] = Append(inbox[s], m(s))
    BY DEF SendToAll
  <2> HIDE DEF m
  <2> QED BY <2>1, <2>2, <2>3, BackType
<1>6. ASSUME NEW s \in Servers, NEW k \in 1 .. Len(inbox[s])
      PROVE  /\ inbox[s][k].token \in Tokens /\ inbox[s][k].token <= token
             /\ inbox[s][k].token <= token' /\ inbox[s][k].token # token + s
             /\ ServerOf(inbox[s][k].token) = s
             /\ said[inbox[s][k].token] = <<>>
             /\ ~Service!Announced(s, inbox[s][k].token)
             /\ \A j \in 1 .. Len(inbox[s]) :
                  inbox[s][j].token = inbox[s][k].token => j = k
  <2>1. k \in DOMAIN inbox[s]
    BY <1>5
  <2>2. inbox[s][k].token \in Tokens /\ inbox[s][k].token <= token
    BY <2>1, RequestType DEF InboxInv, InboxAt
  <2> QED BY <1>1, <1>4, <1>5, <2>1, <2>2, TokenNat DEF InboxInv, InboxAt
<1>7. InboxInv'
  <2> SUFFICES ASSUME NEW s \in Servers, NEW k \in DOMAIN inbox'[s]
               PROVE  LET u == inbox'[s][k].token IN
                      /\ ServerOf(u) = s /\ u <= token' /\ said[u] = <<>>
                      /\ ~Service!Announced(s, u)
                      /\ \A j \in DOMAIN inbox'[s] : inbox'[s][j].token = u => j = k
    BY <1>1 DEF InboxInv, InboxAt, Service!Announced
  <2> DEFINE u == inbox'[s][k].token
             L == Len(inbox[s])
  <2>1. L \in Nat /\ DOMAIN inbox'[s] = 1 .. L + 1 /\ inbox'[s][L + 1].token = token + s
        /\ \A j \in 1 .. L : inbox'[s][j].token = inbox[s][j].token
    BY <1>5
  <2>2. CASE k \in 1 .. L
    <3>1. /\ ServerOf(u) = s /\ u <= token' /\ said[u] = <<>>
          /\ ~Service!Announced(s, u) /\ u # token + s
      BY <1>6, <2>1, <2>2
    <3>2. \A j \in 1 .. L : inbox'[s][j].token = u => j = k
      BY <1>6, <2>1, <2>2
    <3> HIDE DEF u, L
    <3> QED BY <2>1, <3>1, <3>2 DEF u
  <2>3. CASE k = L + 1
    <3>1. /\ ServerOf(u) = s /\ u <= token' /\ said[u] = <<>>
          /\ ~Service!Announced(s, u) /\ u = token + s
      BY <1>4, <2>1, <2>3
    <3>2. \A j \in 1 .. L : inbox'[s][j].token # u
      BY <1>6, <2>1, <3>1
    <3> HIDE DEF u, L
    <3> QED BY <2>1, <2>3, <3>1, <3>2 DEF u
  <2> QED BY <2>1, <2>2, <2>3
<1>8. FreshInv'
  <2>1. \A u \in Tokens : u > token' => u > token
    BY <1>1, TokenNat
  <2> QED BY <1>1, <1>2, <2>1 DEF FreshInv
<1>9. CallInv'
  <2>1. call' = [kind |-> kind, tokens |-> [s \in Servers |-> token + s], timeout |-> t]
    BY DEF SendToAll
  <2>2. Asks' = fn
    BY <2>1 DEF Asks
  <2>3. ASSUME NEW s \in Servers
        PROVE  /\ token + s \in Tokens /\ ServerOf(token + s) = s /\ token + s <= token'
               /\ \A k \in DOMAIN inbox'[s] :
                    inbox'[s][k].token = token + s => inbox'[s][k].fn = fn
               /\ said'[token + s] = <<>>
    <3>1. \A k \in 1 .. Len(inbox[s]) : inbox'[s][k].token # token + s
      BY <1>5, <1>6
    <3>2. /\ Len(inbox[s]) \in Nat /\ DOMAIN inbox'[s] = 1 .. Len(inbox[s]) + 1
          /\ inbox'[s][Len(inbox[s]) + 1].fn = fn
      BY <1>5
    <3>3. \A k \in DOMAIN inbox'[s] :
            inbox'[s][k].token = token + s => inbox'[s][k].fn = fn
      BY <3>1, <3>2
    <3> QED BY <1>1, <1>4, <3>3
  <2> QED BY <2>1, <2>2, <2>3 DEF CallInv
<1> QED BY <1>3, <1>7, <1>8, <1>9

-----------------------------------------------------------------------------
(* What the servers say.                                                   *)

LEMMA SayIs ==
    ASSUME TypeOK, NEW s \in Servers, NEW m \in Messages, Say(s, m)
    PROVE  /\ said' \in [Tokens -> Seq(Messages)] /\ wire' \in [Servers -> Seq(Messages)]
           /\ said'[m.token] = Append(said[m.token], m)
           /\ wire'[s] = Append(wire[s], m)
           /\ \A u \in Tokens \ {m.token} : said'[u] = said[u]
           /\ \A v \in Servers \ {s} : wire'[v] = wire[v]
           /\ m.token \in Tokens
  BY SayType DEF Say, TypeOK

\* What is said is said once, so it passes after what was said before.
LEMMA SayLost ==
    ASSUME TypeOK, SaidInv, LostInv, NEW s \in Servers, NEW m \in Messages,
           Say(s, m), ServerOf(m.token) = s, UNCHANGED <<got, received>>,
           \A n \in 1 .. Len(said[m.token]) : said[m.token][n] # m
    PROVE  LostInv'
<1> DEFINE t == m.token
<1>1. /\ t \in Tokens
      /\ said'[t] = Append(said[t], m) /\ wire'[s] = Append(wire[s], m)
      /\ \A u \in Tokens \ {t} : said'[u] = said[u]
      /\ \A v \in Servers \ {s} : wire'[v] = wire[v]
  BY SayIs
<1>2. \A u \in Tokens : Passes(got[u], received[u], wire[ServerOf(u)], said[u], u)
  BY DEF LostInv, LostAt
<1>3. ASSUME NEW u \in Tokens
      PROVE  /\ got[u] \in Seq(Messages) /\ received[u] \in Seq(Messages)
             /\ said[u] \in Seq(Messages) /\ ServerOf(u) \in Servers
             /\ wire[ServerOf(u)] \in Seq(Messages)
             /\ \A n \in 1 .. Len(said[u]) : said[u][n].token = u
  <2>1. /\ got[u] \in Seq(Messages) /\ received[u] \in Seq(Messages)
        /\ said[u] \in Seq(Messages) /\ ServerOf(u) \in Servers
    BY Types, ServerOfToken
  <2>2. wire[ServerOf(u)] \in Seq(Messages)
    BY <2>1, Types
  <2>3. DOMAIN said[u] = 1 .. Len(said[u])
    BY <2>1, LenProperties
  <2> QED BY <2>1, <2>2, <2>3 DEF SaidInv, SaidAt
<1>4. ASSUME NEW u \in Tokens
      PROVE  Passes(got[u], received[u], wire'[ServerOf(u)], said'[u], u)
  <2>1. CASE u = t
    <3>1. /\ got[t] \in Seq(Messages) /\ received[t] \in Seq(Messages)
          /\ wire[s] \in Seq(Messages) /\ said[t] \in Seq(Messages)
          /\ Passes(got[t], received[t], wire[s], said[t], t)
      BY <1>1, <1>2, <1>3
    <3>2. ASSUME NEW k \in 1 .. Len(wire[s]) PROVE wire[s][k] # m
      <4>1. SUFFICES ASSUME wire[s][k] = m PROVE FALSE
        OBVIOUS
      <4>2. PICK n \in Len(got[t]) + Len(received[t]) + 1 .. Len(said[t]) :
              wire[s][k] = said[t][n]
        BY <3>1, <4>1 DEF Passes
      <4>3. n \in 1 .. Len(said[t])
        <5>1. Len(got[t]) \in Nat /\ Len(received[t]) \in Nat /\ Len(said[t]) \in Nat
          BY <3>1, LenProperties
        <5> QED BY <5>1, Above
      <4> QED BY <4>1, <4>2, <4>3
    <3>3. Passes(got[t], received[t], Append(wire[s], m), Append(said[t], m), t)
      BY <3>1, <3>2, PassesSaid
    <3> QED BY <1>1, <2>1, <3>3
  <2>2. CASE u # t /\ ServerOf(u) = s
    <3>1. \A n \in 1 .. Len(said[u]) : said[u][n] # m
      BY <1>3, <2>2
    <3>2. /\ got[u] \in Seq(Messages) /\ received[u] \in Seq(Messages)
          /\ wire[s] \in Seq(Messages) /\ said[u] \in Seq(Messages)
          /\ Passes(got[u], received[u], wire[s], said[u], u)
      BY <1>2, <1>3, <2>2
    <3>3. Passes(got[u], received[u], Append(wire[s], m), said[u], u)
      BY <2>2, <3>1, <3>2, PassesOther
    <3> QED BY <1>1, <2>2, <3>3
  <2>3. CASE u # t /\ ServerOf(u) # s
    BY <1>1, <1>2, <1>3, <2>3
  <2> QED BY <2>1, <2>2, <2>3
<1>5. ASSUME NEW v \in Servers, NEW k \in DOMAIN wire'[v]
      PROVE  ServerOf(wire'[v][k].token) = v
  <2>1. CASE v # s
    BY <1>1, <2>1 DEF LostInv
  <2>2. CASE v = s
    <3>1. wire[s] \in Seq(Messages)
      BY Types
    <3>2. /\ Len(wire[s]) \in Nat /\ DOMAIN wire[s] = 1 .. Len(wire[s])
          /\ DOMAIN wire'[s] = 1 .. Len(wire[s]) + 1 /\ wire'[s][Len(wire[s]) + 1] = m
          /\ \A j \in 1 .. Len(wire[s]) : wire'[s][j] = wire[s][j]
      BY <1>1, <3>1, BackType
    <3>3. CASE k \in 1 .. Len(wire[s])
      BY <2>2, <3>2, <3>3 DEF LostInv
    <3>4. CASE k = Len(wire[s]) + 1
      BY <2>2, <3>2, <3>4
    <3> QED BY <2>2, <3>2, <3>3, <3>4
  <2> QED BY <2>1, <2>2
<1> QED BY <1>4, <1>5 DEF LostInv, LostAt

\* A server that answers the request at the head of its queue says the first
\* thing that is said of its token.
LEMMA AnswerStep ==
    ASSUME TypeOK, InboxInv, FreshInv, SaidInv, LostInv, CallInv,
           NEW s \in Servers, inbox[s] # <<>>,
           NEW m \in Messages, m.token = Head(inbox[s]).token,
           m.kind = IF Head(inbox[s]).fn = "get" THEN "value" ELSE "list",
           Say(s, m), inbox' = [inbox EXCEPT ![s] = Tail(@)],
           UNCHANGED clientVars,
           \A v, u : u # m.token => (Service!Announced(v, u)' <=> Service!Announced(v, u))
    PROVE  /\ InboxInv' /\ FreshInv' /\ LostInv' /\ CallInv'
           /\ ServerOf(m.token) = s /\ ~Service!Announced(s, m.token)
           /\ m.token <= token /\ said[m.token] = <<>>
           /\ Len(said'[m.token]) = 1 /\ said'[m.token][1] = m
           /\ DOMAIN said'[m.token] = 1 .. 1
<1> DEFINE t == m.token
           L == Len(inbox[s])
<1>1. /\ inbox[s][1].token = t /\ inbox[s][1] = Head(inbox[s]) /\ L \in Nat /\ L >= 1
      /\ DOMAIN inbox[s] = 1 .. L /\ inbox'[s] = Tail(inbox[s])
      /\ DOMAIN inbox'[s] = 1 .. L - 1
      /\ \A k \in 1 .. L - 1 : inbox'[s][k] = inbox[s][k + 1]
      /\ \A v \in Servers \ {s} : inbox'[v] = inbox[v]
  BY FrontRequest DEF TypeOK
<1>2. 1 \in DOMAIN inbox[s] /\ InboxAt(s)
  BY <1>1 DEF InboxInv
<1>3. /\ ServerOf(t) = s /\ t <= token /\ said[t] = <<>> /\ ~Service!Announced(s, t)
      /\ \A j \in DOMAIN inbox[s] : inbox[s][j].token = t => j = 1
  BY <1>1, <1>2 DEF InboxAt
<1>4. /\ t \in Tokens /\ said'[t] = Append(said[t], m)
      /\ \A u \in Tokens \ {t} : said'[u] = said[u]
  BY SayIs
<1>5. Len(said'[t]) = 1 /\ said'[t][1] = m /\ DOMAIN said'[t] = 1 .. 1
  BY <1>3, <1>4, BackType, EmptySeq
<1>6. LostInv'
  <2>1. 1 .. Len(said[t]) = {}
    BY <1>3
  <2> QED BY <1>3, <2>1, SayLost DEF clientVars
<1>7. InboxInv'
  <2> SUFFICES ASSUME NEW v \in Servers, NEW k \in DOMAIN inbox'[v],
                      NEW u, u = inbox'[v][k].token
               PROVE  /\ ServerOf(u) = v /\ u <= token /\ said'[u] = <<>>
                      /\ ~Service!Announced(v, u)'
                      /\ \A j \in DOMAIN inbox'[v] : inbox'[v][j].token = u => j = k
    BY DEF InboxInv, InboxAt, clientVars, Service!Announced
  <2>1. CASE v # s
    <3>1. k \in DOMAIN inbox[v] /\ inbox'[v] = inbox[v] /\ InboxAt(v)
      BY <1>1, <2>1 DEF InboxInv
    <3>2. inbox[v][k].token # t /\ inbox[v][k].token \in Tokens
      BY <1>3, <2>1, <3>1, RequestType DEF InboxAt
    <3>3. u \in Tokens /\ u # t /\ u = inbox[v][k].token
      BY <3>1, <3>2
    <3>4. said'[u] = <<>> /\ ServerOf(u) = v /\ u <= token /\ ~Service!Announced(v, u)
      BY <1>4, <3>1, <3>3 DEF InboxAt
    <3>5. \A j \in DOMAIN inbox[v] : inbox[v][j].token = u => j = k
      BY <3>1, <3>3 DEF InboxAt
    <3> QED BY <3>1, <3>3, <3>4, <3>5
  <2>2. CASE v = s
    <3>1. k + 1 \in DOMAIN inbox[s] /\ inbox'[s][k] = inbox[s][k + 1] /\ k + 1 # 1
      BY <1>1, <2>2
    <3>2. inbox[s][k + 1].token # t /\ inbox[s][k + 1].token \in Tokens
      BY <1>3, <3>1, RequestType
    <3>3. ASSUME NEW j \in DOMAIN inbox'[s], inbox'[s][j].token = inbox[s][k + 1].token
          PROVE  j = k
      <4>1. j + 1 \in DOMAIN inbox[s] /\ inbox'[s][j] = inbox[s][j + 1]
        BY <1>1
      <4>2. j + 1 = k + 1
        BY <1>2, <3>1, <3>3, <4>1 DEF InboxAt
      <4> QED BY <1>1, <2>2, <4>2
    <3>4. u \in Tokens /\ u # t /\ u = inbox[s][k + 1].token
      BY <2>2, <3>1, <3>2
    <3> QED BY <1>2, <1>4, <2>2, <3>1, <3>3, <3>4 DEF InboxAt
  <2> QED BY <2>1, <2>2
<1>8. FreshInv'
  <2> SUFFICES ASSUME NEW u \in Tokens, u > token
               PROVE  said'[u] = <<>> /\ \A v \in Servers : ~Service!Announced(v, u)'
    BY DEF FreshInv, clientVars
  <2>1. u # t
    BY <1>3, <1>4, TokenNat
  <2> QED BY <1>4, <2>1 DEF FreshInv
<1>9. CallInv'
  <2> SUFFICES ASSUME call.kind \in {"query", "async", "lists", "write"}, NEW v \in Servers
               PROVE  LET u == call.tokens[v] IN
                      /\ u \in Tokens /\ ServerOf(u) = v /\ u <= token
                      /\ \A k \in DOMAIN inbox'[v] :
                           inbox'[v][k].token = u => inbox'[v][k].fn = Asks
                      /\ said'[u] # <<>> => said'[u][1].kind = Gets
    BY DEF CallInv, clientVars, Asks, Gets
  <2> DEFINE u == call.tokens[v]
  <2>1. /\ u \in Tokens /\ ServerOf(u) = v /\ u <= token
        /\ \A k \in DOMAIN inbox[v] : inbox[v][k].token = u => inbox[v][k].fn = Asks
        /\ said[u] # <<>> => said[u][1].kind = Gets
    BY DEF CallInv
  <2> HIDE DEF u
  <2>2. ASSUME NEW k \in DOMAIN inbox'[v], inbox'[v][k].token = u
        PROVE  inbox'[v][k].fn = Asks
    <3>1. CASE v # s
      BY <1>1, <2>1, <2>2, <3>1
    <3>2. CASE v = s
      <4>1. k + 1 \in DOMAIN inbox[s] /\ inbox'[s][k] = inbox[s][k + 1]
        BY <1>1, <3>2
      <4> QED BY <2>1, <2>2, <3>2, <4>1
    <3> QED BY <3>1, <3>2
  <2>3. said'[u] # <<>> => said'[u][1].kind = Gets
    <3>1. CASE u # t
      BY <1>4, <2>1, <3>1
    <3>2. CASE u = t
      <4>1. Head(inbox[s]).fn = Asks
        BY <1>1, <1>2, <1>3, <2>1, <3>2
      <4>2. m.kind = Gets
        BY <4>1 DEF Asks, Gets
      <4> QED BY <1>5, <3>2, <4>2
    <3> QED BY <3>1, <3>2
  <2> QED BY <2>1, <2>2, <2>3 DEF u
<1> QED BY <1>3, <1>5, <1>6, <1>7, <1>8, <1>9

LEMMA SaidKept ==
    ASSUME NEW u \in Tokens, SaidAt(u), said'[u] = said[u],
           Service!Announced(ServerOf(u), u)' <=> Service!Announced(ServerOf(u), u),
           Service!Announced(ServerOf(u), u) =>
             ChunksOf(ServerOf(u), u)' = ChunksOf(ServerOf(u), u),
           \A w \in written \cup failed :
             w \in written' \cup failed' /\ (w \in written' <=> w \in written),
           answered \subseteq answered'
    PROVE  SaidAt(u)'
<1> SUFFICES ASSUME NEW n \in DOMAIN said[u], NEW m, m = said[u][n]
             PROVE  /\ m.token = u /\ m.server = ServerOf(u)
                    /\ m.kind = "chunk" <=> n > 1
                    /\ m.kind = "value" => ~Service!Announced(ServerOf(u), u)'
                    /\ m.kind = "list" => Service!Announced(ServerOf(u), u)'
                                          /\ m.chunks = ChunksOf(ServerOf(u), u)'
                    /\ m.kind = "chunk" =>
                         /\ Service!Announced(ServerOf(u), u)'
                         /\ LET w == [client |-> ServerOf(u), token |-> u, chunk |-> m.chunk]
                            IN  /\ w \in written' \cup failed'
                                /\ m.success = (w \in written')
                                /\ \E a \in answered' : a[1] = w
                         /\ \A k \in DOMAIN said[u] :
                              said[u][k].kind = "chunk" /\ said[u][k].chunk = m.chunk => k = n
  BY DEF SaidAt
<1> QED BY DEF SaidAt

\* A state in which nothing has happened to the servers' words.
LEMMA SaidInvKept ==
    ASSUME SaidInv, UNCHANGED <<said, announced>>,
           \A u \in Tokens : Service!Announced(ServerOf(u), u) =>
             ChunksOf(ServerOf(u), u)' = ChunksOf(ServerOf(u), u),
           \A w \in written \cup failed :
             w \in written' \cup failed' /\ (w \in written' <=> w \in written),
           answered \subseteq answered'
    PROVE  SaidInv'
<1>1. \A v, u : Service!Announced(v, u)' <=> Service!Announced(v, u)
  BY AnnouncedKept
<1>2. ASSUME NEW u \in Tokens PROVE SaidAt(u)'
  BY <1>1, SaidKept DEF SaidInv
<1> QED BY <1>2 DEF SaidInv

LEMMA AnswersStep ==
    ASSUME TypeOK, InboxInv, FreshInv, ServiceInv, SaidInv, LostInv, CallInv,
           NEW s \in Servers, ServerAnswers(s)
    PROVE  InboxInv' /\ FreshInv' /\ ServiceInv' /\ SaidInv' /\ LostInv' /\ CallInv'
<1>1. PICK m \in Messages :
        /\ m = [kind |-> "value", server |-> s, token |-> Head(inbox[s]).token]
        /\ Say(s, m) /\ m.token \in Tokens
  <2>1. Head(inbox[s]).token \in Tokens
    BY FrontRequest DEF ServerAnswers, Asked
  <2>2. [kind |-> "value", server |-> s, token |-> Head(inbox[s]).token] \in Messages
    BY <2>1 DEF Messages
  <2> QED BY <2>1, <2>2 DEF ServerAnswers
<1>2. m.kind = "value" /\ m.server = s /\ m.token = Head(inbox[s]).token
  BY <1>1
<1> DEFINE t == m.token
<1>3. UNCHANGED serviceVars /\ UNCHANGED clientVars
  BY DEF ServerAnswers
<1>4. \A v, u : Service!Announced(v, u)' <=> Service!Announced(v, u)
  BY <1>3, AnnouncedKept DEF serviceVars
<1>5. inbox[s] # <<>> /\ Head(inbox[s]).fn = "get" /\ inbox' = [inbox EXCEPT ![s] = Tail(@)]
  BY DEF ServerAnswers, Asked
<1>6. m.kind = IF Head(inbox[s]).fn = "get" THEN "value" ELSE "list"
  BY <1>2, <1>5
<1>7. /\ InboxInv' /\ FreshInv' /\ LostInv' /\ CallInv'
      /\ ServerOf(t) = s /\ ~Service!Announced(s, t)
      /\ said[t] = <<>> /\ said'[t][1] = m /\ DOMAIN said'[t] = 1 .. 1
  BY <1>1, <1>2, <1>3, <1>4, <1>5, <1>6, AnswerStep
<1>8. \A u \in Tokens \ {t} : said'[u] = said[u]
  BY <1>1, SayIs
<1>9. SaidInv'
  <2>1. ASSUME NEW u \in Tokens PROVE SaidAt(u)'
    <3>1. CASE u # t
      <4>1. ChunksOf(ServerOf(u), u)' = ChunksOf(ServerOf(u), u)
        BY <1>3 DEF ChunksOf, serviceVars
      <4> QED BY <1>3, <1>4, <1>8, <3>1, <4>1, SaidKept DEF SaidInv, serviceVars
    <3>2. CASE u = t
      BY <1>2, <1>4, <1>7, <3>2 DEF SaidAt
    <3> QED BY <3>1, <3>2
  <2> QED BY <2>1 DEF SaidInv
<1>10. ServiceInv'
  <2>1. ASSUME NEW v \in Servers, NEW u \in Tokens, Service!Announced(v, u)
        PROVE  said'[u] # <<>> /\ ServerOf(u) = v
    <3>1. said[u] # <<>> /\ ServerOf(u) = v
      BY <2>1 DEF ServiceInv
    <3> QED BY <1>7, <1>8, <3>1
  <2> QED BY <1>3, <1>4, <2>1 DEF ServiceInv, serviceVars
<1> QED BY <1>7, <1>9, <1>10

LEMMA AnnouncesStep ==
    ASSUME TypeOK, InboxInv, FreshInv, ServiceInv, SaidInv, LostInv, CallInv,
           NEW s \in Servers, ServerAnnounces(s)
    PROVE  InboxInv' /\ FreshInv' /\ ServiceInv' /\ SaidInv' /\ LostInv' /\ CallInv'
<1> DEFINE t == Head(inbox[s]).token
<1>1. /\ inbox[s] # <<>> /\ Head(inbox[s]).fn = "write_chunks"
      /\ inbox' = [inbox EXCEPT ![s] = Tail(@)] /\ t \in Tokens
      /\ Service!Announce(s, t) /\ UNCHANGED clientVars
  BY FrontRequest DEF ServerAnnounces, Asked
<1>2. PICK m \in Messages :
        /\ m.kind = "list" /\ m.server = s /\ m.token = t /\ m.chunks = ChunksOf(s, t)
        /\ Say(s, m)
  <2> DEFINE C == ChunksOf(s, t)
  <2>1. PICK n \in 0 .. 1 :
          Say(s, [kind |-> "list", server |-> s, token |-> t, refused |-> n, chunks |-> C])
    <3>1. \E n \in IF MayRefuse THEN 0 .. 1 ELSE {0} :
            Say(s, [kind |-> "list", server |-> s, token |-> t, refused |-> n, chunks |-> C])
      BY DEF ServerAnnounces, ChunksOf
    <3>2. (IF MayRefuse THEN 0 .. 1 ELSE {0}) \subseteq 0 .. 1
      OBVIOUS
    <3> QED BY <3>1, <3>2
  <2>2. C \in SUBSET Chunks
    BY ChunksType
  <2> HIDE DEF C, t
  <2>3. [kind |-> "list", server |-> s, token |-> t, refused |-> n, chunks |-> C] \in Messages
    BY <1>1, <2>2 DEF Messages
  <2> QED BY <2>1, <2>3 DEF C
<1> HIDE DEF t
<1>3. UNCHANGED <<accepted, written, failed, answered>>
  BY <1>1 DEF Service!Announce
<1>4. \A v, u : Service!Announced(v, u)' <=> (Service!Announced(v, u) \/ (v = s /\ u = t))
  <2>1. PICK b : b[1] = s /\ b[2] = t /\ announced' = announced \cup {b}
    BY <1>1 DEF Service!Announce
  <2> QED BY <2>1 DEF Service!Announced
<1>5. m.kind = IF Head(inbox[s]).fn = "get" THEN "value" ELSE "list"
  BY <1>1, <1>2
<1>6. /\ InboxInv' /\ FreshInv' /\ LostInv' /\ CallInv'
      /\ ServerOf(t) = s
      /\ said[t] = <<>> /\ said'[t][1] = m /\ DOMAIN said'[t] = 1 .. 1 /\ Len(said'[t]) = 1
  <2>1. m.token = Head(inbox[s]).token
    BY <1>2 DEF t
  <2> QED BY <1>1, <1>2, <1>4, <1>5, <2>1, AnswerStep
<1>7. \A u \in Tokens \ {t} : said'[u] = said[u]
  BY <1>2, SayIs
<1>8. \A v, u : ChunksOf(v, u)' = ChunksOf(v, u)
  BY <1>3 DEF ChunksOf
<1>9. SaidInv'
  <2>1. ASSUME NEW u \in Tokens PROVE SaidAt(u)'
    <3>1. CASE u # t
      BY <1>3, <1>4, <1>7, <1>8, <3>1, SaidKept DEF SaidInv
    <3>2. CASE u = t
      BY <1>2, <1>4, <1>6, <1>8, <3>2 DEF SaidAt
    <3> QED BY <3>1, <3>2
  <2> QED BY <2>1 DEF SaidInv
<1>10. ServiceInv'
  <2>1. ASSUME NEW v \in Servers, NEW u \in Tokens, Service!Announced(v, u)'
        PROVE  said'[u] # <<>> /\ ServerOf(u) = v
    <3>1. CASE Service!Announced(v, u)
      <4>1. said[u] # <<>> /\ ServerOf(u) = v
        BY <3>1 DEF ServiceInv
      <4> QED BY <1>6, <1>7, <4>1
    <3>2. CASE v = s /\ u = t
      BY <1>6, <3>2
    <3> QED BY <1>4, <2>1, <3>1, <3>2
  <2> QED BY <1>3, <2>1 DEF ServiceInv
<1> QED BY <1>6, <1>9, <1>10

LEMMA AcceptsStep ==
    ASSUME TypeOK, ServiceInv, SaidInv,
           NEW s \in Servers, NEW k \in Chunks, ServerAccepts(s, k)
    PROVE  ServiceInv' /\ SaidInv'
<1>1. PICK w : w = [client |-> s, token |-> Head(inbox[s]).token, chunk |-> k]
  OBVIOUS
<1>2. /\ ~Service!Announced(w.client, w.token) /\ accepted' = accepted \cup {w}
      /\ UNCHANGED <<written, failed, announced, answered, said>>
  BY <1>1 DEF ServerAccepts, Service!Accept
<1>3. \A v, u : Service!Announced(v, u)' <=> Service!Announced(v, u)
  BY <1>2, AnnouncedKept
<1>4. ServiceInv'
  BY <1>2, <1>3, FS_AddElement DEF ServiceInv
<1>5. ASSUME NEW u \in Tokens, Service!Announced(ServerOf(u), u)
      PROVE  ChunksOf(ServerOf(u), u)' = ChunksOf(ServerOf(u), u)
  <2>1. ~(w.client = ServerOf(u) /\ w.token = u)
    BY <1>2, <1>5
  <2> QED BY <1>2, <2>1 DEF ChunksOf
<1>6. SaidInv'
  BY <1>2, <1>5, SaidInvKept
<1> QED BY <1>4, <1>6

LEMMA FinishesStep ==
    ASSUME TypeOK, ServiceInv, SaidInv, NEW w \in Writes, ServerFinishes(w)
    PROVE  ServiceInv' /\ SaidInv'
<1>1. /\ w \in accepted \ (written \cup failed)
      /\ \/ written' = written \cup {w} /\ failed' = failed
         \/ failed' = failed \cup {w} /\ written' = written
      /\ UNCHANGED <<accepted, announced, answered, said>>
  BY DEF ServerFinishes, Service!Finish
<1>2. \A v, u : Service!Announced(v, u)' <=> Service!Announced(v, u)
  BY <1>1, AnnouncedKept
<1>3. ServiceInv'
  BY <1>1, <1>2 DEF ServiceInv
<1>4. \A v, u : ChunksOf(v, u)' = ChunksOf(v, u)
  BY <1>1 DEF ChunksOf
<1>5. SaidInv'
  BY <1>1, <1>4, SaidInvKept
<1> QED BY <1>3, <1>5

LEMMA ReportsStep ==
    ASSUME TypeOK, InboxInv, FreshInv, ServiceInv, SaidInv, LostInv, CallInv,
           NEW w \in Writes, ServerReports(w)
    PROVE  InboxInv' /\ FreshInv' /\ ServiceInv' /\ SaidInv' /\ LostInv' /\ CallInv'
<1> DEFINE s == w.client
           t == w.token
<1>1. /\ s \in Servers /\ t \in Tokens
      /\ w = [client |-> s, token |-> t, chunk |-> w.chunk]
  BY DEF Writes
<1>2. /\ w \in written \cup failed /\ Service!Announced(s, t)
      /\ \A a \in answered : a[1] # w
      /\ UNCHANGED <<accepted, written, failed, announced, clientVars, inbox>>
  BY DEF ServerReports, Service!Answer
<1>3. answered \subseteq answered' /\ \E a \in answered' : a[1] = w
  <2>1. PICK b : b[1] = w /\ answered' = answered \cup {b}
    BY DEF ServerReports, Service!Answer
  <2> QED BY <2>1
<1>4. PICK m \in Messages :
        /\ m.kind = "chunk" /\ m.server = s /\ m.token = t /\ m.chunk = w.chunk
        /\ m.success = (w \in written)
        /\ Say(s, m)
  <2>1. [kind |-> "chunk", server |-> w.client, token |-> w.token, chunk |-> w.chunk,
         success |-> w \in written] \in Messages
    BY DEF Messages, Writes
  <2> QED BY <2>1 DEF ServerReports
<1> HIDE DEF s, t
<1>5. \A v, u : Service!Announced(v, u)' <=> Service!Announced(v, u)
  BY <1>2, AnnouncedKept
<1>6. said[t] # <<>> /\ ServerOf(t) = s
  BY <1>1, <1>2 DEF ServiceInv
<1> DEFINE L == Len(said[t])
<1>7. /\ L \in Nat /\ L >= 1 /\ DOMAIN said[t] = 1 .. L
      /\ DOMAIN said'[t] = 1 .. L + 1 /\ said'[t][L + 1] = m
      /\ \A n \in 1 .. L : said'[t][n] = said[t][n]
      /\ \A u \in Tokens \ {t} : said'[u] = said[u]
  <2>1. said[t] \in Seq(Messages)
    BY <1>1, Types
  <2>2. said'[t] = Append(said[t], m) /\ \A u \in Tokens \ {t} : said'[u] = said[u]
    BY <1>1, <1>4, SayIs
  <2>3. L >= 1
    BY <1>6, <2>1, FrontType
  <2> QED BY <2>1, <2>2, <2>3, BackType
<1> HIDE DEF L
<1>8. said'[t] # <<>> /\ said'[t][1] = said[t][1]
  <2>1. 1 \in DOMAIN said'[t] /\ 1 \in 1 .. L
    BY <1>7
  <2> QED BY <1>7, <2>1
\* Nothing has been said of this write.
<1>9. ASSUME NEW n \in 1 .. L, said[t][n].kind = "chunk"
      PROVE  said[t][n].chunk # w.chunk
  <2>1. SUFFICES ASSUME said[t][n].chunk = w.chunk PROVE FALSE
    OBVIOUS
  <2>2. \E a \in answered : a[1] = [client |-> s, token |-> t, chunk |-> said[t][n].chunk]
    <3>1. SaidAt(t) /\ n \in DOMAIN said[t] /\ ServerOf(t) = s
      BY <1>1, <1>6, <1>7 DEF SaidInv
    <3> QED BY <1>9, <3>1 DEF SaidAt
  <2> QED BY <1>1, <1>2, <2>1, <2>2
<1>10. LostInv'
  <2>1. \A n \in 1 .. Len(said[m.token]) : said[m.token][n] # m
    BY <1>4, <1>9 DEF L
  <2> QED BY <1>1, <1>2, <1>4, <1>6, <2>1, SayLost DEF clientVars
<1>11. InboxInv'
  <2> SUFFICES ASSUME NEW v \in Servers, NEW k \in DOMAIN inbox[v],
                      NEW u, u = inbox[v][k].token
               PROVE  /\ ServerOf(u) = v /\ u <= token /\ said'[u] = <<>>
                      /\ ~Service!Announced(v, u)'
                      /\ \A j \in DOMAIN inbox[v] : inbox[v][j].token = u => j = k
    BY <1>2 DEF InboxInv, InboxAt, clientVars, Service!Announced
  <2>1. /\ ServerOf(u) = v /\ u <= token /\ said[u] = <<>>
        /\ ~Service!Announced(v, u)
        /\ \A j \in DOMAIN inbox[v] : inbox[v][j].token = u => j = k
    BY DEF InboxInv, InboxAt
  <2>2. u \in Tokens \ {t}
    BY <1>6, <2>1, RequestType
  <2> QED BY <1>5, <1>7, <2>1, <2>2
<1>12. FreshInv'
  BY <1>2, <1>5, <1>6, <1>7 DEF FreshInv, clientVars
<1>13. CallInv'
  <2>1. \A u \in Tokens : said'[u] # <<>> => said[u] # <<>> /\ said'[u][1] = said[u][1]
    BY <1>6, <1>7, <1>8
  <2> QED BY <1>2, <2>1 DEF CallInv, clientVars, Asks, Gets
<1>14. ServiceInv'
  <2>1. ASSUME NEW v \in Servers, NEW u \in Tokens, Service!Announced(v, u)
        PROVE  said'[u] # <<>> /\ ServerOf(u) = v
    <3>1. said[u] # <<>> /\ ServerOf(u) = v
      BY <2>1 DEF ServiceInv
    <3> QED BY <1>7, <1>8, <3>1
  <2> QED BY <1>2, <1>5, <2>1 DEF ServiceInv
<1>15. \A v, u : ChunksOf(v, u)' = ChunksOf(v, u)
  BY <1>2 DEF ChunksOf
<1>16. SaidInv'
  <2>1. ASSUME NEW u \in Tokens, u # t PROVE SaidAt(u)'
    BY <1>2, <1>3, <1>5, <1>7, <1>15, <2>1, SaidKept DEF SaidInv
  <2>2. SaidAt(t)'
    <3> SUFFICES ASSUME NEW n \in 1 .. L + 1, NEW x, x = said'[t][n]
                 PROVE  /\ x.token = t /\ x.server = s
                        /\ x.kind = "chunk" <=> n > 1
                        /\ x.kind = "value" => ~Service!Announced(s, t)
                        /\ x.kind = "list" => Service!Announced(s, t)
                                              /\ x.chunks = ChunksOf(s, t)
                        /\ x.kind = "chunk" =>
                             /\ Service!Announced(s, t)
                             /\ LET z == [client |-> s, token |-> t, chunk |-> x.chunk]
                                IN  /\ z \in written \cup failed
                                    /\ x.success = (z \in written)
                                    /\ \E a \in answered' : a[1] = z
                             /\ \A k \in 1 .. L + 1 :
                                  said'[t][k].kind = "chunk" /\ said'[t][k].chunk = x.chunk
                                    => k = n
      BY <1>2, <1>5, <1>6, <1>7, <1>15 DEF SaidAt
    <3>1. CASE n \in 1 .. L
      <4>1. x = said[t][n] /\ SaidAt(t) /\ n \in DOMAIN said[t]
        BY <1>1, <1>7, <3>1 DEF SaidInv
      <4>2. ASSUME x.kind = "chunk", NEW k \in 1 .. L + 1,
                   said'[t][k].kind = "chunk", said'[t][k].chunk = x.chunk
            PROVE  k = n
        <5>1. k \in 1 .. L
          BY <1>4, <1>7, <1>9, <3>1, <4>1, <4>2
        <5>2. k \in DOMAIN said[t] /\ said[t][k].kind = "chunk"
              /\ said[t][k].chunk = said[t][n].chunk /\ said[t][n].kind = "chunk"
          BY <1>7, <4>1, <4>2, <5>1
        <5> QED BY <4>1, <5>2 DEF SaidAt
      <4> QED BY <1>3, <1>6, <4>1, <4>2 DEF SaidAt
    <3>2. CASE n = L + 1
      <4>1. x = m /\ n > 1
        BY <1>7, <3>2
      <4>2. \A k \in 1 .. L + 1 :
              said'[t][k].kind = "chunk" /\ said'[t][k].chunk = x.chunk => k = n
        BY <1>4, <1>7, <1>9, <3>2, <4>1
      <4> QED BY <1>1, <1>2, <1>3, <1>4, <4>1, <4>2 DEF s, t
    <3> QED BY <1>7, <3>1, <3>2
  <2> QED BY <2>1, <2>2 DEF SaidInv
<1> QED BY <1>10, <1>11, <1>12, <1>13, <1>14, <1>16

-----------------------------------------------------------------------------
(* What the client takes from the sockets and from the buffers.            *)

LEMMA TakeLost ==
    ASSUME TypeOK, SaidInv, LostInv, TakeOneFromEach, UNCHANGED <<got, said>>
    PROVE  LostInv'
<1>1. ASSUME NEW s \in Readable
      PROVE  /\ s \in Servers /\ wire[s] # <<>> /\ wire[s] \in Seq(Messages)
             /\ wire'[s] = Tail(wire[s])
             /\ Head(wire[s]) = wire[s][1] /\ ServerOf(Head(wire[s]).token) = s
  <2>1. s \in Servers /\ wire[s] # <<>> /\ wire[s] \in Seq(Messages)
    BY Types DEF Readable
  <2>2. Head(wire[s]) = wire[s][1] /\ 1 \in DOMAIN wire[s]
    BY <2>1, FrontType
  <2> QED BY <2>1, <2>2 DEF TakeOneFromEach, LostInv
<1>2. ASSUME NEW s \in Servers \ Readable
      PROVE  wire'[s] = wire[s]
  BY DEF TakeOneFromEach, Readable
<1>3. ASSUME NEW t \in Tokens
      PROVE  Passes(got[t], received'[t], wire'[ServerOf(t)], said[t], t)
  <2> DEFINE s == ServerOf(t)
  <2>1. /\ s \in Servers /\ got[t] \in Seq(Messages) /\ received[t] \in Seq(Messages)
        /\ said[t] \in Seq(Messages) /\ wire[s] \in Seq(Messages)
        /\ Passes(got[t], received[t], wire[s], said[t], t)
    BY Types, ServerOfToken DEF LostInv, LostAt
  <2>2. CASE \E r \in Readable : Head(wire[r]).token = t
    <3>1. PICK r \in Readable : r = CHOOSE v \in Readable : Head(wire[v]).token = t
      BY <2>2
    <3>2. Head(wire[r]).token = t
      BY <2>2, <3>1
    <3>3. r = s
      BY <1>1, <3>2
    <3>4. received'[t] = Append(received[t], Head(wire[s]))
      BY <2>2, <3>1, <3>3 DEF TakeOneFromEach
    <3>5. wire[s] # <<>> /\ wire'[s] = Tail(wire[s]) /\ Head(wire[s]).token = t
      BY <1>1, <3>2, <3>3
    <3> HIDE DEF s
    <3>6. Passes(got[t], Append(received[t], Head(wire[s])), Tail(wire[s]), said[t], t)
      BY <2>1, <3>5, PassesTaken
    <3> QED BY <3>4, <3>5, <3>6 DEF s
  <2>3. CASE ~\E r \in Readable : Head(wire[r]).token = t
    <3>1. received'[t] = received[t]
      BY <2>3 DEF TakeOneFromEach
    <3>2. CASE s \in Readable
      <4>1. wire[s] # <<>> /\ wire'[s] = Tail(wire[s]) /\ Head(wire[s]).token # t
        BY <1>1, <2>3, <3>2
      <4>2. \A n \in 1 .. Len(said[t]) : said[t][n].token = t
        <5>1. DOMAIN said[t] = 1 .. Len(said[t])
          BY <2>1, LenProperties
        <5> QED BY <5>1 DEF SaidInv, SaidAt
      <4> HIDE DEF s
      <4>3. Passes(got[t], received[t], Tail(wire[s]), said[t], t)
        BY <2>1, <4>1, <4>2, PassesSkipped
      <4> QED BY <3>1, <4>1, <4>3 DEF s
    <3>3. CASE s \notin Readable
      BY <1>2, <2>1, <3>1, <3>3
    <3> QED BY <3>2, <3>3
  <2> QED BY <2>2, <2>3
<1>4. ASSUME NEW s \in Servers, NEW k \in DOMAIN wire'[s]
      PROVE  ServerOf(wire'[s][k].token) = s
  <2>1. CASE s \in Readable
    <3>1. k + 1 \in DOMAIN wire[s] /\ wire'[s][k] = wire[s][k + 1]
      <4>1. wire[s] \in Seq(Messages) /\ wire[s] # <<>> /\ wire'[s] = Tail(wire[s])
        BY <1>1, <2>1
      <4>2. /\ Len(wire[s]) \in Nat /\ DOMAIN wire[s] = 1 .. Len(wire[s])
            /\ DOMAIN wire'[s] = 1 .. Len(wire[s]) - 1
            /\ \A j \in 1 .. Len(wire[s]) - 1 : wire'[s][j] = wire[s][j + 1]
        BY <4>1, FrontType
      <4>3. k \in 1 .. Len(wire[s]) - 1
        BY <4>2
      <4> QED BY <4>2, <4>3
    <3> QED BY <3>1 DEF LostInv
  <2>2. CASE s \notin Readable
    BY <1>2, <2>2 DEF LostInv
  <2> QED BY <2>1, <2>2
<1> QED BY <1>3, <1>4 DEF LostInv, LostAt

LEMMA ScanLost ==
    ASSUME TypeOK, LostInv, Scan
    PROVE  /\ LostInv'
           /\ \A t \in Tokens :
                \/ got'[t] = got[t] /\ received'[t] = received[t]
                   /\ ~(t \in wait.todo /\ received[t] # <<>>)
                \/ /\ t \in wait.todo /\ received[t] # <<>>
                   /\ Len(got'[t]) = Len(got[t]) + 1 /\ Len(got[t]) \in Nat
                   /\ \A n \in 1 .. Len(got[t]) : got'[t][n] = got[t][n]
<1> DEFINE done == {t \in wait.todo : received[t] # <<>>}
<1>1. UNCHANGED <<wire, said>>
  BY DEF Scan, serverVars
<1>2. ASSUME NEW t \in Tokens
      PROVE  /\ Passes(got'[t], received'[t], wire[ServerOf(t)], said[t], t)
             /\ \/ got'[t] = got[t] /\ received'[t] = received[t] /\ t \notin done
                \/ /\ t \in done
                   /\ Len(got'[t]) = Len(got[t]) + 1 /\ Len(got[t]) \in Nat
                   /\ \A n \in 1 .. Len(got[t]) : got'[t][n] = got[t][n]
  <2>1. /\ got[t] \in Seq(Messages) /\ received[t] \in Seq(Messages)
        /\ said[t] \in Seq(Messages) /\ wire[ServerOf(t)] \in Seq(Messages)
        /\ Passes(got[t], received[t], wire[ServerOf(t)], said[t], t)
    BY Types, ServerOfToken DEF LostInv, LostAt
  <2>2. CASE t \in done
    <3>1. got'[t] = Append(got[t], Head(received[t])) /\ received'[t] = Tail(received[t])
          /\ received[t] # <<>>
      BY <2>2 DEF Scan
    <3>2. Head(received[t]) \in Messages
      BY <2>1, <3>1, FrontType
    <3> HIDE DEF done
    <3>3. Passes(got'[t], received'[t], wire[ServerOf(t)], said[t], t)
      BY <2>1, <3>1, PassesHandedOver
    <3> QED BY <2>1, <2>2, <3>1, <3>2, <3>3, BackType
  <2>3. CASE t \notin done
    <3>1. got'[t] = got[t] /\ received'[t] = received[t]
      BY <2>3 DEF Scan
    <3> QED BY <2>1, <2>3, <3>1
  <2> QED BY <2>2, <2>3
<1> QED BY <1>1, <1>2 DEF LostInv, LostAt

-----------------------------------------------------------------------------
(* The replies to a call that writes.                                      *)

LEMMA ChunksFinite ==
    ASSUME TypeOK, ServiceInv, NEW s, NEW t
    PROVE  IsFiniteSet(ChunksOf(s, t)) /\ Cardinality(ChunksOf(s, t)) \in Nat
<1> DEFINE A == {v \in accepted : v.client = s /\ v.token = t}
           f == [v \in A |-> v.chunk]
<1>1. IsFiniteSet(A)
  BY FS_Subset DEF ServiceInv
<1>2. f \in Surjection(A, ChunksOf(s, t))
  BY Fun_IsSurj DEF ChunksOf
<1> QED BY <1>1, <1>2, FS_Surjection, FS_CardinalityType

LEMMA GotIsSaid ==
    ASSUME TypeOK, LostInv, SaidInv, NEW t \in Tokens, NEW n \in 1 .. Len(got[t])
    PROVE  /\ got[t][n] = said[t][n] /\ n \in DOMAIN said[t]
           /\ said[t][n] \in Messages /\ said[t][n].token = t
           /\ said[t][n].server = ServerOf(t)
           /\ said[t][n].kind = "chunk" <=> n > 1
<1>1. got[t] \in Seq(Messages) /\ received[t] \in Seq(Messages) /\ said[t] \in Seq(Messages)
  BY Types
<1>2. Len(got[t]) \in Nat /\ Len(received[t]) \in Nat /\ Len(said[t]) \in Nat
      /\ DOMAIN said[t] = 1 .. Len(said[t])
  BY <1>1, LenProperties
<1>3. got[t][n] = said[t][n] /\ n \in DOMAIN said[t]
  <2>1. Passes(got[t], received[t], wire[ServerOf(t)], said[t], t)
    BY DEF LostInv, LostAt
  <2>2. Len(got[t]) + Len(received[t]) <= Len(said[t])
        /\ \A k \in 1 .. Len(got[t]) : got[t][k] = said[t][k]
    BY <2>1 DEF Passes
  <2>3. Len(got[t]) <= Len(said[t])
    BY <1>2, <2>2, AtMost
  <2> QED BY <1>2, <2>2, <2>3
<1>4. said[t][n] \in Messages
  BY <1>1, <1>3, ElementOfSeq, <1>2
<1> QED BY <1>3, <1>4 DEF SaidInv, SaidAt

\* The list a server has sent, by the time the caller has it.
LEMMA ListOfCall ==
    ASSUME TypeOK, ServiceInv, SaidInv, LostInv, CallInv, call.kind = "write",
           NEW s \in Servers, got[call.tokens[s]] # <<>>
    PROVE  LET t == call.tokens[s] IN
           /\ t \in Tokens /\ ServerOf(t) = s
           /\ RepliesExpected(t) \in Nat
           /\ Cardinality(ChunksOf(s, t)) \in Nat
           /\ RepliesExpected(t) >= Cardinality(ChunksOf(s, t))
           /\ Len(got[t]) \in Nat /\ Len(got[t]) >= 1
<1> DEFINE t == call.tokens[s]
<1>1. t \in Tokens /\ ServerOf(t) = s /\ (said[t] # <<>> => said[t][1].kind = Gets)
  BY DEF CallInv
<1> HIDE DEF t
<1>2. Len(got[t]) \in Nat /\ Len(got[t]) >= 1
  <2>1. got[t] \in Seq(Messages)
    BY <1>1, Types
  <2> QED BY <2>1, FrontType DEF t
<1>3. /\ got[t][1] = said[t][1] /\ 1 \in DOMAIN said[t] /\ said[t][1] \in Messages
  BY <1>1, <1>2, GotIsSaid
<1>4. said[t][1].kind = "list"
  BY <1>1, <1>3 DEF Gets
<1>5. said[t][1].chunks = ChunksOf(s, t)
  BY <1>1, <1>3, <1>4 DEF SaidInv, SaidAt
<1>6. said[t][1].refused \in 0 .. 1
  BY <1>3, <1>4 DEF Messages
<1>7. Cardinality(ChunksOf(s, t)) \in Nat
  BY ChunksFinite
<1>8. RepliesExpected(t) = Cardinality(ChunksOf(s, t)) + said[t][1].refused
  BY <1>3, <1>5 DEF RepliesExpected
<1> QED BY <1>1, <1>2, <1>6, <1>7, <1>8 DEF t

\* No server can say more than the list and one reply for each chunk in it.
LEMMA RepliesInjective ==
    ASSUME TypeOK, ServiceInv, SaidInv, NEW t \in Tokens
    PROVE  [n \in 2 .. Len(said[t]) |-> said[t][n].chunk]
             \in Injection(2 .. Len(said[t]), ChunksOf(ServerOf(t), t))
<1> DEFINE f == [n \in 2 .. Len(said[t]) |-> said[t][n].chunk]
<1>1. Len(said[t]) \in Nat /\ DOMAIN said[t] = 1 .. Len(said[t])
  BY Types, LenProperties
<1>2. ASSUME NEW n \in 2 .. Len(said[t])
      PROVE  /\ n \in DOMAIN said[t] /\ said[t][n].kind = "chunk"
             /\ said[t][n].chunk \in ChunksOf(ServerOf(t), t)
             /\ \A k \in DOMAIN said[t] :
                  said[t][k].kind = "chunk" /\ said[t][k].chunk = said[t][n].chunk => k = n
  <2>1. n \in DOMAIN said[t] /\ n > 1
    BY <1>1
  <2>2. said[t][n].kind = "chunk"
    BY <2>1 DEF SaidInv, SaidAt
  <2>3. [client |-> ServerOf(t), token |-> t, chunk |-> said[t][n].chunk] \in accepted
    BY <2>1, <2>2 DEF SaidInv, SaidAt, ServiceInv
  <2>4. said[t][n].chunk \in ChunksOf(ServerOf(t), t)
    BY <2>3 DEF ChunksOf
  <2> QED BY <2>1, <2>2, <2>4 DEF SaidInv, SaidAt
<1>3. f \in [2 .. Len(said[t]) -> ChunksOf(ServerOf(t), t)]
  BY <1>2
<1>4. ASSUME NEW a \in 2 .. Len(said[t]), NEW b \in 2 .. Len(said[t]), f[a] = f[b]
      PROVE  a = b
  BY <1>2, <1>4
<1> HIDE DEF f
<1>5. f \in Injection(2 .. Len(said[t]), ChunksOf(ServerOf(t), t))
  BY <1>3, <1>4, Fun_IsInj
<1> QED BY <1>5 DEF f

\* A call whose replies have all been handed over has had one for each chunk,
\* and there are no more.
LEMMA DoneHasAll ==
    ASSUME TypeOK, ServiceInv, SaidInv, LostInv, CallInv, call.kind = "write",
           NEW s \in Servers, got[call.tokens[s]] # <<>>, Done(s)
    PROVE  LET t == call.tokens[s] IN
           /\ Len(said[t]) = Len(got[t])
           /\ \A c \in ChunksOf(s, t) : \E n \in 2 .. Len(got[t]) : said[t][n].chunk = c
<1> DEFINE t == call.tokens[s]
           S == 2 .. Len(said[t])
           T == ChunksOf(s, t)
           f == [n \in S |-> said[t][n].chunk]
<1>1. /\ t \in Tokens /\ ServerOf(t) = s
      /\ RepliesExpected(t) \in Nat /\ Cardinality(T) \in Nat
      /\ RepliesExpected(t) >= Cardinality(T)
      /\ Len(got[t]) \in Nat /\ Len(got[t]) >= 1
  BY ListOfCall
<1>2. Len(got[t]) - 1 >= RepliesExpected(t)
  BY DEF Done
<1> HIDE DEF t
<1>3. Len(said[t]) \in Nat /\ Len(got[t]) <= Len(said[t])
  <2>1. said[t] \in Seq(Messages) /\ received[t] \in Seq(Messages)
    BY <1>1, Types
  <2>2. Len(said[t]) \in Nat /\ Len(received[t]) \in Nat
    BY <2>1, LenProperties
  <2>3. Passes(got[t], received[t], wire[ServerOf(t)], said[t], t)
    BY <1>1 DEF LostInv, LostAt
  <2>4. Len(got[t]) + Len(received[t]) <= Len(said[t])
    BY <2>3 DEF Passes
  <2> QED BY <1>1, <2>2, <2>4, AtMost
<1>4. f \in Injection(S, T)
  BY <1>1, RepliesInjective
<1>5. IsFiniteSet(T)
  BY ChunksFinite
<1> HIDE DEF f, T
<1>6. /\ Cardinality(S) <= Cardinality(T)
      /\ Cardinality(S) = Cardinality(T) => f \in Surjection(S, T)
  BY <1>4, <1>5, FS_Injection
<1>7. Cardinality(S) = Len(said[t]) - 1
  <2>1. PICK l \in Nat : l = Len(said[t]) /\ l >= 1
    BY <1>1, <1>3
  <2>2. Cardinality(2 .. l) = IF 2 > l THEN 0 ELSE l - 2 + 1
    BY FS_Interval
  <2> QED BY <2>1, <2>2
<1>8. Cardinality(S) = Cardinality(T) /\ Len(said[t]) = Len(got[t])
  BY <1>1, <1>2, <1>3, <1>6, <1>7
<1>9. ASSUME NEW c \in T PROVE \E n \in S : said[t][n].chunk = c
  <2>1. PICK n \in S : f[n] = c
    BY <1>6, <1>8, Fun_SurjectionProperties
  <2> QED BY <2>1 DEF f
<1> QED BY <1>8, <1>9 DEF t, T

-----------------------------------------------------------------------------
(* How far a call has come.                                                *)

\* Nothing happens to the call, but for the time it takes.
LEMMA WaitKept ==
    ASSUME WaitInv, UNCHANGED <<call, got, timedOut>>,
           all'.server = all.server, wait'.todo = wait.todo,
           \/ pc' = pc
           \/ pc \in {"scan", "drain", "poll", "waited"}
              /\ pc' \in {"scan", "drain", "poll", "waited"}
    PROVE  WaitInv'
<1>1. \A s : Done(s)' <=> Done(s)
  BY DEF Done, RepliesExpected
<1> QED BY <1>1 DEF WaitInv

LEMMA UserWait ==
    ASSUME TypeOK, WaitInv, User
    PROVE  WaitInv'
<1>1. CASE Idle
  BY <1>1, WaitKept DEF Idle, vars, clientVars
<1>2. ASSUME NEW t \in Timeouts, Query(t) PROVE WaitInv'
  <2>1. /\ call'.kind = "query" /\ all'.server = 0 /\ pc' = "scan"
        /\ \A s \in Servers : call'.tokens[s] = token + s /\ token + s \in wait'.todo
    BY <1>2 DEF Query, SendToAll, StartWait, NewTokens, NoAll
  <2> QED BY <2>1 DEF WaitInv
<1>3. ASSUME NEW t \in Timeouts, Collect(t) PROVE WaitInv'
  <2>1. call'.kind = "collect" /\ all'.server = 0 /\ pc' = "scan"
    BY <1>3 DEF Collect, StartWait, NoAll
  <2> QED BY <2>1 DEF WaitInv
<1>4. ASSUME NEW t \in Timeouts, NEW kind \in {"lists", "write"}, WriteChunks(kind, t)
      PROVE  WaitInv'
  <2>1. /\ call'.kind \in {"lists", "write"} /\ all'.server = 0 /\ pc' = "scan"
        /\ \A s \in Servers : call'.tokens[s] = token + s /\ token + s \in wait'.todo
    BY <1>4 DEF WriteChunks, SendToAll, StartWait, NewTokens, NoAll
  <2> QED BY <2>1 DEF WaitInv
<1>5. CASE Async
  <2>1. call'.kind = "async" /\ all'.server = 0 /\ pc' = "user"
    BY <1>5 DEF Async, SendToAll, NoAll
  <2> QED BY <2>1 DEF WaitInv
<1> QED BY <1>1, <1>2, <1>3, <1>4, <1>5 DEF User

LEMMA ScanWait ==
    ASSUME TypeOK, ServiceInv, SaidInv, LostInv, CallInv, WaitInv, Scan
    PROVE  WaitInv'
<1>1. /\ pc = "scan" /\ pc' \in {"waited", "drain"}
      /\ UNCHANGED <<call, all, timedOut>>
      /\ wait'.todo = wait.todo \ {t \in wait.todo : received[t] # <<>>}
  BY DEF Scan, TypeOK
<1>2. \A t \in Tokens :
        \/ got'[t] = got[t] /\ ~(t \in wait.todo /\ received[t] # <<>>)
        \/ /\ t \in wait.todo /\ received[t] # <<>>
           /\ Len(got'[t]) = Len(got[t]) + 1 /\ Len(got[t]) \in Nat
           /\ \A n \in 1 .. Len(got[t]) : got'[t][n] = got[t][n]
  BY ScanLost
<1>3. got' \in [Tokens -> Seq(Messages)]
  BY TypeStep DEF TypeOK, Next, Client
<1>4. ASSUME NEW t \in Tokens, Len(got'[t]) = Len(got[t]) + 1, Len(got[t]) \in Nat
      PROVE  got'[t] # <<>>
  BY <1>4
<1>5. ASSUME NEW s \in Servers, call.kind \in {"query", "write"}, all.server = 0
      PROVE  call.tokens[s] \in wait'.todo \/ got'[call.tokens[s]] # <<>>
  <2>1. call.tokens[s] \in Tokens
    BY <1>5 DEF CallInv
  <2>2. call.tokens[s] \in wait.todo \/ got[call.tokens[s]] # <<>>
    BY <1>1, <1>5 DEF WaitInv
  <2> QED BY <1>1, <1>2, <1>4, <2>1, <2>2
<1>6. ASSUME NEW s \in Servers, call.kind = "write", got[call.tokens[s]] # <<>>
      PROVE  got'[call.tokens[s]] # <<>> /\ (Done(s) => Done(s)')
  <2> DEFINE t == call.tokens[s]
  <2>1. /\ t \in Tokens /\ RepliesExpected(t) \in Nat
        /\ Len(got[t]) \in Nat /\ Len(got[t]) >= 1
    BY <1>6, ListOfCall
  <2>2. CASE got'[t] = got[t]
    BY <1>1, <1>6, <2>2 DEF Done, RepliesExpected
  <2>3. CASE Len(got'[t]) = Len(got[t]) + 1 /\ got'[t][1] = got[t][1]
    <3>1. RepliesExpected(t)' = RepliesExpected(t)
      BY <1>1, <2>3 DEF RepliesExpected
    <3>2. got'[t] # <<>>
      BY <1>4, <2>1, <2>3
    <3>3. Len(got[t]) - 1 >= RepliesExpected(t) => Len(got'[t]) - 1 >= RepliesExpected(t)
      BY <2>1, <2>3
    <3> QED BY <1>1, <3>1, <3>2, <3>3 DEF Done
  <2>4. 1 \in 1 .. Len(got[t])
    BY <2>1
  <2> QED BY <1>2, <2>1, <2>2, <2>3, <2>4
<1> QED BY <1>1, <1>5, <1>6 DEF WaitInv

LEMMA WaitedWait ==
    ASSUME TypeOK, WaitInv, Waited
    PROVE  WaitInv'
<1>1. /\ pc = "waited" /\ UNCHANGED <<call, got>>
      /\ timedOut' = (timedOut \/ wait.todo # {})
  BY DEF Waited
<1>2. ~timedOut' => ~timedOut /\ wait.todo = {}
  BY <1>1
<1>3. \A s : Done(s)' <=> Done(s)
  BY <1>1 DEF Done, RepliesExpected
<1>4. CASE all.server > 0
  <2>1. pc' = "writes" /\ all'.server = IF wait.todo # {} THEN all.server + 1 ELSE all.server
    <3>1. PICK a \in [server : Nat, timeout : Limits, elapsed : Nat] :
            a = Adjust(all) /\ a.server = all.server
      BY AdjustAllType
    <3>2. all' = [a EXCEPT !.server = IF wait.todo # {} THEN @ + 1 ELSE @] /\ pc' = "writes"
      BY <1>4, <3>1 DEF Waited
    <3> QED BY <3>1, <3>2
  <2>2. all.server \in Nat
    BY DEF TypeOK
  <2>3. call.kind = "write" /\ call'.kind = "write" /\ all'.server > 0
    BY <1>1, <1>4, <2>1, <2>2 DEF WaitInv
  <2>4. ~timedOut' => /\ \A s \in Servers : got'[call'.tokens[s]] # <<>>
                     /\ \A s \in Servers : s < all'.server => Done(s)'
    BY <1>1, <1>2, <1>3, <1>4, <2>1 DEF WaitInv
  <2> QED BY <2>1, <2>3, <2>4 DEF WaitInv
<1>5. CASE all.server = 0 /\ call.kind = "write"
  <2>1. pc' = "writes" /\ all'.server = 1
    BY <1>5 DEF Waited
  <2>2. \A s \in Servers : ~(s < 1)
    BY RpcClientAssumption DEF Servers
  <2>3. ~timedOut' => \A s \in Servers : got'[call'.tokens[s]] # <<>>
    BY <1>1, <1>2, <1>5 DEF WaitInv
  <2>4. call'.kind = "write" /\ all'.server > 0
    BY <1>1, <1>5, <2>1
  <2> QED BY <2>1, <2>2, <2>3, <2>4 DEF WaitInv
<1>6. CASE all.server = 0 /\ call.kind # "write"
  <2>1. pc' = "user" /\ UNCHANGED all
    BY <1>6 DEF Waited
  <2> QED BY <1>1, <1>2, <1>3, <1>6, <2>1 DEF WaitInv
<1>7. all.server \in Nat
  BY DEF TypeOK
<1> QED BY <1>4, <1>5, <1>6, <1>7

LEMMA NextWriteWait ==
    ASSUME TypeOK, WaitInv, NextWrite
    PROVE  WaitInv'
<1>1. pc = "writes" /\ UNCHANGED <<call, got, timedOut>>
  BY DEF NextWrite
<1>2. \A s : Done(s)' <=> Done(s)
  BY <1>1 DEF Done, RepliesExpected
<1>3. all.server \in Nat /\ all.server > 0 /\ call.kind = "write"
      /\ NumServers \in Nat
  BY <1>1, RpcClientAssumption DEF TypeOK, WaitInv
<1> DEFINE t == call.tokens[all.server]
<1>4. CASE all.server > NumServers /\ pc' = "user" /\ UNCHANGED <<all, wait>>
  BY <1>1, <1>2, <1>3, <1>4 DEF WaitInv
<1>5. CASE /\ all.server <= NumServers
           /\ got[t] = <<>> \/ Len(got[t]) - 1 >= RepliesExpected(t)
           /\ all' = [all EXCEPT !.server = @ + 1] /\ UNCHANGED <<pc, wait>>
  <2>1. all'.server = all.server + 1 /\ pc' = "writes"
    BY <1>1, <1>5 DEF TypeOK
  <2>2. all.server \in Servers
    BY <1>3, <1>5 DEF Servers
  <2>3. ~timedOut => Done(all.server)
    BY <1>3, <1>5, <2>2 DEF WaitInv, Done
  <2>4. ASSUME NEW s \in Servers, s < all.server + 1 PROVE s < all.server \/ s = all.server
    BY <1>3, <2>4 DEF Servers
  <2> QED BY <1>1, <1>2, <1>3, <2>1, <2>3, <2>4 DEF WaitInv
<1>6. CASE all.server <= NumServers /\ StartWait({t}, all.timeout) /\ UNCHANGED all
  <2>1. pc' = "scan"
    BY <1>6 DEF StartWait
  <2> QED BY <1>1, <1>2, <1>3, <1>6, <2>1 DEF WaitInv
<1> QED BY <1>4, <1>5, <1>6 DEF NextWrite

LEMMA ClientWait ==
    ASSUME TypeOK, ServiceInv, SaidInv, LostInv, CallInv, WaitInv, Client
    PROVE  WaitInv'
<1>1. CASE Scan
  BY <1>1, ScanWait
<1>2. CASE Drain
  BY <1>2, WaitKept DEF Drain
<1>3. CASE Drained
  <2>1. wait'.todo = wait.todo
    BY <1>3, AdjustWaitType DEF Drained
  <2> QED BY <1>3, <2>1, WaitKept DEF Drained
<1>4. CASE PollWakes
  <2>1. wait'.todo = wait.todo
    BY <1>4, AdjustWaitType DEF PollWakes
  <2> QED BY <1>4, <2>1, WaitKept DEF PollWakes
<1>5. CASE Tick
  <2>1. wait'.todo = wait.todo /\ all'.server = all.server
    BY <1>5 DEF Tick, TypeOK
  <2> QED BY <1>5, <2>1, WaitKept DEF Tick
<1>6. CASE PollExpires
  BY <1>6, WaitKept DEF PollExpires
<1>7. CASE Waited
  BY <1>7, WaitedWait
<1>8. CASE NextWrite
  BY <1>8, NextWriteWait
<1> QED BY <1>1, <1>2, <1>3, <1>4, <1>5, <1>6, <1>7, <1>8 DEF Client

-----------------------------------------------------------------------------
(* The inductive invariant.                                                *)

LEMMA ServerOfFirst == ASSUME NEW s \in Servers PROVE ServerOf(s) = s
<1> DEFINE x == s - 1
<1>1. x \in Nat /\ NumServers \in Nat /\ x < NumServers /\ s = x + 1
  BY RpcClientAssumption DEF Servers
<1>2. ServerOf(s) = (x % NumServers) + 1
  BY DEF ServerOf
<1> HIDE DEF x
<1>3. x % NumServers = x
  BY <1>1, RemainderSmall
<1> QED BY <1>1, <1>2, <1>3

LEMMA InitInv == Init => IInv
<1> SUFFICES ASSUME Init PROVE IInv
  OBVIOUS
<1> USE DEF Init
<1>1. NumServers \in Nat /\ NumServers * MaxCalls \in Nat
  BY RpcClientAssumption, Product
<1>2. TypeOK
  <2>1. call \in Calls
    BY DEF Calls
  <2>2. <<>> \in Seq(Messages) /\ <<>> \in Seq([fn : {"get", "write_chunks"}, token : Tokens])
    BY EmptySeq
  <2>3. /\ received \in [Tokens -> Seq(Messages)] /\ got \in [Tokens -> Seq(Messages)]
        /\ said \in [Tokens -> Seq(Messages)] /\ wire \in [Servers -> Seq(Messages)]
        /\ inbox \in [Servers -> Seq([fn : {"get", "write_chunks"}, token : Tokens])]
    BY <2>2
  <2>4. /\ token \in 0 .. NumServers * MaxCalls /\ left \in Limits
        /\ accepted \subseteq Writes
    BY <1>1 DEF Limits, Service!Init
  <2>5. /\ wait \in [todo : SUBSET Tokens, timeout : Limits, elapsed : Nat]
        /\ all \in [server : Nat, timeout : Limits, elapsed : Nat]
    BY NoAllType, NoWaitType
  <2> QED BY <2>1, <2>3, <2>4, <2>5 DEF TypeOK
<1>3. NextTokenInv
  <2>1. \A s \in Servers : 0 + s = s
    BY DEF Servers
  <2> QED BY <2>1, ServerOfFirst DEF NextTokenInv
<1>4. \A s, t : ~Service!Announced(s, t)
  BY DEF Service!Announced, Service!Init
<1>5. InboxInv /\ FreshInv /\ SaidInv
  BY <1>4, ServerOfToken DEF InboxInv, InboxAt, FreshInv, SaidInv, SaidAt
<1>6. ServiceInv
  BY <1>4, FS_EmptySet DEF ServiceInv, Service!Init
<1>7. LostInv
  <2>1. ASSUME NEW t \in Tokens PROVE LostAt(t)
    <3>1. got[t] = <<>> /\ received[t] = <<>> /\ said[t] = <<>> /\ wire[ServerOf(t)] = <<>>
      BY ServerOfToken
    <3>2. Len(<<>>) = 0 /\ 1 .. 0 = {} /\ 0 + 0 + 1 .. 0 = {}
      BY EmptySeq
    <3>3. Passes(<<>>, <<>>, <<>>, <<>>, t)
      BY <3>2 DEF Passes
    <3> QED BY <3>1, <3>3 DEF LostAt
  <2> QED BY <2>1 DEF LostInv
<1>8. CallInv /\ WaitInv
  BY DEF CallInv, WaitInv, NoAll
<1> QED BY <1>2, <1>3, <1>5, <1>6, <1>7, <1>8 DEF IInv

\* What has not changed is as it was.
LEMMA ServersKept ==
    ASSUME IInv, UNCHANGED <<got, received, wire, said, serviceVars>>
    PROVE  ServiceInv' /\ SaidInv' /\ LostInv'
<1>1. \A s, t : Service!Announced(s, t)' <=> Service!Announced(s, t)
  BY AnnouncedKept DEF serviceVars
<1>2. ServiceInv'
  BY <1>1 DEF IInv, ServiceInv, serviceVars
<1>3. \A s, t : ChunksOf(s, t)' = ChunksOf(s, t)
  BY DEF ChunksOf, serviceVars
<1>4. SaidInv'
  BY <1>3, SaidInvKept DEF IInv, serviceVars
<1>5. LostInv'
  BY DEF IInv, LostInv, LostAt
<1> QED BY <1>2, <1>4, <1>5

LEMMA TokensKept ==
    ASSUME IInv, UNCHANGED <<token, inbox, said, announced>>
    PROVE  NextTokenInv' /\ InboxInv' /\ FreshInv'
<1>1. NextTokenInv'
  BY DEF IInv, NextTokenInv
<1>2. InboxInv' /\ FreshInv'
  BY DEF IInv, InboxInv, InboxAt, FreshInv, Service!Announced
<1> QED BY <1>1, <1>2

LEMMA CallKept ==
    ASSUME IInv, UNCHANGED <<token, call, inbox, said>>
    PROVE  CallInv'
  BY DEF IInv, CallInv, Asks, Gets

LEMMA StutterStep == ASSUME IInv, UNCHANGED vars PROVE IInv'
<1>1. TypeOK'
  BY TypeStep DEF IInv
<1>2. WaitInv'
  BY WaitKept DEF IInv, vars, clientVars
<1>3. CallInv'
  BY CallKept DEF vars, clientVars, serverVars
<1> QED BY <1>1, <1>2, <1>3, ServersKept, TokensKept
    DEF IInv, vars, clientVars, serverVars, serviceVars

LEMMA UserStep == ASSUME IInv, User PROVE IInv'
<1>1. TypeOK'
  BY TypeStep DEF IInv, Next
<1>2. WaitInv'
  BY UserWait DEF IInv
<1>3. CASE Idle
  BY <1>3, StutterStep DEF Idle
<1>4. ASSUME NEW t \in Timeouts, Query(t) PROVE IInv'
  <2>1. SendToAll("query", "get", t)
    BY <1>4 DEF Query
  <2>2. NextTokenInv' /\ InboxInv' /\ FreshInv' /\ CallInv'
    BY <2>1, SendStep DEF IInv
  <2> QED BY <1>1, <1>2, <2>1, <2>2, ServersKept DEF IInv, SendToAll
<1>5. ASSUME NEW t \in Timeouts, Collect(t) PROVE IInv'
  <2>1. CallInv'
    BY <1>5 DEF Collect, CallInv
  <2> QED BY <1>1, <1>2, <1>5, <2>1, ServersKept, TokensKept
      DEF IInv, Collect, serverVars, serviceVars
<1>6. ASSUME NEW t \in Timeouts, NEW kind \in {"lists", "write"}, WriteChunks(kind, t)
      PROVE  IInv'
  <2>1. SendToAll(kind, "write_chunks", t)
    BY <1>6 DEF WriteChunks
  <2>2. NextTokenInv' /\ InboxInv' /\ FreshInv' /\ CallInv'
    BY <2>1, SendStep DEF IInv
  <2> QED BY <1>1, <1>2, <2>1, <2>2, ServersKept DEF IInv, SendToAll
<1>7. CASE Async
  <2>1. SendToAll("async", "get", -1)
    BY <1>7 DEF Async
  <2>2. NextTokenInv' /\ InboxInv' /\ FreshInv' /\ CallInv'
    BY <2>1, SendStep DEF IInv
  <2> QED BY <1>1, <1>2, <2>1, <2>2, ServersKept DEF IInv, SendToAll
<1> QED BY <1>3, <1>4, <1>5, <1>6, <1>7 DEF User

LEMMA ClientStep == ASSUME IInv, Client PROVE IInv'
<1>1. TypeOK'
  BY TypeStep DEF IInv, Next
<1>2. WaitInv'
  BY ClientWait DEF IInv
<1>3. UNCHANGED <<token, call, inbox, said, serviceVars>>
  BY DEF Client, Scan, Drain, Drained, PollWakes, Tick, PollExpires, Waited, NextWrite,
         serverVars
<1>4. NextTokenInv' /\ InboxInv' /\ FreshInv' /\ CallInv'
  BY <1>3, TokensKept, CallKept DEF serviceVars
<1>5. \A s, t : Service!Announced(s, t)' <=> Service!Announced(s, t)
  BY <1>3, AnnouncedKept DEF serviceVars
<1>6. ServiceInv'
  BY <1>3, <1>5 DEF IInv, ServiceInv, serviceVars
<1>7. SaidInv'
  <2>1. \A s, t : ChunksOf(s, t)' = ChunksOf(s, t)
    BY <1>3 DEF ChunksOf, serviceVars
  <2> QED BY <1>3, <2>1, SaidInvKept DEF IInv, serviceVars
<1>8. LostInv'
  <2>1. CASE Scan
    BY <2>1, ScanLost DEF IInv
  <2>2. CASE Drain \/ PollWakes
    BY <2>2, TakeLost DEF IInv, Drain, PollWakes
  <2>3. CASE Drained \/ Tick \/ PollExpires \/ Waited \/ NextWrite
    BY <2>3, ServersKept
       DEF Drained, Tick, PollExpires, Waited, NextWrite, serverVars
  <2> QED BY <2>1, <2>2, <2>3 DEF Client
<1> QED BY <1>1, <1>2, <1>4, <1>6, <1>7, <1>8 DEF IInv

LEMMA ServerStep ==
    ASSUME IInv, Next, UNCHANGED clientVars,
           \/ \E s \in Servers :
                \/ ServerAnswers(s) \/ ServerAnnounces(s) \/ ServerDies(s)
                \/ \E k \in Chunks : ServerAccepts(s, k)
           \/ \E w \in Writes : ServerFinishes(w) \/ ServerReports(w)
    PROVE  IInv'
<1>1. TypeOK'
  BY TypeStep DEF IInv
<1>2. NextTokenInv' /\ WaitInv'
  <2>1. WaitInv'
    BY WaitKept DEF IInv, clientVars
  <2> QED BY <2>1 DEF IInv, NextTokenInv, clientVars
<1>3. ASSUME UNCHANGED <<inbox, wire, said>>
      PROVE  /\ LostInv' /\ CallInv'
             /\ announced' = announced => InboxInv' /\ FreshInv'
  <2>1. LostInv'
    BY <1>3 DEF IInv, LostInv, LostAt, clientVars
  <2> QED BY <1>3, <2>1, CallKept, TokensKept DEF clientVars
<1>4. ASSUME NEW s \in Servers, ServerAnswers(s) PROVE IInv'
  BY <1>1, <1>2, <1>4, AnswersStep DEF IInv
<1>5. ASSUME NEW s \in Servers, ServerAnnounces(s) PROVE IInv'
  BY <1>1, <1>2, <1>5, AnnouncesStep DEF IInv
<1>6. ASSUME NEW s \in Servers, ServerDies(s) PROVE IInv'
  <2>1. UNCHANGED <<inbox, wire, said, serviceVars>>
    BY <1>6 DEF ServerDies
  <2>2. ServiceInv' /\ SaidInv' /\ LostInv'
    BY <2>1, ServersKept DEF clientVars
  <2> QED BY <1>1, <1>2, <1>3, <2>1, <2>2 DEF IInv, serviceVars
<1>7. ASSUME NEW s \in Servers, NEW k \in Chunks, ServerAccepts(s, k) PROVE IInv'
  <2>1. UNCHANGED <<inbox, wire, said, announced>>
    BY <1>7 DEF ServerAccepts, Service!Accept
  <2> QED BY <1>1, <1>2, <1>3, <1>7, <2>1, AcceptsStep DEF IInv
<1>8. ASSUME NEW w \in Writes, ServerFinishes(w) PROVE IInv'
  <2>1. UNCHANGED <<inbox, wire, said, announced>>
    BY <1>8 DEF ServerFinishes, Service!Finish
  <2> QED BY <1>1, <1>2, <1>3, <1>8, <2>1, FinishesStep DEF IInv
<1>9. ASSUME NEW w \in Writes, ServerReports(w) PROVE IInv'
  BY <1>1, <1>2, <1>9, ReportsStep DEF IInv
<1> QED BY <1>4, <1>5, <1>6, <1>7, <1>8, <1>9

\* The client and its servers stay in states of the inductive invariant.
THEOREM Invariance == Spec => []IInv
<1>1. IInv /\ [Next]_vars => IInv'
  <2> SUFFICES ASSUME IInv, [Next]_vars PROVE IInv'
    OBVIOUS
  <2>1. CASE User
    BY <2>1, UserStep
  <2>2. CASE Client
    BY <2>2, ClientStep
  <2>3. CASE /\ Next
             /\ \/ \E s \in Servers :
                     \/ ServerAnswers(s) \/ ServerAnnounces(s) \/ ServerDies(s)
                     \/ \E k \in Chunks : ServerAccepts(s, k)
                \/ \E w \in Writes : ServerFinishes(w) \/ ServerReports(w)
    <3>1. UNCHANGED clientVars
      BY <2>3 DEF ServerAnswers, ServerAnnounces, ServerDies, ServerAccepts,
                  ServerFinishes, ServerReports
    <3> QED BY <2>3, <3>1, ServerStep
  <2>4. CASE UNCHANGED vars
    BY <2>4, StutterStep
  <2> QED BY <2>1, <2>2, <2>3, <2>4 DEF Next
<1> QED BY <1>1, InitInv, PTL DEF Spec

-----------------------------------------------------------------------------
(* The theorems.                                                           *)

\* Whatever users call, servers answer and messages pass, the client's buffers,
\* tokens and waits are what the code takes them for.
THEOREM TypeCorrect == Spec => []TypeOK
<1>1. IInv => TypeOK
  BY DEF IInv
<1> QED BY <1>1, Invariance, PTL

\* No message is lost, repeated or put before one sent earlier for the same
\* token, for any number of servers and calls (rpc_client.py:549-616).
THEOREM MessagesPass == Spec => []NothingLost
<1>1. IInv => NothingLost
  <2> SUFFICES ASSUME IInv, NEW t \in Tokens
               PROVE  LET have == got[t] \o received[t]
                          way  == wire[ServerOf(t)]
                      IN  /\ Len(have) <= Len(said[t])
                          /\ \A n \in DOMAIN have : have[n] = said[t][n]
                          /\ \A n \in Len(have) + 1 .. Len(said[t]) :
                                \E k \in DOMAIN way : way[k] = said[t][n]
                          /\ \A k \in DOMAIN way : way[k].token = t =>
                                \E n \in Len(have) + 1 .. Len(said[t]) : way[k] = said[t][n]
                          /\ \A j, k \in DOMAIN way, m, n \in DOMAIN said[t] :
                                way[j] = said[t][m] /\ way[k] = said[t][n]
                                  => (j < k <=> m < n)
    BY DEF NothingLost
  <2> DEFINE have == got[t] \o received[t]
             way  == wire[ServerOf(t)]
             g == Len(got[t])
             r == Len(received[t])
  <2>1. got[t] \in Seq(Messages) /\ received[t] \in Seq(Messages)
        /\ said[t] \in Seq(Messages) /\ way \in Seq(Messages)
    BY Types, ServerOfToken DEF IInv
  <2>2. Passes(got[t], received[t], way, said[t], t)
    BY DEF IInv, LostInv, LostAt
  <2>3. /\ g \in Nat /\ r \in Nat /\ have \in Seq(Messages) /\ Len(have) = g + r
        /\ \A n \in 1 .. g + r : have[n] = IF n <= g THEN got[t][n] ELSE received[t][n - g]
    BY <2>1, ConcatProperties, LenProperties
  <2>4. DOMAIN have = 1 .. g + r /\ DOMAIN said[t] = 1 .. Len(said[t])
        /\ DOMAIN way = 1 .. Len(way)
    BY <2>1, <2>3, LenProperties
  <2> HIDE DEF have, way
  <2>5. ASSUME NEW n \in 1 .. g + r PROVE have[n] = said[t][n]
    <3>1. /\ \A k \in 1 .. g : got[t][k] = said[t][k]
          /\ \A k \in 1 .. r : received[t][k] = said[t][g + k]
      BY <2>2 DEF Passes
    <3>2. have[n] = IF n <= g THEN got[t][n] ELSE received[t][n - g]
      BY <2>3
    <3>3. g \in Nat /\ r \in Nat
      BY <2>3
    <3> HIDE DEF g, r
    <3>4. n <= g => n \in 1 .. g
      BY <3>3
    <3>5. ~(n <= g) => n - g \in 1 .. r /\ g + (n - g) = n
      BY <3>3
    <3> QED BY <3>1, <3>2, <3>4, <3>5
  <2> QED BY <2>2, <2>3, <2>4, <2>5 DEF Passes, have, way
<1> QED BY <1>1, Invariance, PTL

\* An answer the caller gets is from the server it asked, and of the kind it
\* takes it for (rpc_client.py:388-391, 419-436).
THEOREM AnswersAreOwn == Spec => []OwnAnswers
<1>1. IInv => OwnAnswers
  <2> SUFFICES ASSUME IInv, NEW t \in Tokens, NEW n \in DOMAIN got[t]
               PROVE  /\ got[t][n].token = t
                      /\ got[t][n].server = ServerOf(t)
                      /\ got[t][n].kind = "chunk" <=> n > 1
    BY DEF OwnAnswers
  <2>1. n \in 1 .. Len(got[t])
    BY Types, LenProperties DEF IInv
  <2> QED BY <2>1, GotIsSaid DEF IInv
<1> QED BY <1>1, Invariance, PTL

\* write_chunks(waitAll=True), unless it times out, returns when all writes the
\* servers have accepted for it have ended: it counts the replies, no two are
\* of one chunk, and so it has one for each (rpc_client.py:409-440).
THEOREM WritesAwaited == Spec => []WaitAllWaits
<1>1. IInv => WaitAllWaits
  <2> SUFFICES ASSUME IInv, pc = "user", call.kind = "write", ~timedOut,
                      NEW w \in accepted, w.token = call.tokens[w.client]
               PROVE  /\ w \in written \cup failed
                      /\ \E n \in DOMAIN got[w.token] :
                           LET m == got[w.token][n] IN
                           m.kind = "chunk" /\ m.chunk = w.chunk
                                            /\ m.success = (w \in written)
    BY DEF WaitAllWaits
  <2> DEFINE s == w.client
             t == w.token
  <2>1. /\ s \in Servers /\ t = call.tokens[s]
        /\ w = [client |-> s, token |-> t, chunk |-> w.chunk]
    BY DEF IInv, TypeOK, Writes
  <2>2. got[t] # <<>> /\ Done(s)
    <3>1. all.server > NumServers /\ all.server \in Nat /\ NumServers \in Nat
      BY RpcClientAssumption DEF IInv, WaitInv, TypeOK
    <3>2. s < all.server /\ all.server > 0
      BY <2>1, <3>1 DEF Servers
    <3> QED BY <2>1, <3>2 DEF IInv, WaitInv
  <2>3. t \in Tokens /\ ServerOf(t) = s /\ Len(got[t]) \in Nat
    BY <2>1, <2>2, ListOfCall DEF IInv
  <2>4. w.chunk \in ChunksOf(s, t)
    BY DEF ChunksOf
  <2>5. PICK n \in 2 .. Len(got[t]) : said[t][n].chunk = w.chunk
    BY <2>1, <2>2, <2>4, DoneHasAll DEF IInv
  <2> HIDE DEF s, t
  <2>6. n \in 1 .. Len(got[t]) /\ n > 1
    BY <2>3
  <2>7. got[t][n] = said[t][n] /\ n \in DOMAIN said[t] /\ said[t][n].kind = "chunk"
    BY <2>3, <2>6, GotIsSaid DEF IInv
  <2>8. w \in written \cup failed /\ said[t][n].success = (w \in written)
    BY <2>1, <2>3, <2>5, <2>7 DEF IInv, SaidInv, SaidAt
  <2>9. n \in DOMAIN got[t]
    BY <2>3, <2>6, Types, LenProperties DEF IInv
  <2> QED BY <2>5, <2>7, <2>8, <2>9 DEF t
<1> QED BY <1>1, Invariance, PTL

\* A call that does not time out leaves no message behind: its servers say no
\* more than it waits for (rpc_client.py:409-440, 549-616).
THEOREM CallsLeaveNothing == Spec => []NothingLeftOver
<1>1. IInv => NothingLeftOver
  <2> SUFFICES ASSUME IInv, pc = "user", call.kind \in {"query", "write"}, ~timedOut,
                      NEW s \in Servers
               PROVE  /\ received[call.tokens[s]] = <<>>
                      /\ \A k \in DOMAIN wire[s] : wire[s][k].token # call.tokens[s]
    BY DEF NothingLeftOver
  <2> DEFINE t == call.tokens[s]
  <2>1. /\ t \in Tokens /\ ServerOf(t) = s
        /\ said[t] # <<>> => said[t][1].kind = Gets
    BY DEF IInv, CallInv
  <2>2. /\ got[t] \in Seq(Messages) /\ received[t] \in Seq(Messages)
        /\ said[t] \in Seq(Messages) /\ wire[s] \in Seq(Messages)
    BY <2>1, Types DEF IInv
  <2>3. /\ Len(got[t]) \in Nat /\ Len(received[t]) \in Nat /\ Len(said[t]) \in Nat
        /\ DOMAIN said[t] = 1 .. Len(said[t]) /\ DOMAIN wire[s] = 1 .. Len(wire[s])
    BY <2>2, LenProperties
  <2>4. Passes(got[t], received[t], wire[s], said[t], t)
    BY <2>1 DEF IInv, LostInv, LostAt
  <2>5. Len(said[t]) = Len(got[t])
    <3>1. CASE call.kind = "write"
      <4>1. all.server > NumServers /\ all.server \in Nat /\ NumServers \in Nat
        BY <3>1, RpcClientAssumption DEF IInv, WaitInv, TypeOK
      <4>2. s < all.server /\ all.server > 0
        BY <4>1 DEF Servers
      <4>3. got[t] # <<>> /\ Done(s)
        BY <4>2 DEF IInv, WaitInv
      <4> QED BY <3>1, <4>3, DoneHasAll DEF IInv
    <3>2. CASE call.kind = "query"
      <4>1. got[t] # <<>>
        BY <3>2 DEF IInv, WaitInv
      <4> HIDE DEF t
      <4>2. Len(got[t]) >= 1
        BY <2>2, <4>1, FrontType
      <4>3. Len(got[t]) <= Len(said[t])
        <5>1. Len(got[t]) + Len(received[t]) <= Len(said[t])
          BY <2>4 DEF Passes
        <5> QED BY <2>3, <5>1, AtMost
      <4>4. 1 \in DOMAIN said[t] /\ said[t][1].kind = "value"
        <5>1. 1 \in DOMAIN said[t] /\ said[t] # <<>>
          BY <2>3, <4>2, <4>3
        <5> QED BY <2>1, <3>2, <5>1 DEF Gets
      <4>5. SaidAt(t)
        BY <2>1 DEF IInv, SaidInv
      <4>6. ~Service!Announced(s, t)
        BY <2>1, <4>4, <4>5 DEF SaidAt
      <4>7. ~(Len(said[t]) > 1)
        <5>1. SUFFICES ASSUME Len(said[t]) > 1 PROVE FALSE
          OBVIOUS
        <5>2. 2 \in DOMAIN said[t] /\ 2 > 1
          BY <2>3, <5>1
        <5>3. said[t][2].kind = "chunk"
          BY <4>5, <5>2 DEF SaidAt
        <5>4. Service!Announced(s, t)
          BY <2>1, <4>5, <5>2, <5>3 DEF SaidAt
        <5> QED BY <4>6, <5>4
      <4> QED BY <2>3, <4>2, <4>3, <4>7
    <3> QED BY <3>1, <3>2
  <2> HIDE DEF t
  <2>6. Len(received[t]) = 0
    <3>1. Len(got[t]) + Len(received[t]) <= Len(said[t])
      BY <2>4 DEF Passes
    <3> QED BY <2>3, <2>5, <3>1, NoneLeft
  <2>7. received[t] = <<>>
    BY <2>2, <2>6, EmptySeq
  <2>8. Len(got[t]) + Len(received[t]) + 1 .. Len(said[t]) = {}
    BY <2>3, <2>5, <2>6
  <2>9. \A k \in DOMAIN wire[s] : wire[s][k].token # t
    BY <2>3, <2>4, <2>8 DEF Passes
  <2> QED BY <2>7, <2>9 DEF t
<1> QED BY <1>1, Invariance, PTL
-----------------------------------------------------------------------------
(* No poll in vain.  Calls return only under fairness (CallReturns), but    *)
(* that somebody can go on while a call polls is an invariant.              *)

\* A token that has been used has been answered, or its request is on its way.
AskedInv ==
    \A t \in 1 .. token :
        said[t] = <<>> =>
            \E k \in DOMAIN inbox[ServerOf(t)] : inbox[ServerOf(t)][k].token = t

\* A write that has been answered has been spoken of.
AnsweredInv ==
    \A a \in answered :
        /\ a[1] \in Writes
        /\ \E n \in DOMAIN said[a[1].token] :
             /\ said[a[1].token][n].kind = "chunk"
             /\ said[a[1].token][n].chunk = a[1].chunk

\* The loop over the servers waits for a reply of this one.
MoreToCome(t) ==
    /\ call.kind = "write" /\ all.server \in Servers /\ t = call.tokens[all.server]
    /\ got[t] # <<>> /\ Len(got[t]) - 1 < RepliesExpected(t)

\* What the client waits for, in the buffer as soon as there is any of it.
TodoInv ==
    /\ \A t \in wait.todo : t <= token /\ (got[t] = <<>> \/ MoreToCome(t))
    /\ \A t \in later : t <= token /\ got[t] = <<>>
    /\ later \cap wait.todo = {}
    /\ pc \in {"user", "writes"} => wait.todo = {}
    /\ pc \in {"drain", "poll"} => wait.todo # {}
    /\ (pc = "drain" /\ ~gotAny) \/ pc = "poll" =>
         \A t \in wait.todo : received[t] = <<>>

\* A call with a timeout has a limit to each of its waits.
LimitInv ==
    call.timeout >= 0 =>
        /\ pc \in {"scan", "drain", "poll", "waited"} => wait.timeout >= 0
        /\ pc = "poll" => left >= 0
        /\ all.server > 0 => all.timeout >= 0

PollInv == AskedInv /\ AnsweredInv /\ TodoInv /\ LimitInv

LEMMA NoneAtAll ==
    ASSUME NEW a \in Nat, NEW b \in Nat, a + b <= 0
    PROVE  a = 0
  OBVIOUS

LEMMA NoneAbove ==
    ASSUME NEW a \in Nat, NEW b \in Nat, a + 0 <= b, a + 0 + 1 .. b = {}
    PROVE  b = a
<1>1. a < b => b \in a + 0 + 1 .. b
  OBVIOUS
<1> QED BY <1>1

LEMMA UsedTokens == ASSUME TypeOK, NEW t \in 1 .. token PROVE t \in Tokens
<1>1. NumServers * MaxCalls \in Nat /\ token \in 0 .. NumServers * MaxCalls
  BY RpcClientAssumption, Product DEF TypeOK
<1> QED BY <1>1 DEF Tokens

\* What has been said of a token stays said.
LEMMA SayGrows ==
    ASSUME TypeOK, NEW s \in Servers, NEW m \in Messages, Say(s, m)
    PROVE  /\ \A u \in Tokens : \A n \in DOMAIN said[u] :
                n \in DOMAIN said'[u] /\ said'[u][n] = said[u][n]
           /\ \E n \in DOMAIN said'[m.token] : said'[m.token][n] = m
           /\ \A u \in Tokens : said'[u] = <<>> => u # m.token /\ said[u] = <<>>
<1>1. /\ said'[m.token] = Append(said[m.token], m) /\ m.token \in Tokens
      /\ \A u \in Tokens \ {m.token} : said'[u] = said[u]
  BY SayIs
<1> DEFINE q == said[m.token]
<1>2. q \in Seq(Messages)
  BY <1>1, Types
<1> HIDE DEF q
<1>3. /\ Len(q) \in Nat /\ DOMAIN Append(q, m) = 1 .. Len(q) + 1 /\ DOMAIN q = 1 .. Len(q)
      /\ Append(q, m)[Len(q) + 1] = m
      /\ \A k \in 1 .. Len(q) : Append(q, m)[k] = q[k]
  BY <1>2, BackType
<1>4. Append(q, m) # <<>>
  <2>1. Len(q) + 1 \in DOMAIN Append(q, m)
    BY <1>3
  <2> QED BY <2>1
<1>5. \A n \in DOMAIN q : n \in DOMAIN Append(q, m) /\ Append(q, m)[n] = q[n]
  BY <1>3
<1>6. \E n \in DOMAIN Append(q, m) : Append(q, m)[n] = m
  <2>1. Len(q) + 1 \in DOMAIN Append(q, m)
    BY <1>3
  <2> QED BY <1>3, <2>1
<1> QED BY <1>1, <1>4, <1>5, <1>6 DEF q

LEMMA AskedKept ==
    ASSUME AskedInv, UNCHANGED <<token, said, inbox>>
    PROVE  AskedInv'
  BY DEF AskedInv

LEMMA AskedSend ==
    ASSUME TypeOK, NextTokenInv, AskedInv, NEW kind, NEW fn \in {"get", "write_chunks"},
           NEW t, SendToAll(kind, fn, t)
    PROVE  AskedInv'
<1> SUFFICES ASSUME NEW u \in 1 .. token', said'[u] = <<>>
             PROVE  \E k \in DOMAIN inbox'[ServerOf(u)] : inbox'[ServerOf(u)][k].token = u
  BY DEF AskedInv
<1>1. token' = token + NumServers /\ UNCHANGED said
  BY DEF SendToAll
<1>2. ASSUME NEW s \in Servers
      PROVE  /\ Len(inbox[s]) \in Nat
             /\ DOMAIN inbox[s] = 1 .. Len(inbox[s])
             /\ DOMAIN inbox'[s] = 1 .. Len(inbox[s]) + 1
             /\ inbox'[s][Len(inbox[s]) + 1].token = token + s
             /\ \A k \in 1 .. Len(inbox[s]) : inbox'[s][k] = inbox[s][k]
  <2> DEFINE m == [fn |-> fn, token |-> token + s]
  <2>1. m.token = token + s /\ m \in [fn : {"get", "write_chunks"}, token : Tokens]
    BY CallTokens DEF SendToAll
  <2>2. inbox[s] \in Seq([fn : {"get", "write_chunks"}, token : Tokens])
    BY Types
  <2>3. inbox'[s] = Append(inbox[s], m)
    BY DEF SendToAll
  <2> HIDE DEF m
  <2> QED BY <2>1, <2>2, <2>3, BackType
<1>3. CASE u <= token
  <2>1. u \in 1 .. token
    BY <1>3, TokenNat
  <2>2. ServerOf(u) \in Servers
    BY <2>1, UsedTokens, ServerOfToken
  <2>3. PICK k \in DOMAIN inbox[ServerOf(u)] : inbox[ServerOf(u)][k].token = u
    BY <1>1, <2>1 DEF AskedInv
  <2>4. k \in DOMAIN inbox'[ServerOf(u)]
    BY <1>2, <2>2, <2>3
  <2> QED BY <1>2, <2>2, <2>3, <2>4
<1>4. CASE ~(u <= token)
  <2>1. PICK s \in Servers : u = token + s
    <3>1. u - token \in Servers /\ u = token + (u - token)
      BY <1>1, <1>4, TokenNat DEF Servers
    <3> QED BY <3>1
  <2>2. ServerOf(u) = s
    BY <2>1 DEF NextTokenInv
  <2>3. Len(inbox[s]) + 1 \in DOMAIN inbox'[s]
    BY <1>2
  <2> QED BY <1>2, <2>1, <2>2, <2>3
<1> QED BY <1>3, <1>4

\* A server answers the request at the front of its queue.
LEMMA AskedAnswer ==
    ASSUME TypeOK, AskedInv, NEW s \in Servers, NEW m \in Messages, Say(s, m),
           inbox[s] # <<>>, m.token = Head(inbox[s]).token,
           inbox' = [inbox EXCEPT ![s] = Tail(@)], UNCHANGED token
    PROVE  AskedInv'
<1> SUFFICES ASSUME NEW u \in 1 .. token, said'[u] = <<>>
             PROVE  \E k \in DOMAIN inbox'[ServerOf(u)] : inbox'[ServerOf(u)][k].token = u
  BY DEF AskedInv
<1>1. u \in Tokens /\ ServerOf(u) \in Servers
  BY UsedTokens, ServerOfToken
<1>2. u # m.token /\ said[u] = <<>>
  BY <1>1, SayGrows
<1>3. PICK k \in DOMAIN inbox[ServerOf(u)] : inbox[ServerOf(u)][k].token = u
  BY <1>2 DEF AskedInv
<1>4. CASE ServerOf(u) = s
  <2>1. /\ Head(inbox[s]) = inbox[s][1] /\ Len(inbox[s]) \in Nat
        /\ \A j \in 1 .. Len(inbox[s]) - 1 : Tail(inbox[s])[j] = inbox[s][j + 1]
        /\ DOMAIN inbox[s] = 1 .. Len(inbox[s])
        /\ DOMAIN Tail(inbox[s]) = 1 .. Len(inbox[s]) - 1
    BY FrontRequest
  <2>2. k # 1
    BY <1>2, <1>3, <1>4, <2>1
  <2>3. k - 1 \in 1 .. Len(inbox[s]) - 1 /\ (k - 1) + 1 = k
    BY <1>3, <1>4, <2>1, <2>2
  <2>4. inbox'[s] = Tail(inbox[s])
    BY DEF TypeOK
  <2>5. k - 1 \in DOMAIN inbox'[s] /\ inbox'[s][k - 1] = inbox[s][k]
    BY <2>1, <2>3, <2>4
  <2> QED BY <1>3, <1>4, <2>5
<1>5. CASE ServerOf(u) # s
  <2>1. inbox'[ServerOf(u)] = inbox[ServerOf(u)]
    BY <1>1, <1>5 DEF TypeOK
  <2> QED BY <1>3, <2>1
<1> QED BY <1>4, <1>5

LEMMA AnsweredKept ==
    ASSUME AnsweredInv, UNCHANGED answered,
           \A u \in Tokens : \A n \in DOMAIN said[u] :
             n \in DOMAIN said'[u] /\ said'[u][n] = said[u][n]
    PROVE  AnsweredInv'
<1>1. \A w \in Writes : w.token \in Tokens
  BY DEF Writes
<1> QED BY <1>1 DEF AnsweredInv

\* What a server says leaves no token without a request or an answer.
LEMMA ServerPoll ==
    ASSUME IInv, AskedInv, AnsweredInv, UNCHANGED clientVars,
           \/ \E s \in Servers :
                \/ ServerAnswers(s) \/ ServerAnnounces(s) \/ ServerDies(s)
                \/ \E k \in Chunks : ServerAccepts(s, k)
           \/ \E w \in Writes : ServerFinishes(w) \/ ServerReports(w)
    PROVE  AskedInv' /\ AnsweredInv'
<1>1. UNCHANGED token
  BY DEF clientVars
<1>2. ASSUME NEW s \in Servers, ServerAnswers(s) PROVE AskedInv' /\ AnsweredInv'
  <2>1. inbox[s] # <<>> /\ inbox' = [inbox EXCEPT ![s] = Tail(@)] /\ UNCHANGED answered
    BY <1>2 DEF ServerAnswers, Asked, serviceVars
  <2>2. PICK m \in Messages : m.token = Head(inbox[s]).token /\ Say(s, m)
    <3>1. Head(inbox[s]).token \in Tokens
      BY <2>1, FrontRequest DEF IInv
    <3>2. [kind |-> "value", server |-> s, token |-> Head(inbox[s]).token] \in Messages
      BY <3>1 DEF Messages
    <3> QED BY <1>2, <3>2 DEF ServerAnswers
  <2>3. AskedInv'
    BY <1>1, <2>1, <2>2, AskedAnswer DEF IInv
  <2>4. AnsweredInv'
    BY <2>1, <2>2, SayGrows, AnsweredKept DEF IInv
  <2> QED BY <2>3, <2>4
<1>3. ASSUME NEW s \in Servers, ServerAnnounces(s) PROVE AskedInv' /\ AnsweredInv'
  <2> DEFINE t == Head(inbox[s]).token
             C == ChunksOf(s, t)
  <2>1. /\ inbox[s] # <<>> /\ inbox' = [inbox EXCEPT ![s] = Tail(@)] /\ UNCHANGED answered
        /\ t \in Tokens
    BY <1>3, FrontRequest DEF IInv, ServerAnnounces, Asked, Service!Announce
  <2>2. PICK m \in Messages : m.token = t /\ Say(s, m)
    <3>1. PICK n \in 0 .. 1 :
            Say(s, [kind |-> "list", server |-> s, token |-> t, refused |-> n, chunks |-> C])
      <4>1. \E n \in IF MayRefuse THEN 0 .. 1 ELSE {0} :
              Say(s, [kind |-> "list", server |-> s, token |-> t, refused |-> n, chunks |-> C])
        BY <1>3 DEF ServerAnnounces, ChunksOf
      <4>2. (IF MayRefuse THEN 0 .. 1 ELSE {0}) \subseteq 0 .. 1
        OBVIOUS
      <4> QED BY <4>1, <4>2
    <3>2. C \in SUBSET Chunks
      BY ChunksType DEF IInv
    <3> HIDE DEF C, t
    <3>3. [kind |-> "list", server |-> s, token |-> t, refused |-> n, chunks |-> C] \in Messages
      BY <2>1, <3>2 DEF Messages
    <3> QED BY <3>1, <3>3
  <2>3. AskedInv'
    BY <1>1, <2>1, <2>2, AskedAnswer DEF IInv
  <2>4. AnsweredInv'
    BY <2>1, <2>2, SayGrows, AnsweredKept DEF IInv
  <2> QED BY <2>3, <2>4
<1>4. ASSUME UNCHANGED <<inbox, said, answered>> PROVE AskedInv' /\ AnsweredInv'
  BY <1>1, <1>4, AskedKept, AnsweredKept
<1>5. ASSUME NEW s \in Servers, ServerDies(s) PROVE AskedInv' /\ AnsweredInv'
  BY <1>4, <1>5 DEF ServerDies, serviceVars
<1>6. ASSUME NEW s \in Servers, NEW k \in Chunks, ServerAccepts(s, k)
      PROVE  AskedInv' /\ AnsweredInv'
  BY <1>4, <1>6 DEF ServerAccepts, Service!Accept
<1>7. ASSUME NEW w \in Writes, ServerFinishes(w) PROVE AskedInv' /\ AnsweredInv'
  BY <1>4, <1>7 DEF ServerFinishes, Service!Finish
<1>8. ASSUME NEW w \in Writes, ServerReports(w) PROVE AskedInv' /\ AnsweredInv'
  <2>1. UNCHANGED inbox
    BY <1>8 DEF ServerReports
  <2>2. PICK m \in Messages :
          m.kind = "chunk" /\ m.token = w.token /\ m.chunk = w.chunk /\ Say(w.client, m)
    <3>1. [kind |-> "chunk", server |-> w.client, token |-> w.token, chunk |-> w.chunk,
           success |-> w \in written] \in Messages
      BY DEF Messages, Writes
    <3> QED BY <1>8, <3>1 DEF ServerReports
  <2>3. w.client \in Servers /\ w.token \in Tokens
    BY DEF Writes
  <2>4. /\ \A u \in Tokens : \A n \in DOMAIN said[u] :
             n \in DOMAIN said'[u] /\ said'[u][n] = said[u][n]
        /\ \E n \in DOMAIN said'[w.token] : said'[w.token][n] = m
        /\ \A u \in Tokens : said'[u] = <<>> => said[u] = <<>>
    BY <2>2, <2>3, SayGrows DEF IInv
  <2>5. AskedInv'
    <3>1. ASSUME NEW u \in 1 .. token, said'[u] = <<>> PROVE said[u] = <<>>
      BY <2>4, <3>1, UsedTokens DEF IInv
    <3> QED BY <1>1, <2>1, <3>1 DEF AskedInv
  <2>6. PICK b : answered' = answered \cup {b} /\ b[1] = w
    <3>1. answered' = answered \cup {<<w, w \in written>>}
      BY <1>8 DEF ServerReports, Service!Answer
    <3>2. <<w, w \in written>>[1] = w
      OBVIOUS
    <3> QED BY <3>1, <3>2
  <2>7. ASSUME NEW a \in answered'
        PROVE  /\ a[1] \in Writes
               /\ \E n \in DOMAIN said'[a[1].token] :
                    /\ said'[a[1].token][n].kind = "chunk"
                    /\ said'[a[1].token][n].chunk = a[1].chunk
    <3>1. CASE a = b
      BY <2>2, <2>4, <2>6, <3>1
    <3>2. CASE a \in answered
      <4>1. a[1] \in Writes /\ a[1].token \in Tokens
        BY <3>2 DEF AnsweredInv, Writes
      <4>2. PICK n \in DOMAIN said[a[1].token] :
              /\ said[a[1].token][n].kind = "chunk"
              /\ said[a[1].token][n].chunk = a[1].chunk
        BY <3>2 DEF AnsweredInv
      <4> QED BY <2>4, <4>1, <4>2
    <3> QED BY <2>6, <2>7, <3>1, <3>2
  <2> QED BY <2>5, <2>7 DEF AnsweredInv
<1> QED BY <1>2, <1>3, <1>5, <1>6, <1>7, <1>8

-----------------------------------------------------------------------------
(* The client's waits.                                                     *)

\* Nobody has been handed a message of a token that has not been used.
LEMMA NewIsFresh ==
    ASSUME IInv, NEW t \in Tokens, said[t] = <<>>
    PROVE  got[t] = <<>>
<1>1. /\ got[t] \in Seq(Messages) /\ received[t] \in Seq(Messages)
      /\ Passes(got[t], received[t], wire[ServerOf(t)], <<>>, t)
  BY Types DEF IInv, LostInv, LostAt
<1>2. Len(got[t]) \in Nat /\ Len(received[t]) \in Nat
  BY <1>1, LenProperties
<1>3. Len(got[t]) + Len(received[t]) <= 0
  <2>1. Len(<<>>) = 0
    BY EmptySeq
  <2> QED BY <1>1, <2>1 DEF Passes
<1>4. Len(got[t]) = 0
  BY <1>2, <1>3, NoneAtAll
<1> QED BY <1>1, <1>4, EmptySeq

LEMMA NewTokensFresh ==
    ASSUME IInv, NEW kind, NEW fn, NEW t, SendToAll(kind, fn, t)
    PROVE  /\ \A u \in NewTokens : u \in Tokens /\ u > token /\ u <= token' /\ got[u] = <<>>
           /\ token <= token'
<1>1. ASSUME NEW s \in Servers
      PROVE  token + s \in Tokens /\ token + s > token /\ token + s <= token'
  BY CallTokens DEF IInv, SendToAll
<1>2. ASSUME NEW s \in Servers PROVE got[token + s] = <<>>
  <2>1. said[token + s] = <<>>
    BY <1>1 DEF IInv, FreshInv
  <2> QED BY <1>1, <2>1, NewIsFresh
<1>3. token <= token'
  BY TokenNat DEF IInv, SendToAll
<1> QED BY <1>1, <1>2, <1>3 DEF NewTokens

LEMMA LaterType == ASSUME IInv, NEW t \in later \cup wait.todo PROVE t \in Tokens /\ t \in Nat
  BY TokenNat DEF IInv, TypeOK

LEMMA UserTodo ==
    ASSUME IInv, TodoInv, User
    PROVE  TodoInv'
<1>1. pc = "user" /\ wait.todo = {}
  BY DEF TodoInv, User, Idle, Query, Async, Collect, WriteChunks, SendToAll
<1>2. token \in Nat
  BY TokenNat DEF IInv
<1>3. CASE Idle
  BY <1>3 DEF Idle, vars, clientVars, TodoInv, MoreToCome, RepliesExpected
<1>4. ASSUME NEW t, NEW kind, NEW fn, SendToAll(kind, fn, t),
             StartWait(NewTokens, Scaled(t)), UNCHANGED later
      PROVE  TodoInv'
  <2>1. /\ \A u \in NewTokens : u \in Tokens /\ u > token /\ u <= token' /\ got[u] = <<>>
        /\ token <= token'
    BY <1>4, NewTokensFresh
  <2>2. wait'.todo = NewTokens /\ pc' = "scan" /\ got' = got /\ token' \in Nat
    BY <1>4, TokenNat DEF StartWait, SendToAll, IInv
  <2>3. \A u \in later : u <= token' /\ u \notin NewTokens /\ got[u] = <<>>
    <3> SUFFICES ASSUME NEW u \in later
                 PROVE  u <= token' /\ u \notin NewTokens /\ got[u] = <<>>
      OBVIOUS
    <3>1. u \in Nat /\ u <= token /\ got[u] = <<>>
      BY LaterType DEF TodoInv
    <3> QED BY <1>2, <2>1, <2>2, <3>1
  <2> QED BY <1>4, <2>1, <2>2, <2>3 DEF TodoInv
<1>5. ASSUME NEW t \in Timeouts, Collect(t) PROVE TodoInv'
  <2>1. /\ wait'.todo = later /\ later' = {} /\ pc' = "scan"
        /\ UNCHANGED <<got, token>>
    BY <1>5 DEF Collect, StartWait
  <2> QED BY <2>1 DEF TodoInv
<1>6. CASE Async
  <2>1. SendToAll("async", "get", -1)
    BY <1>6 DEF Async
  <2>2. /\ \A u \in NewTokens : u \in Tokens /\ u > token /\ u <= token' /\ got[u] = <<>>
        /\ token <= token'
    BY <2>1, NewTokensFresh
  <2>3. /\ wait'.todo = {} /\ pc' = "user" /\ later' = later \cup NewTokens /\ got' = got
        /\ token' \in Nat
    BY <1>1, <1>6, TokenNat DEF Async, SendToAll, IInv
  <2>4. \A u \in later : u <= token'
    <3> SUFFICES ASSUME NEW u \in later PROVE u <= token'
      OBVIOUS
    <3>1. u \in Nat /\ u <= token
      BY LaterType DEF TodoInv
    <3> QED BY <1>2, <2>2, <2>3, <3>1
  <2> QED BY <2>2, <2>3, <2>4 DEF TodoInv
<1>7. ASSUME NEW t, Query(t) PROVE TodoInv'
  BY <1>4, <1>7 DEF Query
<1>8. ASSUME NEW t, NEW kind, WriteChunks(kind, t) PROVE TodoInv'
  BY <1>4, <1>8 DEF WriteChunks
<1> QED BY <1>3, <1>5, <1>6, <1>7, <1>8 DEF User

LEMMA ClientTodo ==
    ASSUME IInv, TodoInv, Client
    PROVE  TodoInv'
<1>1. UNCHANGED <<token, call, later>>
  BY DEF Client, Scan, Drain, Drained, PollWakes, Tick, PollExpires, Waited, NextWrite
<1>2. CASE Scan
  <2> DEFINE done == {t \in wait.todo : received[t] # <<>>}
  <2>1. /\ wait'.todo = wait.todo \ done /\ UNCHANGED all
        /\ pc' = IF wait.todo = done THEN "waited" ELSE "drain"
    BY <1>2 DEF Scan, IInv, TypeOK
  <2>2. ASSUME NEW t \in later \cup wait.todo, t \notin done
        PROVE  got'[t] = got[t] /\ received'[t] = received[t]
    BY <1>2, <2>2, LaterType DEF Scan
  <2>3. later \cap done = {}
    BY DEF TodoInv
  <2>4. ASSUME NEW t \in wait'.todo
        PROVE  /\ t <= token /\ (got'[t] = <<>> \/ MoreToCome(t)')
               /\ received'[t] = <<>> /\ t \notin later
    <3>1. t \in wait.todo /\ t \notin done
      BY <2>1
    <3>2. got'[t] = got[t] /\ received'[t] = <<>>
      BY <2>2, <3>1
    <3>3. MoreToCome(t) => MoreToCome(t)'
      BY <1>1, <2>1, <3>2 DEF MoreToCome, RepliesExpected
    <3> QED BY <3>1, <3>2, <3>3 DEF TodoInv
  <2>5. \A t \in later : got'[t] = <<>>
    BY <2>2, <2>3 DEF TodoInv
  <2>6. pc' = "drain" => wait'.todo # {}
    BY <2>1
  <2> QED BY <1>1, <2>1, <2>4, <2>5, <2>6 DEF TodoInv
<1>3. ASSUME wait'.todo = wait.todo, all'.server = all.server, UNCHANGED got,
             pc \in {"drain", "poll"}, pc' \in {"scan", "drain", "poll", "waited"},
             (pc' = "drain" /\ ~gotAny') \/ pc' = "poll" =>
               received' = received /\ (pc = "poll" \/ ~gotAny)
      PROVE  TodoInv'
  <2>1. \A t \in wait.todo : MoreToCome(t) => MoreToCome(t)'
    BY <1>1, <1>3 DEF MoreToCome, RepliesExpected
  <2> QED BY <1>1, <1>3, <2>1 DEF TodoInv
<1>4. CASE Drain
  BY <1>3, <1>4 DEF Drain
<1>5. CASE Drained
  <2>1. wait'.todo = wait.todo
    BY <1>5, AdjustWaitType DEF Drained, IInv
  <2> QED BY <1>3, <1>5, <2>1 DEF Drained
<1>6. CASE PollWakes
  <2>1. wait'.todo = wait.todo
    BY <1>6, AdjustWaitType DEF PollWakes, IInv
  <2> QED BY <1>3, <1>6, <2>1 DEF PollWakes
<1>7. CASE Tick
  <2>1. wait'.todo = wait.todo /\ all'.server = all.server
    BY <1>7 DEF Tick, IInv, TypeOK
  <2> QED BY <1>3, <1>7, <2>1 DEF Tick
<1>8. CASE PollExpires
  BY <1>3, <1>8 DEF PollExpires
<1>9. CASE Waited
  <2>1. wait'.todo = {} /\ pc' \in {"user", "writes"} /\ UNCHANGED got
    BY <1>9 DEF Waited, NoWait
  <2> QED BY <1>1, <2>1 DEF TodoInv
<1>10. CASE NextWrite
  <2>1. pc = "writes" /\ wait.todo = {} /\ UNCHANGED got
    BY <1>10 DEF NextWrite, TodoInv
  <2>2. CASE pc' \in {"user", "writes"} /\ UNCHANGED wait
    BY <1>1, <2>1, <2>2 DEF TodoInv
  <2> DEFINE t == call.tokens[all.server]
  <2>3. CASE /\ all.server <= NumServers
             /\ ~(got[t] = <<>> \/ Len(got[t]) - 1 >= RepliesExpected(t))
             /\ StartWait({t}, all.timeout) /\ UNCHANGED all
    <3>1. call.kind = "write" /\ all.server \in Servers
      <4>1. all.server > 0 /\ all.server \in Nat /\ NumServers \in Nat /\ call.kind = "write"
        BY <2>1, RpcClientAssumption DEF IInv, WaitInv, TypeOK
      <4> QED BY <2>3, <4>1 DEF Servers
    <3>2. t <= token
      BY <3>1 DEF IInv, CallInv
    <3>3. Len(got[t]) \in Nat /\ RepliesExpected(t) \in Nat
      BY <2>3, <3>1, ListOfCall DEF IInv
    <3>4. MoreToCome(t)
      <4> HIDE DEF t
      <4>1. Len(got[t]) - 1 < RepliesExpected(t)
        BY <2>3, <3>3
      <4> QED BY <2>3, <3>1, <4>1 DEF MoreToCome, t
    <3>5. wait'.todo = {t} /\ pc' = "scan"
      BY <2>3 DEF StartWait
    <3>6. \A u \in wait'.todo : u = t /\ MoreToCome(u)'
      BY <1>1, <2>1, <2>3, <3>4, <3>5 DEF MoreToCome, RepliesExpected
    <3>7. t \notin later /\ \A u \in later : u <= token /\ got[u] = <<>>
      BY <2>3 DEF TodoInv
    <3> HIDE DEF t
    <3>8. /\ \A u \in wait'.todo : u <= token' /\ MoreToCome(u)'
          /\ \A u \in later' : u <= token' /\ got'[u] = <<>>
          /\ later' \cap wait'.todo = {}
      BY <1>1, <2>1, <3>2, <3>6, <3>7
    <3> QED BY <3>5, <3>8 DEF TodoInv
  <2> QED BY <1>10, <2>1, <2>2, <2>3 DEF NextWrite
<1> QED BY <1>2, <1>4, <1>5, <1>6, <1>7, <1>8, <1>9, <1>10 DEF Client

LEMMA ScaledLimit == ASSUME NEW t \in Nat PROVE Scaled(t) \in Nat
<1>1. t * Second \in Nat /\ ~(t < 0)
  BY RpcClientAssumption, Product
<1> QED BY <1>1 DEF Scaled

\* Time that has passed uses a limit up, and does not take it away.
LEMMA AdjustLimit ==
    ASSUME TypeOK
    PROVE  /\ wait.timeout >= 0 => Adjust(wait).timeout >= 0
           /\ all.timeout >= 0 => Adjust(all).timeout >= 0
<1>1. /\ wait \in [todo : SUBSET Tokens, timeout : Limits, elapsed : Nat]
      /\ all \in [server : Nat, timeout : Limits, elapsed : Nat]
  BY DEF TypeOK
<1>2. ASSUME NEW x \in Limits, NEW e \in Nat, x >= 0
      PROVE  (IF x <= e /\ x > 0 THEN 0 ELSE IF x > 0 THEN x - e ELSE x) >= 0
  BY <1>2 DEF Limits
<1>3. /\ Adjust(wait).timeout =
           IF wait.timeout <= wait.elapsed /\ wait.timeout > 0 THEN 0
           ELSE IF wait.timeout > 0 THEN wait.timeout - wait.elapsed ELSE wait.timeout
      /\ Adjust(all).timeout =
           IF all.timeout <= all.elapsed /\ all.timeout > 0 THEN 0
           ELSE IF all.timeout > 0 THEN all.timeout - all.elapsed ELSE all.timeout
  BY <1>1 DEF Adjust
<1> QED BY <1>1, <1>2, <1>3

LEMMA LimitStep ==
    ASSUME IInv, LimitInv, [Next]_vars
    PROVE  LimitInv'
<1> USE DEF LimitInv
<1>1. CASE UNCHANGED clientVars
  BY <1>1 DEF clientVars
<1>2. ASSUME NEW t \in Timeouts, NEW tokens, StartWait(tokens, Scaled(t)),
             call'.timeout = t, all' = NoAll
      PROVE  LimitInv'
  <2>1. pc' = "scan" /\ wait'.timeout = Scaled(t) /\ all'.server = 0
    BY <1>2 DEF StartWait, NoAll
  <2>2. t >= 0 => Scaled(t) >= 0
    <3>1. t \in {-1} \cup Nat
      BY RpcClientAssumption
    <3>2. t >= 0 => t \in Nat
      BY <3>1
    <3> QED BY <3>2, ScaledLimit
  <2> QED BY <1>2, <2>1, <2>2
<1>3. CASE User
  <2>1. CASE Idle
    BY <1>1, <2>1 DEF Idle, vars
  <2>2. ASSUME NEW t \in Timeouts, Query(t) PROVE LimitInv'
    BY <1>2, <2>2 DEF Query, SendToAll
  <2>3. ASSUME NEW t \in Timeouts, Collect(t) PROVE LimitInv'
    BY <1>2, <2>3 DEF Collect
  <2>4. ASSUME NEW t \in Timeouts, NEW kind, WriteChunks(kind, t) PROVE LimitInv'
    BY <1>2, <2>4 DEF WriteChunks, SendToAll
  <2>5. CASE Async
    BY <2>5 DEF Async, SendToAll, NoAll
  <2> QED BY <1>3, <2>1, <2>2, <2>3, <2>4, <2>5 DEF User
<1>4. CASE Client
  <2>1. /\ wait \in [todo : SUBSET Tokens, timeout : Limits, elapsed : Nat]
        /\ all \in [server : Nat, timeout : Limits, elapsed : Nat] /\ left \in Limits
        /\ call' = call
    BY <1>4 DEF IInv, TypeOK, Client, Scan, Drain, Drained, PollWakes, Tick, PollExpires,
                Waited, NextWrite
  <2>2. CASE Scan
    <3>1. wait'.timeout = wait.timeout /\ UNCHANGED all /\ pc = "scan"
          /\ pc' \in {"waited", "drain"}
      BY <2>1, <2>2 DEF Scan
    <3> QED BY <2>1, <3>1
  <2>3. CASE Drain
    BY <2>1, <2>3 DEF Drain
  <2>4. CASE Drained
    <3>1. wait.timeout >= 0 => wait'.timeout >= 0
      BY <2>4, AdjustLimit DEF Drained, IInv
    <3>2. pc' = "poll" /\ wait.timeout >= 0 => left' >= 0
      <4> SUFFICES ASSUME pc' = "poll", wait.timeout >= 0 PROVE left' >= 0
        OBVIOUS
      <4>1. left' = wait.timeout \div Second
        BY <2>1, <2>4 DEF Drained, Limits
      <4>2. wait.timeout \in Nat /\ Second \in Nat /\ Second > 0
        BY <2>1, RpcClientAssumption DEF Limits
      <4> QED BY <4>1, <4>2, Quotient
    <3> QED BY <2>1, <2>4, <3>1, <3>2 DEF Drained
  <2>5. CASE PollWakes
    <3>1. wait.timeout >= 0 => wait'.timeout >= 0
      BY <2>5, AdjustLimit DEF PollWakes, IInv
    <3> QED BY <2>1, <2>5, <3>1 DEF PollWakes
  <2>6. CASE Tick
    <3>1. wait'.timeout = wait.timeout /\ all'.server = all.server
          /\ all'.timeout = all.timeout /\ left' >= 0 /\ UNCHANGED pc /\ pc = "poll"
      BY <2>1, <2>6 DEF Tick, Limits
    <3> QED BY <2>1, <3>1
  <2>7. CASE PollExpires
    BY <2>1, <2>7 DEF PollExpires
  <2>8. CASE Waited
    <3>1. pc' \in {"user", "writes"}
      BY <2>8 DEF Waited
    <3>2. call.timeout >= 0 /\ all'.server > 0 => all'.timeout >= 0
      <4>1. CASE all.server > 0
        <5>1. PICK a \in [server : Nat, timeout : Limits, elapsed : Nat] : a = Adjust(all)
          BY AdjustAllType DEF IInv
        <5>2. all' = [a EXCEPT !.server = IF wait.todo # {} THEN @ + 1 ELSE @]
          BY <2>8, <4>1, <5>1 DEF Waited
        <5>3. all'.timeout = Adjust(all).timeout
          BY <5>1, <5>2
        <5> QED BY <4>1, <5>3, AdjustLimit DEF IInv
      <4>2. CASE all.server = 0 /\ call.kind = "write"
        <5>1. all'.timeout = Scaled(call.timeout)
          BY <2>8, <4>2 DEF Waited
        <5>2. call.timeout >= 0 => call.timeout \in Nat
          <6>1. call.timeout \in {-1} \cup Timeouts
            BY DEF IInv, TypeOK, Calls
          <6>2. call.timeout \in {-1} \cup Nat
            BY <6>1, RpcClientAssumption
          <6> QED BY <6>2
        <5> QED BY <5>1, <5>2, ScaledLimit
      <4>3. CASE all.server = 0 /\ UNCHANGED all
        BY <4>3
      <4> QED BY <2>8, <4>1, <4>2, <4>3 DEF Waited
    <3> QED BY <2>1, <3>1, <3>2
  <2>9. CASE NextWrite
    <3>1. pc = "writes" /\ all.server > 0 /\ all.server \in Nat
      BY <2>1, <2>9 DEF NextWrite, IInv, WaitInv
    <3>2. CASE pc' \in {"user", "writes"} /\ all'.timeout = all.timeout
      BY <2>1, <3>1, <3>2
    <3>3. CASE pc' = "scan" /\ wait'.timeout = all.timeout /\ UNCHANGED all
      BY <2>1, <3>1, <3>3
    <3> QED BY <2>1, <2>9, <3>1, <3>2, <3>3 DEF NextWrite, StartWait
  <2> QED BY <1>4, <2>2, <2>3, <2>4, <2>5, <2>6, <2>7, <2>8, <2>9 DEF Client
<1>5. CASE Next /\ ~User /\ ~Client
  BY <1>1, <1>5 DEF Next, ServerAnswers, ServerAnnounces, ServerDies, ServerAccepts,
                    ServerFinishes, ServerReports
<1> QED BY <1>1, <1>3, <1>4, <1>5 DEF vars

LEMMA PollInvStep ==
    ASSUME IInv, PollInv, [Next]_vars
    PROVE  PollInv'
<1>1. LimitInv'
  BY LimitStep DEF PollInv
<1>2. ASSUME UNCHANGED clientVars PROVE TodoInv'
  BY <1>2 DEF PollInv, TodoInv, MoreToCome, RepliesExpected, clientVars
<1>3. ASSUME UNCHANGED <<said, answered>> PROVE AnsweredInv'
  BY <1>3, AnsweredKept DEF PollInv
<1>4. CASE User
  <2>1. TodoInv'
    BY <1>4, UserTodo DEF PollInv
  <2>2. UNCHANGED <<said, answered>>
    BY <1>4 DEF User, Idle, Query, Async, Collect, WriteChunks, SendToAll, vars,
                serverVars, serviceVars
  <2>3. AskedInv'
    <3>1. CASE UNCHANGED <<token, inbox>>
      BY <2>2, <3>1, AskedKept DEF PollInv
    <3>2. ASSUME NEW kind, NEW fn \in {"get", "write_chunks"}, NEW t,
                 SendToAll(kind, fn, t)
          PROVE  AskedInv'
      BY <3>2, AskedSend DEF PollInv, IInv
    <3> QED BY <1>4, <3>1, <3>2
            DEF User, Idle, Query, Async, Collect, WriteChunks, vars, clientVars, serverVars
  <2> QED BY <1>1, <1>3, <2>1, <2>2, <2>3 DEF PollInv
<1>5. CASE Client
  <2>1. TodoInv'
    BY <1>5, ClientTodo DEF PollInv
  <2>2. UNCHANGED <<token, inbox, said, answered>>
    BY <1>5 DEF Client, Scan, Drain, Drained, PollWakes, Tick, PollExpires, Waited,
                NextWrite, serverVars, serviceVars
  <2> QED BY <1>1, <1>3, <2>1, <2>2, AskedKept DEF PollInv
<1>6. CASE \/ \E s \in Servers :
                \/ ServerAnswers(s) \/ ServerAnnounces(s) \/ ServerDies(s)
                \/ \E k \in Chunks : ServerAccepts(s, k)
           \/ \E w \in Writes : ServerFinishes(w) \/ ServerReports(w)
  <2>1. UNCHANGED clientVars
    BY <1>6 DEF ServerAnswers, ServerAnnounces, ServerDies, ServerAccepts,
                ServerFinishes, ServerReports
  <2> QED BY <1>1, <1>2, <1>6, <2>1, ServerPoll DEF PollInv
<1>7. CASE UNCHANGED vars
  BY <1>1, <1>2, <1>3, <1>7, AskedKept DEF PollInv, vars, clientVars, serverVars, serviceVars
<1> QED BY <1>4, <1>5, <1>6, <1>7 DEF Next

LEMMA PollInvariance == Spec => []PollInv
<1>1. Init => PollInv
  <2> SUFFICES ASSUME Init PROVE PollInv
    OBVIOUS
  <2>1. AskedInv
    BY DEF Init, AskedInv
  <2>2. AnsweredInv
    BY DEF Init, Service!Init, AnsweredInv
  <2>3. TodoInv /\ LimitInv
    BY DEF Init, TodoInv, LimitInv, NoWait, NoAll
  <2> QED BY <2>1, <2>2, <2>3 DEF PollInv
<1>2. IInv /\ PollInv /\ [Next]_vars => PollInv'
  BY PollInvStep
<1> QED BY <1>1, <1>2, Invariance, PTL DEF Spec

\* Its server has yet to answer the request, or has accepted a write for it, has
\* said so, and has yet to finish or to report it.
HasMore(t) ==
    LET s == ServerOf(t) IN
    \/ \E k \in DOMAIN inbox[s] : inbox[s][k].token = t
    \/ \E w \in accepted : /\ w.client = s /\ w.token = t
                           /\ Service!Announced(s, t)
                           /\ \A a \in answered : a[1] # w

\* write_chunks() counts a chunk its server has refused among the replies to come.
Refused(t) == got[t] # <<>> /\ got[t][1].kind = "list" /\ got[t][1].refused > 0

\* A call that polls, with nothing to read, waits for something, and each of
\* the servers it waits for will say more, is down, or has refused a chunk of
\* it.  A call with a timeout polls for a limited time.
NoVainPoll ==
    pc = "poll" =>
        /\ Readable = {} =>
             /\ wait.todo # {}
             /\ \A t \in wait.todo : ServerOf(t) \in up => HasMore(t) \/ Refused(t)
        /\ call.timeout >= 0 => left >= 0

\* With nothing to read, all that has been said has been handed over.
LEMMA AllHandedOver ==
    ASSUME IInv, TodoInv, pc = "poll", Readable = {}, NEW t \in wait.todo
    PROVE  /\ t \in Tokens /\ Len(said[t]) = Len(got[t]) /\ Len(got[t]) \in Nat
           /\ got[t] \in Seq(Messages) /\ said[t] \in Seq(Messages)
<1> DEFINE s == ServerOf(t)
<1>1. t \in Tokens /\ s \in Servers
  BY LaterType, ServerOfToken
<1>2. /\ got[t] \in Seq(Messages) /\ said[t] \in Seq(Messages)
      /\ received[t] = <<>> /\ wire[s] = <<>>
  BY <1>1, Types DEF IInv, TodoInv, Readable
<1>3. Passes(got[t], <<>>, <<>>, said[t], t)
  BY <1>1, <1>2 DEF IInv, LostInv, LostAt
<1>4. Len(got[t]) \in Nat /\ Len(said[t]) \in Nat /\ Len(<<>>) = 0 /\ 1 .. 0 = {}
  BY <1>2, LenProperties, EmptySeq
<1>5. Len(got[t]) + 0 <= Len(said[t]) /\ Len(got[t]) + 0 + 1 .. Len(said[t]) = {}
  BY <1>3, <1>4 DEF Passes
<1>6. Len(said[t]) = Len(got[t])
  BY <1>4, <1>5, NoneAbove
<1> QED BY <1>1, <1>2, <1>4, <1>6

\* A server that has refused nothing, and has said less than the client waits
\* for, has a write to report.
LEMMA WriteToCome ==
    ASSUME IInv, AnsweredInv, NEW t \in Tokens, MoreToCome(t), ~Refused(t),
           Len(said[t]) = Len(got[t])
    PROVE  HasMore(t)
<1> DEFINE s == ServerOf(t)
           S == 2 .. Len(said[t])
           C == ChunksOf(s, t)
           f == [n \in S |-> said[t][n].chunk]
<1>1. PICK v \in Servers :
        v = all.server /\ t = call.tokens[v] /\ got[t] # <<>> /\ call.kind = "write"
  BY DEF MoreToCome
<1>2. /\ s = v /\ Len(got[t]) \in Nat /\ Len(got[t]) >= 1
      /\ RepliesExpected(t) \in Nat /\ Cardinality(C) \in Nat
      /\ said[t] # <<>> => said[t][1].kind = "list"
  BY <1>1, ListOfCall DEF IInv, CallInv, Gets
<1>3. /\ got[t][1] = said[t][1] /\ 1 \in DOMAIN said[t] /\ said[t][1] \in Messages
  BY <1>2, GotIsSaid DEF IInv
<1>4. said[t][1].kind = "list"
  BY <1>2, <1>3
<1>5. said[t][1].chunks = C /\ Service!Announced(s, t)
  BY <1>3, <1>4 DEF IInv, SaidInv, SaidAt
<1>6. said[t][1].refused = 0
  <2>1. said[t][1].refused \in 0 .. 1
    BY <1>3, <1>4 DEF Messages
  <2>2. ~(said[t][1].refused > 0)
    BY <1>1, <1>3, <1>4 DEF Refused
  <2> QED BY <2>1, <2>2
<1> HIDE DEF C, s
<1>7. Len(said[t]) - 1 < Cardinality(C)
  <2>1. RepliesExpected(t) = Cardinality(C)
    BY <1>2, <1>3, <1>5, <1>6 DEF RepliesExpected
  <2> QED BY <2>1 DEF MoreToCome
<1>8. IsFiniteSet(C)
  BY ChunksFinite DEF IInv, C
<1>9. f \in Injection(S, C)
  BY RepliesInjective DEF IInv, C, s
<1>10. Cardinality(S) = Len(said[t]) - 1 /\ IsFiniteSet(S)
  <2>1. PICK l \in Nat : l = Len(said[t]) /\ l >= 1 /\ l \in Int
    BY <1>2
  <2>2. IsFiniteSet(2 .. l) /\ Cardinality(2 .. l) = IF 2 > l THEN 0 ELSE l - 2 + 1
    <3>1. 2 \in Int
      OBVIOUS
    <3> HIDE DEF S, f
    <3> QED BY <2>1, <3>1, FS_Interval
  <2>3. Cardinality(2 .. l) = l - 1
    BY <2>1, <2>2
  <2> QED BY <2>1, <2>2, <2>3
<1>11. PICK c \in C : \A n \in S : said[t][n].chunk # c
  <2> SUFFICES ASSUME \A c \in C : \E n \in S : said[t][n].chunk = c PROVE FALSE
    OBVIOUS
  <2>1. f \in Surjection(S, C)
    <3>1. f \in [S -> C]
      BY <1>9 DEF Injection
    <3>2. \A c \in C : \E n \in S : f[n] = c
      OBVIOUS
    <3> HIDE DEF f
    <3> QED BY <3>1, <3>2, Fun_IsSurj
  <2> HIDE DEF f, S
  <2>2. Cardinality(C) <= Cardinality(S)
    BY <1>10, <2>1, FS_Surjection
  <2> QED BY <1>2, <1>7, <1>10, <2>2
<1>12. PICK w \in accepted : w.client = s /\ w.token = t /\ w.chunk = c
  BY <1>11 DEF C, ChunksOf
<1>13. \A a \in answered : a[1] # w
  <2> SUFFICES ASSUME NEW a \in answered, a[1] = w PROVE FALSE
    OBVIOUS
  <2>1. PICK n \in DOMAIN said[t] : said[t][n].kind = "chunk" /\ said[t][n].chunk = c
    BY <1>12 DEF AnsweredInv
  <2>2. n > 1
    BY <2>1 DEF IInv, SaidInv, SaidAt
  <2>3. DOMAIN said[t] = 1 .. Len(said[t]) /\ Len(said[t]) \in Nat
    BY Types, LenProperties DEF IInv
  <2>4. n \in S
    BY <2>1, <2>2, <2>3
  <2> QED BY <1>11, <2>1, <2>4
<1> QED BY <1>5, <1>12, <1>13 DEF HasMore, s

\* Whatever the calls and the timeouts, a client that polls is never forgotten:
\* but for servers that are down or have refused a chunk, each one it waits for
\* has something left to do for it (rpc_client.py:409-440, 569-616).
THEOREM NobodyPollsInVain == Spec => []NoVainPoll
<1>1. IInv /\ PollInv => NoVainPoll
  <2> SUFFICES ASSUME IInv, PollInv, pc = "poll"
               PROVE  /\ Readable = {} =>
                           /\ wait.todo # {}
                           /\ \A t \in wait.todo :
                                ServerOf(t) \in up => HasMore(t) \/ Refused(t)
                      /\ call.timeout >= 0 => left >= 0
    BY DEF NoVainPoll
  <2>1. wait.todo # {} /\ (call.timeout >= 0 => left >= 0)
    BY DEF PollInv, TodoInv, LimitInv
  <2>2. ASSUME Readable = {}, NEW t \in wait.todo, ~Refused(t) PROVE HasMore(t)
    <3>1. /\ t \in Tokens /\ Len(said[t]) = Len(got[t]) /\ Len(got[t]) \in Nat
          /\ got[t] \in Seq(Messages) /\ said[t] \in Seq(Messages)
      BY <2>2, AllHandedOver DEF PollInv
    <3>2. CASE got[t] = <<>>
      <4>1. said[t] = <<>>
        BY <3>1, <3>2, EmptySeq
      <4>2. t \in 1 .. token
        BY <3>1, TokenNat DEF IInv, PollInv, TodoInv, Tokens
      <4> QED BY <4>1, <4>2 DEF PollInv, AskedInv, HasMore
    <3>3. CASE MoreToCome(t)
      BY <2>2, <3>1, <3>3, WriteToCome DEF PollInv
    <3> QED BY <3>2, <3>3 DEF PollInv, TodoInv
  <2> QED BY <2>1, <2>2
<1> QED BY <1>1, Invariance, PollInvariance, PTL

-----------------------------------------------------------------------------
(* The service.                                                            *)

\* The servers of the client do what WriteService says, and no more, which is
\* what L1RpcServer is shown to implement: what is proved here of the client
\* holds of it with the servers of ch-frb-l1 (rpc.cpp:420-613).
THEOREM ServersAreServices ==
    ASSUME Chunks # {}
    PROVE  Spec => Service!Spec
<1>1. Init => Service!Init
  BY DEF Init
<1>2. ASSUME UNCHANGED serviceVars PROVE UNCHANGED Service!vars
  BY <1>2 DEF serviceVars, Service!vars
<1>3. IInv /\ [Next]_vars => [Service!Next]_Service!vars
  <2> SUFFICES ASSUME IInv, [Next]_vars PROVE [Service!Next]_Service!vars
    OBVIOUS
  <2>1. CASE User \/ Client \/ UNCHANGED vars
    <3>1. UNCHANGED serviceVars
      BY <2>1 DEF User, Idle, Query, Async, Collect, WriteChunks, SendToAll, vars,
                  Client, Scan, Drain, Drained, PollWakes, Tick, PollExpires, Waited,
                  NextWrite, serverVars
    <3> QED BY <1>2, <3>1
  <2>2. ASSUME NEW s \in Servers, ServerAnswers(s) \/ ServerDies(s)
        PROVE  UNCHANGED Service!vars
    BY <1>2, <2>2 DEF ServerAnswers, ServerDies
  <2>3. ASSUME NEW s \in Servers, ServerAnnounces(s) PROVE Service!Next
    <3>1. PICK t \in Tokens : Service!Announce(s, t)
      BY <2>3, FrontRequest DEF ServerAnnounces, Asked, IInv
    <3>2. t \in {w.token : w \in Writes}
      <4>1. PICK c \in Chunks : TRUE
        OBVIOUS
      <4>2. [client |-> s, token |-> t, chunk |-> c] \in Writes
        BY <4>1 DEF Writes
      <4>3. [client |-> s, token |-> t, chunk |-> c].token = t
        OBVIOUS
      <4> QED BY <4>2, <4>3
    <3> QED BY <3>1, <3>2 DEF Service!Next
  <2>4. ASSUME NEW s \in Servers, NEW k \in Chunks, ServerAccepts(s, k) PROVE Service!Next
    <3> DEFINE w == [client |-> s, token |-> Head(inbox[s]).token, chunk |-> k]
    <3>1. Service!Accept(w) /\ Head(inbox[s]).token \in Tokens
      BY <2>4, FrontRequest DEF ServerAccepts, Asked, IInv
    <3>2. w \in Writes
      BY <3>1 DEF Writes
    <3> QED BY <3>1, <3>2 DEF Service!Next
  <2>5. ASSUME NEW w \in Writes, ServerFinishes(w) \/ ServerReports(w) PROVE Service!Next
    BY <2>5 DEF ServerFinishes, ServerReports, Service!Next
  <2> QED BY <2>1, <2>2, <2>3, <2>4, <2>5 DEF Next
<1> QED BY <1>1, <1>3, Invariance, PTL DEF Spec, Service!Spec
=============================================================================
