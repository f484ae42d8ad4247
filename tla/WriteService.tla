---------------------------- MODULE WriteService ----------------------------
(***************************************************************************)
(* What the write_chunks RPC promises its clients (rpc.hpp:111-121), with  *)
(* no threads, queues or sockets.  A request is a client and a token; each *)
(* of its chunks is accepted or not before the initial list is announced;  *)
(* an accepted write ends well or badly, at any time; and once the list is *)
(* out each finished write may be answered, once, truthfully, to the       *)
(* client that asked for it.                                               *)
(***************************************************************************)
EXTENDS Integers

CONSTANTS Clients, Writes

VARIABLES
    accepted,   \* writes the service has taken on
    written,    \* those that ended well
    failed,     \* those that ended badly
    announced,  \* <<client, token, chunks>>: the lists clients have got
    answered    \* <<write, success>>: the chunk replies clients have got

vars == <<accepted, written, failed, announced, answered>>

Init ==
    /\ accepted = {} /\ written = {} /\ failed = {}
    /\ announced = {} /\ answered = {}

Announced(c, t) == \E a \in announced : a[1] = c /\ a[2] = t

\* A list that is out is complete: nothing is added to it.
Accept(w) ==
    /\ w \notin accepted
    /\ ~Announced(w.client, w.token)
    /\ accepted' = accepted \cup {w}
    /\ UNCHANGED <<written, failed, announced, answered>>

Finish(w) ==
    /\ w \in accepted \ (written \cup failed)
    /\ \/ written' = written \cup {w} /\ UNCHANGED failed
       \/ failed' = failed \cup {w} /\ UNCHANGED written
    /\ UNCHANGED <<accepted, announced, answered>>

\* The list names the chunks accepted for the request.
Announce(c, t) ==
    /\ ~Announced(c, t)
    /\ announced' = announced \cup
         {<<c, t, {w.chunk : w \in {v \in accepted : v.client = c /\ v.token = t}}>>}
    /\ UNCHANGED <<accepted, written, failed, answered>>

Answer(w) ==
    /\ w \in written \cup failed
    /\ w.client \in Clients
    /\ Announced(w.client, w.token)
    /\ \A a \in answered : a[1] # w
    /\ answered' = answered \cup {<<w, w \in written>>}
    /\ UNCHANGED <<accepted, written, failed, announced>>

Next ==
    \/ \E w \in Writes : Accept(w) \/ Finish(w) \/ Answer(w)
    \/ \E c \in Clients, t \in {w.token : w \in Writes} : Announce(c, t)

Spec == Init /\ [][Next]_vars
=============================================================================
