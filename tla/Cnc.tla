-------------------------------- MODULE Cnc --------------------------------
(***************************************************************************)
(* The command-and-control daemons (cnc.py), one per node, and users of    *)
(* their client, the class CncClient (cnc_client.py): calls to several     *)
(* daemons with one timeout (send_with_timeout()) and polls of one daemon  *)
(* for the output of a captive child (poll()).                             *)
(*                                                                         *)
(* A daemon is one thread that does one request at a time.  Its children   *)
(* run, print lines and end on their own; for each captive child a thread  *)
(* of the daemon moves lines from the pipe to a queue.  A child has the    *)
(* number of the call that launched it for a process id, and its lines are *)
(* numbered.  Each call and each poll has sockets of its own, which are    *)
(* closed when it ends: the request may still be carried out, and its      *)
(* reply goes nowhere.                                                     *)
(***************************************************************************)
EXTENDS Integers, FiniteSets, SequencesExt

CONSTANTS
    Servers,
    Others,      \* servers of which only the answers to calls are modelled
    Timeout,     \* of a call, in ticks
    Kinds,       \* bound: kinds of calls
    MaxCalls,    \* bound: calls made
    MaxPolls,    \* bound: polls for output
    MaxLines,    \* bound: lines a captive child prints
    MaxInbox     \* bound: requests waiting for a daemon

ASSUME CncAssumption ==
    /\ Timeout \in Nat /\ MaxCalls \in Nat /\ MaxPolls \in Nat
    /\ MaxLines \in Nat /\ MaxInbox \in Nat
    /\ Kinds \subseteq {"run", "launch", "captive", "kill", "quit"}
    /\ Servers \cap Others = {}

All  == Servers \cup Others
Pids == 1 .. MaxCalls

VARIABLES
    \* the daemons
    daemon,    \* server -> what its thread is doing
    inbox,     \* server -> requests that have arrived
    launched,  \* server -> launched_procs
    captive,   \* server -> the keys of captive_procs
    child,     \* server -> pid -> "none", "running" or "exited"
    lines,     \* server -> pid -> lines printed, put into the queue, taken from it
    \* the clients
    calls,     \* how many have been made
    call,      \* the call in progress: its kind, registered sockets and timeout
    answers,   \* server -> what has arrived for the call, or None
    results,   \* server -> what the call has read, or None
    polls,     \* how many have been made
    polling,   \* server -> the child a poll waits for the output of, or 0
    got        \* server -> pid -> the lines that polls have returned

childVars  == <<child, lines>>
daemonVars == <<daemon, inbox, launched, captive>>
callVars   == <<calls, call, answers, results>>
pollVars   == <<polls, polling, got>>
vars == <<daemonVars, childVars, callVars, pollVars>>

None == -1

NoRequest == [kind |-> "none", from |-> "nobody", pid |-> 0]
Resting   == [pc |-> "poll", i |-> 0, req |-> NoRequest, out |-> <<>>]
NoCall    == [kind |-> "none", pc |-> "none", pending |-> {}, left |-> 0, spent |-> 0]
NoAnswer  == [s \in All |-> None]

Init ==
    /\ daemon = [s \in Servers |-> Resting]
    /\ inbox = [s \in Servers |-> <<>>]
    /\ launched = [s \in Servers |-> <<>>]
    /\ captive = [s \in Servers |-> {}]
    /\ child = [s \in Servers |-> [p \in Pids |-> "none"]]
    /\ lines = [s \in Servers |-> [p \in Pids |-> [made |-> 0, queued |-> 0, taken |-> 0]]]
    /\ calls = 0 /\ call = NoCall /\ answers = NoAnswer /\ results = NoAnswer
    /\ polls = 0 /\ polling = [s \in Servers |-> 0]
    /\ got = [s \in Servers |-> [p \in Pids |-> <<>>]]

-----------------------------------------------------------------------------
(* Children.                                                               *)

PrintLine(s, p) ==
    /\ child[s][p] = "running" /\ p \in captive[s]
    /\ lines[s][p].made < MaxLines
    /\ lines' = [lines EXCEPT ![s][p].made = @ + 1]
    /\ UNCHANGED <<child, daemonVars, callVars, pollVars>>

ChildExits(s, p) ==
    /\ child[s][p] = "running"
    /\ child' = [child EXCEPT ![s][p] = "exited"]
    /\ UNCHANGED <<lines, daemonVars, callVars, pollVars>>

\* enqueue_output()
Enqueue(s, p) ==
    /\ daemon[s].pc # "off"
    /\ lines[s][p].queued < lines[s][p].made
    /\ lines' = [lines EXCEPT ![s][p].queued = @ + 1]
    /\ UNCHANGED <<child, daemonVars, callVars, pollVars>>

-----------------------------------------------------------------------------
(* The daemon: main().                                                     *)

\* A reply finds its socket, or the socket has been closed.
Reply(s, req, answer, out) ==
    /\ answers' = IF req.from = "call" THEN [answers EXCEPT ![s] = answer] ELSE answers
    /\ polling' = IF req.from = "poll" THEN [polling EXCEPT ![s] = 0] ELSE polling
    /\ got' = IF req.from = "poll" THEN [got EXCEPT ![s][req.pid] = @ \o out] ELSE got

Request(s) == Head(inbox[s])

Take(s, kind) ==
    /\ daemon[s].pc = "poll"
    /\ inbox[s] # <<>>
    /\ Request(s).kind = kind
    /\ inbox' = [inbox EXCEPT ![s] = Tail(@)]

\* No request has come for 5 s.
PollTimesOut(s) ==
    /\ daemon[s].pc = "poll"
    /\ inbox[s] = <<>>
    /\ launched[s] # <<>>
    /\ daemon' = [daemon EXCEPT ![s].pc = "reap", ![s].i = 1]
    /\ UNCHANGED <<inbox, launched, captive, childVars, callVars, pollVars>>

AtChild(s) == daemon[s].i <= Len(launched[s])
Child(s)   == launched[s][daemon[s].i]

\* (mutant) the loop ends at the first child that is still running
ReapStopsAtRunning(s) ==
    /\ daemon[s].pc = "reap"
    /\ daemon' = [daemon EXCEPT ![s] = IF AtChild(s) /\ child[s][Child(s)] = "exited"
                                       THEN [@ EXCEPT !.i = daemon[s].i + 1] ELSE Resting]
    /\ launched' = IF AtChild(s) /\ child[s][Child(s)] = "exited"
                   THEN [launched EXCEPT ![s] = RemoveAt(@, daemon[s].i)] ELSE launched
    /\ UNCHANGED <<inbox, captive, childVars, callVars, pollVars>>

\* (mutant) `not p.poll()': no return code and the return code 0 look the same
ReapNotEnded(s) ==
    /\ daemon[s].pc = "reap"
    /\ daemon' = [daemon EXCEPT ![s] = IF AtChild(s) THEN [@ EXCEPT !.i = daemon[s].i + 1] ELSE Resting]
    /\ launched' = IF AtChild(s) THEN [launched EXCEPT ![s] = RemoveAt(@, daemon[s].i)] ELSE launched
    /\ UNCHANGED <<inbox, captive, childVars, callVars, pollVars>>

\* One turn of the loop over the list: what is removed moves the rest down by
\* one, and the next turn passes over the one behind it.
Reap(s) ==
    /\ daemon[s].pc = "reap"
    /\ daemon' = [daemon EXCEPT ![s] = IF AtChild(s) THEN [@ EXCEPT !.i = daemon[s].i + 1] ELSE Resting]
    /\ launched' = IF AtChild(s) /\ child[s][Child(s)] = "exited"
                   THEN [launched EXCEPT ![s] = RemoveAt(@, daemon[s].i)] ELSE launched
    /\ UNCHANGED <<inbox, captive, childVars, callVars, pollVars>>

\* `run': the daemon waits for its command, and nothing else is served.
Run(s) ==
    /\ Take(s, "run")
    /\ daemon' = [daemon EXCEPT ![s].pc = "run", ![s].req = Request(s)]
    /\ UNCHANGED <<launched, captive, childVars, callVars, pollVars>>

RunEnds(s) ==
    /\ daemon[s].pc = "run"
    /\ daemon' = [daemon EXCEPT ![s] = Resting]
    /\ Reply(s, daemon[s].req, 0, <<>>)
    /\ UNCHANGED <<inbox, launched, captive, childVars, calls, call, results, polls>>

Launch(s) ==
    LET p == Request(s).pid IN
    /\ Take(s, "launch")
    /\ child' = [child EXCEPT ![s][p] = "running"]
    /\ launched' = [launched EXCEPT ![s] = Append(@, p)]
    /\ Reply(s, Request(s), p, <<>>)
    /\ UNCHANGED <<daemon, captive, lines, calls, call, results, polls>>

\* `launch' with `captive' set
LaunchCaptive(s) ==
    LET p == Request(s).pid IN
    /\ Take(s, "captive")
    /\ child' = [child EXCEPT ![s][p] = "running"]
    /\ captive' = [captive EXCEPT ![s] = @ \cup {p}]
    /\ Reply(s, Request(s), p, <<>>)
    /\ UNCHANGED <<daemon, launched, lines, calls, call, results, polls>>

\* `read_proc', of a captive child
ReadProc(s) ==
    /\ Take(s, "read")
    /\ daemon' = [daemon EXCEPT ![s].pc = "read", ![s].req = Request(s)]
    /\ UNCHANGED <<launched, captive, childVars, callVars, pollVars>>

Queued(s, p) == [k \in 1 .. lines[s][p].queued - lines[s][p].taken |->
                    lines[s][p].taken + k]

\* (mutant) the queue is looked at, and not emptied
DrainPeeks(s) ==
    LET p == daemon[s].req.pid IN
    /\ daemon[s].pc = "read"
    /\ daemon' = [daemon EXCEPT ![s].pc = "again", ![s].out = Queued(s, p)]
    /\ UNCHANGED <<inbox, launched, captive, childVars, callVars, pollVars>>

\* The queue of stdout is emptied once for `out' and once more for `err'.
Drain(s) ==
    LET p == daemon[s].req.pid IN
    /\ daemon[s].pc = "read"
    /\ daemon' = [daemon EXCEPT ![s].pc = "again", ![s].out = Queued(s, p)]
    /\ lines' = [lines EXCEPT ![s][p].taken = lines[s][p].queued]
    /\ UNCHANGED <<inbox, launched, captive, child, callVars, pollVars>>

DrainAgain(s) ==
    LET p == daemon[s].req.pid IN
    /\ daemon[s].pc = "again"
    /\ daemon' = [daemon EXCEPT ![s] = Resting]
    /\ lines' = [lines EXCEPT ![s][p].taken = lines[s][p].queued]
    /\ Reply(s, daemon[s].req, 0, daemon[s].out \o Queued(s, p))
    /\ UNCHANGED <<inbox, launched, captive, child, calls, call, results, polls>>

\* Under Python 3 the lines are bytes, which join() does not take: the exception
\* is answered with "did not understand request", and the lines are lost.
JoinFails(s) ==
    LET p == daemon[s].req.pid IN
    /\ daemon[s].pc \in {"read", "again"}
    /\ Queued(s, p) # <<>>
    /\ daemon' = [daemon EXCEPT ![s] = Resting]
    /\ lines' = [lines EXCEPT ![s][p].taken = lines[s][p].queued]
    /\ Reply(s, daemon[s].req, 0, <<>>)
    /\ UNCHANGED <<inbox, launched, captive, child, calls, call, results, polls>>

\* `kill': the pid of no captive child is ignored; that of one leads to a call of
\* terminate() on the tuple of captive_procs, not on the child, and to an exception.
Kill(s) ==
    /\ Take(s, "kill")
    /\ Reply(s, Request(s), 0, <<>>)
    /\ UNCHANGED <<daemon, launched, captive, childVars, calls, call, results, polls>>

\* `quit': the process ends without a reply.
Quit(s) ==
    /\ Take(s, "quit")
    /\ daemon' = [daemon EXCEPT ![s] = [Resting EXCEPT !.pc = "off"]]
    /\ UNCHANGED <<launched, captive, childVars, callVars, pollVars>>

-----------------------------------------------------------------------------
(* Calls: CncClient.run(), kill() and quit(), by way of                    *)
(* send_with_timeout().                                                    *)

Launching == {"launch", "captive"}

\* The process id in the request or, for a request that launches a child, that
\* of the child.
PidOf(kind, n) == IF kind \in Launching THEN n ELSE 0

Send(kind, servers) ==
    /\ call = NoCall
    /\ calls < MaxCalls
    /\ \A s \in Servers : Len(inbox[s]) < MaxInbox
    /\ calls' = calls + 1
    /\ call' = [kind |-> kind, pc |-> "poll", pending |-> servers,
                left |-> Timeout, spent |-> 0]
    /\ inbox' = [s \in Servers |->
                    IF s \in servers
                    THEN Append(inbox[s], [kind |-> kind, from |-> "call",
                                           pid |-> PidOf(kind, calls + 1)])
                    ELSE inbox[s]]
    /\ results' = NoAnswer
    /\ UNCHANGED <<daemon, launched, captive, childVars, answers, pollVars>>

\* Time passes while the client waits, and while it reads replies.
Tick ==
    /\ \/ call.pc = "poll" /\ call.spent < call.left
       \/ call.pc = "read" /\ call.spent <= Timeout
    /\ call' = [call EXCEPT !.spent = @ + 1]
    /\ UNCHANGED <<daemonVars, childVars, calls, answers, results, pollVars>>

Arrived == {s \in call.pending : answers[s] # None}

\* Another server answers, or does not.
OtherAnswers(s) ==
    /\ s \in call.pending
    /\ answers[s] = None
    /\ answers' = [answers EXCEPT ![s] = 0]
    /\ UNCHANGED <<daemonVars, childVars, calls, call, results, pollVars>>

\* (mutant) a socket that has been read stays registered
ReadRepliesKeep ==
    /\ call.pc = "poll"
    /\ Arrived # {}
    /\ results' = [s \in All |-> IF s \in Arrived THEN answers[s] ELSE results[s]]
    /\ answers' = [s \in All |-> IF s \in Arrived THEN None ELSE answers[s]]
    /\ call' = [call EXCEPT !.pc = "read"]
    /\ UNCHANGED <<daemonVars, childVars, calls, pollVars>>

ReadReplies ==
    /\ call.pc = "poll"
    /\ Arrived # {}
    /\ results' = [s \in All |-> IF s \in Arrived THEN answers[s] ELSE results[s]]
    /\ answers' = [s \in All |-> IF s \in Arrived THEN None ELSE answers[s]]
    /\ call' = [call EXCEPT !.pc = "read", !.pending = @ \ Arrived]
    /\ UNCHANGED <<daemonVars, childVars, calls, pollVars>>

\* What is left may be less than nothing, which poll() takes for no limit.
Rest == IF call.left < call.spent THEN -1 ELSE call.left - call.spent

PollAgain ==
    /\ call.pc = "read"
    /\ call.pending # {}
    /\ call' = [call EXCEPT !.pc = "poll", !.left = Rest, !.spent = 0]
    /\ UNCHANGED <<daemonVars, childVars, calls, answers, results, pollVars>>

Abandoned(req, from) == IF req.from = from THEN [req EXCEPT !.from = "nobody"] ELSE req

CallEnds ==
    \/ call.pc = "read" /\ call.pending = {}
    \/ call.pc = "poll" /\ call.left >= 0 /\ call.spent >= call.left /\ Arrived = {}

\* (mutant) the sockets are kept for the next call
ReturnKeepsSockets ==
    /\ CallEnds
    /\ call' = NoCall
    /\ UNCHANGED <<daemonVars, childVars, calls, answers, results, pollVars>>

\* The sockets of the call are closed.
Return ==
    /\ CallEnds
    /\ call' = NoCall
    /\ answers' = NoAnswer
    /\ inbox' = [s \in Servers |->
                    [k \in DOMAIN inbox[s] |-> Abandoned(inbox[s][k], "call")]]
    /\ daemon' = [s \in Servers |->
                    [daemon[s] EXCEPT !.req = Abandoned(@, "call")]]
    /\ UNCHANGED <<launched, captive, childVars, calls, results, pollVars>>

-----------------------------------------------------------------------------
(* CncClient.poll(), one at a time to a daemon.                            *)

Poll(s, p) ==
    /\ polling[s] = 0
    /\ p \in captive[s]
    /\ polls < MaxPolls
    /\ Len(inbox[s]) < MaxInbox
    /\ polls' = polls + 1
    /\ polling' = [polling EXCEPT ![s] = p]
    /\ inbox' = [inbox EXCEPT ![s] =
                    Append(@, [kind |-> "read", from |-> "poll", pid |-> p])]
    /\ UNCHANGED <<daemon, launched, captive, childVars, callVars, got>>

\* There is no reply in time, whatever the daemon does: the socket is closed.
PollExpires(s) ==
    /\ polling[s] # 0
    /\ polling' = [polling EXCEPT ![s] = 0]
    /\ inbox' = [inbox EXCEPT ![s] =
                    [k \in DOMAIN inbox[s] |-> Abandoned(inbox[s][k], "poll")]]
    /\ daemon' = [daemon EXCEPT ![s] = [@ EXCEPT !.req = Abandoned(daemon[s].req, "poll")]]
    /\ UNCHANGED <<launched, captive, childVars, callVars, polls, got>>

-----------------------------------------------------------------------------

\* What the daemon does without waiting for anything.
DaemonStep(s) ==
    \/ PollTimesOut(s) \/ Reap(s)
    \/ Run(s) \/ Launch(s) \/ LaunchCaptive(s)
    \/ ReadProc(s) \/ Drain(s) \/ DrainAgain(s) \/ JoinFails(s) \/ Kill(s) \/ Quit(s)

ClientStep == Tick \/ ReadReplies \/ PollAgain \/ Return

Next ==
    \/ \E s \in Servers : DaemonStep(s) \/ RunEnds(s) \/ PollExpires(s)
    \/ \E s \in Servers, p \in Pids :
          PrintLine(s, p) \/ ChildExits(s, p) \/ Enqueue(s, p) \/ Poll(s, p)
    \/ ClientStep
    \/ \E s \in Others : OtherAnswers(s)
    \/ \E kind \in Kinds, servers \in (SUBSET All) \ {{}} : Send(kind, servers)

Spec == Init /\ [][Next]_vars

\* The daemons and the client of the call go on while they can.  Nothing makes a
\* child, a command of `run' or another server get anywhere.
FairSpec ==
    /\ Spec
    /\ WF_vars(ClientStep)
    /\ \A s \in Servers : WF_vars(DaemonStep(s))

-----------------------------------------------------------------------------
(* Properties.                                                             *)

Requests == [kind : Kinds \cup {"read", "none"}, from : {"call", "poll", "nobody"},
             pid : Pids \cup {0}]

DaemonStates ==
    [pc : {"poll", "reap", "run", "read", "again", "off"}, i : Nat,
     req : Requests, out : Seq(1 .. MaxLines)]

LineCounts == [made : 0 .. MaxLines, queued : 0 .. MaxLines, taken : 0 .. MaxLines]

Calls ==
    [kind : Kinds \cup {"none"}, pc : {"none", "poll", "read"}, pending : SUBSET All,
     left : -1 .. Timeout, spent : 0 .. Timeout + 1]

TypeOK ==
    /\ daemon \in [Servers -> DaemonStates]
    /\ inbox \in [Servers -> Seq(Requests)]
    /\ launched \in [Servers -> Seq(Pids)]
    /\ captive \in [Servers -> SUBSET Pids]
    /\ child \in [Servers -> [Pids -> {"none", "running", "exited"}]]
    /\ lines \in [Servers -> [Pids -> LineCounts]]
    /\ calls \in 0 .. MaxCalls
    /\ call \in Calls
    /\ answers \in [All -> Pids \cup {0, None}]
    /\ results \in [All -> Pids \cup {0, None}]
    /\ polls \in 0 .. MaxPolls
    /\ polling \in [Servers -> Pids \cup {0}]
    /\ got \in [Servers -> [Pids -> Seq(1 .. MaxLines)]]

\* The daemon loses sight of no child that is still running: what it takes off
\* its list while it goes through it is what it has found to have ended
\* (cnc.py:47-51).
RunningAreKnown ==
    \A s \in Servers, p \in Pids :
        child[s][p] = "running" => p \in captive[s] \cup Range(launched[s])

\* What a call has read from a daemon is the reply to its own request: a call
\* that launches returns the child it has launched, however late the replies to
\* earlier calls come (cnc_client.py:76-98).
OwnAnswers ==
    call.pc # "none" =>
        \A s \in Servers : results[s] \in {None, PidOf(call.kind, calls)}

\* Polls return lines of the child in the order in which it printed them, and
\* none twice, although one request empties the queue twice while a thread fills
\* it, and a request whose poll has timed out is carried out all the same, before
\* the next or while the next waits (cnc.py:100-130).
OutputInOrder ==
    \A s \in Servers, p \in Pids : \A i, j \in DOMAIN got[s][p] :
        /\ i < j => got[s][p][i] < got[s][p][j]
        /\ got[s][p][j] <= lines[s][p].made

\* Although each look at the list passes over some children, a finished one is
\* reaped; unless the daemon quits, or waits for a command of `run'
\* (cnc.py:44-52).
FinishedAreReaped ==
    \A s \in Servers, p \in Pids :
        child[s][p] = "exited" /\ p \in Range(launched[s])
            ~> p \notin Range(launched[s]) \/ daemon[s].pc \in {"off", "run"}

\* A call ends, within its timeout or with the last reply, although a daemon may
\* wait for a command for ever; unless the timeout has become negative
\* and some daemon has quit, waits for a command or is one of the others
\* (cnc_client.py:72-93).
CallReturns ==
    call.pc # "none" ~>
        \/ call.pc = "none"
        \/ /\ call.left < 0
           /\ \E s \in call.pending : s \in Others \/ daemon[s].pc \in {"off", "run"}
=============================================================================
