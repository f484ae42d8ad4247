# Verification of ch_frb_l1

TLA+ models of the CHIME FRB L1 server, its checks with TLC and its proofs with
TLAPS. Line numbers refer to the repository's files.

## The system

The L1 process (`ch-frb-l1.cpp`) receives packets from L0 nodes over a few
network streams, assembles them into chunks per beam (in the library
`ch_frb_io`), and runs one dedispersion thread per beam. Chunks stay for a while
in ring buffers; RPC clients ask for some of them to be written to disk.

| Component | State | Operations | Talks to |
|---|---|---|---|
| RPC server, one per stream (`l1-rpc.cpp`, `rpc.hpp`) | ROUTER socket, backend queue of finished writes, filename -> status map, `_shutdown` | `run()` loop: drain the queue, receive with a 100 ms timeout, handle one request; `write_chunks`, `get_writechunk_status`, `shutdown`, reading RPCs, `stream` | clients by messages; I/O threads by `enqueue_write_request()` and the callback `status_changed()`; main by `do_shutdown()` |
| L1 process (`ch-frb-l1.cpp`) | the streams, devices, servers and threads, `bonsai_dedispersers` | `main()` builds everything in order, `join_all_threads()` takes it down | everything, by ownership |
| Dedispersion threads (`ch-frb-l1.cpp:765-998`) | announced mask counters and dedisperser | startup, pipeline run, wait for the L1b child; or the toy loop | the mask map, `set_bonsai()`, the stream, the child |
| L1b child processes, one per beam (bonsai's `trigger_pipe`) | running or not | read triggers, exit | their dedispersion thread |
| Mask statistics map (`mask_stats.*`) | (beam, where) -> ring buffer | `put()` under a mutex, iteration without one | dedispersion threads, RPC and prometheus servers |
| Prometheus server (`l1-prometheus.cpp`) | civetweb and its workers | scrape of `/metrics` | stream statistics, mask map |
| Output devices and their I/O threads (ch_frb_io) | queue, open or not | write, report, `end_stream(wait)` | RPC server's callback |
| Network stream (ch_frb_io) | running, ending, ended | `end_stream()`, `join_threads()`, ring buffers | L0, dedispersion threads, RPC |
| Python client (`rpc_client.py`) | next token, `received`: token -> messages | one method per RPC, `wait_for_tokens`, `wait_for_all_writes` with timeouts | servers by messages |
| Acquisition directories (`file_utils.cpp`, `stream` RPC) | the file system | check and create the directories of an acquisition | RPC server, node configuration |
| Configuration (`ch-frb-l1.cpp`, `yaml_paramfile.cpp`) | parameters | consistency checks, streams and their beams | main |
| L0 simulator (`simulate-l0.cpp`) | streams, sender threads | send noise or chunks, `end_streams()` | L1 by packets |
| Command and control (`cnc.py`, `cnc_client.py`) | launched and captive processes, output queues | run, launch, read_proc, kill, quit | clients by REQ/REP |
| Inventory (`ch-frb-make-acq-inventory`) | files of an acquisition | partition into contiguous parts | file system |

`PROJECT.json` lists every part, also those that are not modelled, with the
reason, and the hazards of the code, each at its line.

What is hard here, and what makes each component right:

- **Write path.** Three kinds of threads touch one request: the RPC thread
  enqueues its chunks one after the other and then sends the list; I/O threads
  may finish the first ones before the last is enqueued, update a status map
  keyed by filename (shared by all clients), and queue replies which the RPC
  thread sends between requests. Right means: a client gets the list first, then
  one true reply per accepted chunk; no reply is lost on the way; what
  `get_writechunk_status` says is explained by the writes to that file.
- **Shutdown.** It can come from L0, from an RPC, or both; `do_shutdown()` runs on
  the RPC thread and on main, each of which may wait for the stream. main drains
  the devices while the RPC thread may still be accepting a request. Right means:
  no accepted write is left unfinished, nothing is destroyed under a thread, and
  everyone gets out, as far as the L1b children do, for which dedispersion threads
  wait without a limit.
- **Startup.** Prometheus servers exist before the dedispersion threads that fill
  the map they read; RPC servers only after, by polling. Right means: an RPC
  server sees the complete, unchanging data of its own stream.
- **Client.** Messages of many servers are sorted into buffers by token while
  timeouts run. Right means: a call returns its own answers, within its time.
- **Acquisitions.** Several servers check and create directories of one
  acquisition by separate system calls, fail half-way, and crash. Right means: no
  earlier acquisition is written over, every chunk has a directory, and what failed
  attempts leave behind does no harm.
- **Inventory.** A script divides an acquisition into parts while L1 goes on
  writing, one file after the other, and replaces its output of last time. Right means:
  the parts tile the files of a beam and stay the same, and a complete output is kept.
- **Command and control.** A daemon with one thread serves calls and polls whose
  clients give up early. Right means: late replies go nowhere, the output of a child
  is handed out in order and once, calls come back, no child is forgotten.
- **Simulator and configuration.** Many threads feed one stream, and the sizes of
  everything are computed from two files. Right means: what is sent fits, and arrives
  once and before the end of the stream.

## The modules

### `L1RpcServer` - the write path of one RPC server in its process

`MCL1RpcServer` gives the constants values for TLC.

| Variables | Code |
|---|---|
| `alive`, `sent`, `inbox`, `delivered` | clients, their token counters, the ROUTER socket: requests not yet received, and messages accepted for a client |
| `rpcPc`, `cur`, `todo`, `reply` | where `run()` is, and the locals of the `write_chunks` branch |
| `backendQueue`, `status`, `shutdown` | `l1_backend_queue`, `chunk_status_map`, `_shutdown`; each under a mutex in the code, so one access is one step |
| `deviceQueue`, `deviceOpen`, `ioPc`, `ioReq` | the output device pool and its I/O threads |
| `stream`, `mainPc`, `idev` | the network stream; main in `join_all_threads()` |
| `accepted`, `written`, `failed` | history: which writes the pool has taken and how they ended |

One action is one critical section, or a stretch of code that touches nothing
shared. So `status_changed()` is two actions (`IoFinish`: the status map,
`IoReport`: the queue), a `write_chunks` request is one action for the snapshot,
one per chunk and one for the list, and `_check_backend_queue()` is one action per
entry. `do_shutdown()` is one action up to `join_threads()` (a mutex is held) and
one that waits.

The data is abstracted to what the properties tell apart. The snapshot of the
ring buffers is any set of chunks, in any order. `format_filename()` is the
constant `FileName`: a pattern without substitutions maps all chunks to one file.
RPCs that read and answer at once have the shape of `get_writechunk_status`;
requests that are malformed, unknown, throw, or have no reply have the shape of
`bad`.

What the code relies on in libraries is modelled from its use and marked external
in the map: the device pool hands a write to the device that serves its prefix and
refuses it if there is none or it has been closed; the status QUEUED is set inside
the enqueue call before an I/O thread can see the write (l1-rpc.cpp:896-898);
a device has one I/O thread, which leaves after `end_stream(true)` when its queue
is empty; a send to a client that has gone fails alone (`ZMQ_ROUTER_MANDATORY`),
one to a client that is there succeeds; a request sent before its client left is
still received. The branch on which `recv()` fails (line 360) can be taken when
`RecvMayFail`.

### `WriteService` - what `write_chunks` promises

The abstract specification of rpc.hpp:111-121, without threads, queues or
sockets: writes are accepted until the list of their request is announced, the
list names exactly the accepted ones, each write ends once, and its answer is
true, given once, and only after the list. `L1RpcServer!ImplementsService` is the
refinement: `announced` and `answered` are read off the delivered messages.

### `L1Server` - startup and shutdown of the process

`MCL1Server` gives the constants values. `mainPc` and `i` follow `main()`: every
loop over streams or beams takes one step per element. A dedispersion thread puts
its mask counters one by one (each `put()` is a critical section), publishes its
dedisperser, runs until its stream ends (`PipelineEnds`) and then waits for the L1b
child of its beam, if there is one, without a limit (`DedispersionExit`,
ch-frb-l1.cpp:920-927); toy threads only run until their stream ends. The children
(`l1b`, there if the constant `L1b` is set and the server is no toy) are started
before everything else and exit when they like, or never. A scrape and
`get_masked_frequencies` are intervals during which the map is walked. An
insertion while a reader is in the map is a data race: the process goes on or is
lost (`aborted`). An exception in a dedispersion thread (`MayFail`) ends the
process too, as `std::terminate()` does. All output devices close in one step here;
`L1RpcServer` has the steps. The two modules share the shutdown protocol and are
separate because one needs several streams and no writes, the other writes and one
stream.

### `RpcClient` - the Python client, composed with `WriteService`

`MCRpcClient` gives the constants values. One client talks to `NumServers` servers,
each of which promises it what `WriteService` says: the module instantiates it
(`Service`) with the servers in the role of its clients, and a server's steps are
its steps together with what travels over the socket.

| Variables | Code |
|---|---|
| `token`, `received` | the object's token counter and its buffers, token -> messages |
| `call`, `pc`, `later` | the call the user is in; tokens of calls made with `wait=False` |
| `wait`, `gotAny`, `left` | `wait_for_tokens()` (todo, timeout, time since `t0`), `_receive()` |
| `all` | `wait_for_all_writes()`: the server it is at, its own timeout and `t0` |
| `got`, `timedOut`, `spent` | what came of it: messages handed to callers, time waited |
| `inbox`, `wire`, `up`, `said` | sockets, which servers answer, what each has said |

One action is one round of a loop of the code: a pass over the tokens to do
(`Scan`), one non-blocking poll with the reads it allows (`Drain`), the end of that
loop (`Drained`), the blocking poll (`PollWakes`, `PollExpires`), the return
(`Waited`) and the two nested loops of `wait_for_all_writes` (`NextWrite`). Time is
in milliseconds and passes only while the client polls (`Tick`); everything else is
instantaneous, so a call that overruns its timeout has spent the time waiting. Timeouts are kept
multiplied by `Second` so that the code's subtraction of seconds from milliseconds
gives integers. A server may refuse a chunk (`MayRefuse`: it is on the list and gets
no reply, as in `L1RpcServer`) and fall silent for good (`MayDie`). What a server
says arrives in order, as a DEALER socket over TCP delivers it.

The queries that get one answer per server are one action (`Query`) with a `wait=False`
form (`Async`) and the caller's later `wait_for_tokens` (`Collect`), which is what
`node_status()` of the web application does.

### `Acquisition` - starting to stream to files

`MCAcquisition` gives the constants values. The threads are the RPC servers of the
node's streams and main (0), which grants the acquisition of the configuration file
at startup.

| Variables | Code |
|---|---|
| `mounted`, `acqDirs`, `beamDirs`, `files`, `meta` | the file system: archivers that are mounted, directories, chunk files, metadata.json |
| `pc`, `req`, `todo` | where each thread is in `acqname_to_filename_pattern()`, and for which request |
| `streaming`, `queued` | what `stream_to_files()` was last told, chunks on their way to disk |
| `up` | the process has got past its configuration |
| `requests`, `granted`, `refused` | history: requests and how they ended |

One action is one system call that another thread or a crash could come between:
the check of the mounts (`CheckBase`), `mkdir()` of the acquisition (`MakeAcqDir`),
one turn of the loop over the beams (`CheckBeam`), the metadata file and the new
filename pattern. `exists`, `mkdir` and `is_empty` of one beam directory are one
step, because no two threads have a beam in common. `mkdir()` may fail
(`MkdirMayFail`), and `Crash` loses what is not on disk. The ssd and the nfs are
the same, with one mount or with several.

### `Inventory` - the index of acquisitions

`MCInventory` gives the constants values. The script's steps are one beam listed
(`ListBeam`), the old output renamed (`BackUp`), the new directory made
(`MakeOutput`), one part of one beam written (`WritePart`: a JSON file each, beam
after beam), the run lists (`Finish`) and, with `-D`, the backup deleted, perhaps not
to the end (`Clean`); between them L1 writes files (`WriteFile`) and a beam stops
looking recent (`Age`, a minute). `ListFails`, `WriteFails` and `Killed` end a run
anywhere. `Part` and `NumParts` are the arithmetic of `write_json_files()`, over
integers: its `int(n / float(per) + 0.5)` is `(2n + per) \div 2per`.

A file is known by its place in the directory of its beam, as in the script. Beams may
begin at different chunks (lines 193-199), so equal places in two beams need not be
equal times, and no property compares the parts of one beam with those of another.

### `Cnc` - command and control

`MCCnc` gives the constants values. A daemon of `Servers` is modelled with its
children; of `Others` only that it answers calls or not, so that a call can wait
for several.

| Variables | Code |
|---|---|
| `daemon`, `inbox` | what the one thread of `main()` is doing, the REP socket |
| `launched`, `captive` | `launched_procs`, the keys of `captive_procs` |
| `child`, `lines` | the processes; lines printed, put into `qout` by the reader thread, taken from it |
| `call`, `answers`, `results` | `send_with_timeout()`: registered sockets, what is left of the timeout, what has arrived and what has been read |
| `polls`, `polling`, `got` | `poll()`: which child a poll waits for the output of, and the lines that polls have returned |

The clients are users of the class `CncClient`, whoever they are: calls to any servers
one after the other, and polls of any captive child, one at a time to a server. (The
web application is none: `get_cnc_client()` returns `CncSsh` (webapp.py:46-53), and its
widgets that follow a process are switched off (diagnostics.html:68-92).) A child has
the number of the call that launched it for a process id.

A command that takes time or is interleaved with children is several steps (`Run`,
`RunEnds`; `ReadProc`, `Drain`, `DrainAgain`; `Reap`, one step per turn of the loop
over the list it changes). Under Python 3 the lines are bytes, which `join()` does not
take, and the lines read are lost (`JoinFails`); under Python 2 they are not, and both
are possible here. A socket that is closed leaves its request behind (`Abandoned`): the
daemon carries it out and nobody gets the reply. A poll may time out at any moment
(`PollExpires`), a call when its time is up.

### `L1Config`, `SimulateL0`, `SimulatedNode` - a node and its simulator

`L1Config` has what `l1_config` and `l1_server` compute from the configuration:
which parameters are accepted, and how the beams are dealt to streams; memory is left
out. `SimulateL0` extends it with the
simulator: which parameter files are accepted, who sends which beams and
frequencies (pure operators), and the process with main, a sender per ostream and a
network thread behind each. `SimulatedNode` composes the two with the receiving
end, as `ch-frb-simulate-l0` and `ch-frb-l1` are used together;
`MCSimulatedNode` gives the constants values. The ostream, its network thread and the
receiving stream belong to ch_frb_io and are modelled from their use: an ostream
holds up to `RingSize` chunks, sends them in order, and after `end_stream()` sends
an end-of-stream packet if it was told to; a stream ends at the first of those.

## The runs

| Run | Checks | Shows |
|---|---|---|
| `core` | ReplyAfterList, ReplyAtMostOnce, ReplyTruthful, ReplyNotLost, StatusSettled, StatusAfterReply, DevicesDrained | two requests, of two clients or one, two devices, chunks with and without a device or sharing files; either client may leave, `recv()` may fail, the process goes down |
| `service` | ImplementsService, AcceptedIsAnswered, ShutdownCompletes | every step is a step of the abstract service, also with a test-only write and chunks refused by closed devices; under fairness, writes are answered and every shutdown completes, unless dedispersion threads are kept by L1b children |
| `updown` | RpcSeesWholeStream, DevicesOutliveStreams, AllThreadsJoined, RpcReadsFrozenMap, ServerExits, RpcServersComeUp | two streams of two beams with an L1b child each, which may never exit; failing threads, scrapes, shutdown RPCs; the process comes up and, once its streams are over and the children have exited, goes down after all threads and children |
| `calls` | NothingLeftOver, NothingLost, OwnAnswers, WaitAllWaits | two calls of every kind in a row, waits that time out and answers that come late |
| `returns` | CallReturns | two servers; a call with a timeout comes back although servers die or refuse, one without if they do neither |
| `acquisition` | NothingOverwritten, ChunksHavePlace, RefusedForCause | two servers and main, two names, mounts missing, `mkdir()` failing, crashes at any point |
| `inventory` | PartsTile, IndexedStaysIndexed, CompleteOneKept | two runs over two growing beams, failing or killed at any point, also between two files |
| `cnc` | RunningAreKnown, OwnAnswers, OutputInOrder, FinishedAreReaped, CallReturns | two calls of every kind to two servers and two polls of captive children printing two lines; late and missing replies, commands that do not end |
| `simulator` | PacketsFit, EosIsLast, EndedHaveAll, EverythingEnds | every combination of the parameter files and configurations of `MCSimulatedNode`, good and bad |
| `toy`, `timeout`, `backup` | one property each, violated | where the code does something else than it or its documentation says, see below |

Bounds. The interesting interleavings of the write path need two chunks (one is
written while the other is being enqueued) and two requests, of two clients that
share a file or of one that reuses it; a third adds no new order between a pair.
Two devices make main close one while the other still works. `MaxRequests` (in
`L1RpcServer`, all clients together) and `TestChunks` bound only how much clients
ask for, and `core` has at most two accepted writes (`AtMostTwoWrites`, a constraint
on the states explored). The proofs below hold for all values. In `L1Server`, two streams of
two beams distinguish a loop over streams from one over beams and let one stream end
before the other; two mask counters give a thread a state between two insertions.
`updown` explores only the states in which an L1b child exits when its thread waits for it,
or later (`ChildrenExitLate`, a constraint): to the thread, one that has exited before is
the same.
Clients are symmetric in `core`, where no liveness is checked.

In `RpcClient`, two servers show that answers come from the right one and that a wait for
one goes on to the next; with one server, two calls let the answers to the first
arrive during the second, and two chunks separate a list, a reply that was waited for
and one that was not. Timeouts are 1 or 2 ms and a second is 2 ms (`Second`): what
matters is that a timeout can expire before, between and after the messages, and that
seconds and milliseconds differ. `Kinds` and `MaxCalls` bound what the user asks.

In `Acquisition`, one stream has two beams, so that a thread can be between them,
the other one; two names and two requests (`MaxRequests`, configured acquisitions
counted) let one acquisition meet what another of the same or a different name
has left, also across a crash. In `Inventory`, parts of three files with an overlap of
one and up to six files (`MaxFiles`) give zero, one and two parts, rounded up and
down, and `MaxRuns = 2` relates two inventories; beams are symmetric. In `Cnc`, two
calls (`MaxCalls`) can launch two children, or one while a command keeps the daemon, or
come late for each other; two polls (`MaxPolls`) can be given up and come late in the same
way; `MaxLines = 2` orders lines (of two captive children only the first prints:
`LinesOfOne`, a constraint); with `MaxInbox = 1` a request waits while an abandoned one is
served; and a `Timeout` of one tick can run out, or be passed while replies are being read.
In the simulator's runs eight frequencies, up to four
threads and streams, a chunk of four samples and packets of at most 40 bytes
give every case of the checks; `MaxChunks` and `MaxSends` bound what is sent, and
`RingSize = 1` makes senders wait.

Fairness. Each thread is weakly fair: the operating system schedules it, a disk
answers, the stream's threads exit once it has been ended. main, each dedispersion
thread and each I/O thread have their own condition. Nothing makes a client send,
a scraper scrape, L0 end a stream, an L1b child exit, `recv()` fail or a thread throw. (A
child that does not exit keeps its dedispersion thread, and so main in
`join_all_threads()`, for ever; nor is a pipe it does not read given up if it was made
blocking, ch-frb-l1.cpp:1218-1219. `ServerExits` has the children's exit as a premise;
in `L1RpcServer`, where the dedispersion threads have no state, main's wait for them is not
fair, and `ShutdownCompletes` excepts it once the stream has ended.) In `returns`, the
client's thread runs and time passes while it polls, and servers that are up answer,
finish and report; none of this makes a dead server answer. In `cnc`, each daemon and
the client of the call go on while they can; nothing makes a child print or end, a
command of `run` end (cnc.py:71 waits for it without a limit) or an `Others` server
answer. In `simulator` it is enough
that some thread that can run does: no loop polls, and every step is progress
(which is proved: `StepsAreProgress`).

Deadlock is checked in every run but `returns`, `inventory` and `cnc`; a process that has
exited stutters explicitly (`Exited`, `Over`), as do a user who makes no call and a
simulation that is `Finished` (`Idle`). In `returns` a call without a timeout may rightly wait forever,
for a server that has died or for the reply to a refused chunk, and `CallReturns`
excepts just these. The inventory script is a process that ends;
in `cnc` a daemon can be told to quit and users stop calling.

### Where documentation and code differ

Shown by a run:

- `toy`: a toy server (`-t`, ch-frb-l1.cpp:217-218) waits forever for dedispersers
  no toy thread announces (1368-1381): no RPC server, no exit.
- `timeout`: timeouts are milliseconds (rpc_client.py:573, webapp/webapp.py:657) but
  are counted down in seconds (rpc_client.py:659-663, 425-428), so that each message
  that does not end the wait gives it almost the whole timeout again. Two scripts
  pass seconds (alignment.py:17, packet-rate-recorder.py:46), which the polls take as
  milliseconds.
- `backup`: ch-frb-make-acq-inventory:419-420 says it restores the backup when writing
  fails; the output directory is there and not empty by then, so the rename fails,
  and the backup stays under its other name. `CompleteOneKept` holds: nothing is lost.

Seen in the models, without a run of their own:

- Writes that finish while main drains the devices are not reported: `run()` leaves
  its loop without a last look at the queue (l1-rpc.cpp:346), while rpc.hpp:118-120
  promises a reply for each chunk written. `AcceptedIsAnswered` excepts shutdown.
- rpc.hpp:151-152 says queued writes are dropped at shutdown; they are all written
  (ch-frb-l1.cpp:1495-1498), which `DevicesDrained` states.
- The list includes refused chunks, which are never answered, although
  rpc.hpp:120-121 says it tells how many replies to expect, and rpc_client.py:419
  waits for that many. `RpcClient!MayRefuse` is this case.
- Prometheus workers walk the mask map while it is filled, although
  mask_stats.hpp:31-37 calls it read-only by then; `L1Server` has the race.
- cnc.py:138-139 calls `terminate()` on the tuple of a captive process: a kill is
  answered "did not understand request" and kills nothing. The stderr queue is never read
  (line 123 reads stdout's again). Output is lost with a poll that has timed out, and under
  Python 3 always (`JoinFails`); captive children launched by a call that has timed out are
  known to no client; and a daemon that is polled more often than every 5 s never has the
  quiet in which it reaps launched children (`MaxPolls` and `MaxCalls` bound the requests,
  so `FinishedAreReaped` is about what comes after them).
- cnc_client.py:92: what is left of a timeout can become negative, which `poll()` takes
  for no limit; `CallReturns` of `Cnc` excepts a call that waits so for a server which
  never answers.
- ch-frb-l1.cpp:1189 pins dedispersion thread j of the 8-beam node to cores 2j and 2j+1 but to
  their hyperthread siblings as `j+20, j+21`, which overlap between neighbours; the
  16-beam node has no such overlap. Core numbers are not modelled.

## The proofs

`L1RpcServer_proofs` proves, for any sets of clients, chunks, patterns and files
and any number of devices and requests, under `ConstantsAssumption` only:

| Theorem | States |
|---|---|
| `TypeCorrect` | `Spec => []TypeOK` |
| `Safety` | `Spec => []IInv` |
| `ListFirst`, `NoDuplicateReply`, `RepliesAreTrue`, `NoReplyLost`, `StatusExplained`, `DevicesAreDrained` | `[]` of ReplyAfterList, ReplyAtMostOnce, ReplyTruthful, ReplyNotLost, StatusSettled, DevicesDrained |

The argument. None of these properties is inductive alone: that a reply is not sent twice
depends on where the write is, and that on which writes can still be accepted. The
invariant `IInv` follows a write through its life:

- `TokenInv`: the requests in a client's inbox carry consecutive tokens, all larger
  than those of the messages it has got and of the writes accepted for it; while
  a request is handled its token is the largest received and no message has it;
- `IdentityInv`: client, token and chunk identify an accepted write, and while a
  request is handled its accepted writes are those of the reply so far, none of a
  chunk that is still to come;
- `QueueInv`: an unfinished write is in the device queue or being written by the
  device that serves its file, an I/O thread about to report has a finished one, and
  a device that has exited is closed and has nothing in the queue;
- `ListInv`: the list that names an accepted write has been delivered, or its request
  is still being handled, or the client has gone;
- `BackendInv`: an entry of the backend queue is a finished write, tells how it ended,
  is there once, is not with an I/O thread, and has not been answered; nor has a
  write an I/O thread is about to report;
- `MainInv`: the devices before main's index have exited;
- and ReplyAfterList, ReplyAtMostOnce, ReplyTruthful, ReplyNotLost and
  StatusSettled, each of which needs some of the above.

DevicesDrained follows from `QueueInv` and `MainInv`.
Each part has its own step lemma, one case per action that can disturb it; frame
lemmas dispose of the others. `Safety` puts the parts together.

Two theorems are the part of AcceptedIsAnswered and ShutdownCompletes that is not about
fairness. With `JoinInv` (which devices main has closed, and that shutdown ends the stream)
`NobodyWaitsInVain` shows that main, the RPC thread and a client whose write has been
accepted wait only for a thread that can go on, or main for dedispersion threads, which may
have L1b children to wait for; and that nothing but L0 is waited for while the stream runs. `NothingDoneOver` gives a write stages, from asked for to reported, and
main its steps: each is taken once and in order, and a step of main, of an I/O thread
that does not exit or of the reply loop always takes one.

`L1RpcServer_refinement` uses this invariant for two more theorems.
`ServiceImplemented` is `Spec => ImplementsService`: the rpc server with all its threads
implements `WriteService` (`Chunks # {}` is assumed, as an announcement that names no
chunk takes its token from the writes of the abstract specification). The mapping reads
`announced` and `answered` off the delivered messages; an accepted enqueue is `Accept`,
`IoFinish` is `Finish`, the list is `Announce` and a chunk reply is `Answer`, unless the
client has gone, and every other step leaves the service alone. It needs one more part,
`CurrentInv`: every chunk of the reply under construction has an accepted write.
`StatusFollowsReply` is `StatusAfterReply`: a reply that has been delivered is
that of a finished write, and StatusSettled gives what the status map can say then.

`L1Server_proofs`, under `L1ServerAssumption`, for any number of streams, beams and
counters, with and without `-t` and L1b children, and failing threads: `TypeCorrect`,
`ServersSeeTheirStream` (RpcSeesWholeStream), `StreamsEndFirst` (DevicesOutliveStreams),
`MainIsLast` (AllThreadsJoined) and `WalkedMapsStay` (the action property
RpcReadsFrozenMap). The invariant relates main's position to what each loop has done:

- `AnnounceInv`: the mask map is exactly what has been put, and a beam that has
  announced its dedisperser has nothing left to put;
- `CapturedInv`: main gets past its wait, and an RPC server exists, only when all beams
  have announced theirs;
- `JoinedInv`: beams or streams below main's index have been joined, ended or closed, and
  a dedispersion thread has exited only after its stream has ended and its L1b child
  has exited.

ServerExits and RpcServersComeUp hold under fairness. Proved of them, from `ProgressInv` (what
has been started and shut down at main's position), are that no wait is in vain
(`NobodyWaitsInVain`: without `-t` and as long as the process is not `aborted`, main can
go on, or the thread it waits for can, or it
waits for a running stream or a dedispersion thread whose L1b child has not exited, which
may be for ever) and that everything moves one way (`ThreadsGetOn`: main's
position has a bound and, like those of the dedispersion threads, the streams and the RPC
servers that are shut down, never goes back; their steps lead on). `ToyNeverServes` is the `toy`
finding for every configuration: with `-t` main never gets past its wait.

`Acquisition_proofs`: `TypeCorrect`, `NoAcquisitionOverwritten` (NothingOverwritten),
`EveryChunkHasPlace` (ChunksHavePlace), `RefusalsHaveCause` (RefusedForCause) and
`RefusalsAreClean` (RefusedLeavesNothing: nothing is streamed for a refused request). The
invariant adds that requests have different numbers (`IdInv`), that what a stream,
chunk, grant or metadata file carries is the number of no refused request and of none
that is still being checked (`CarryInv`), and that what a thread has found out between
its system calls stays true (`CheckedInv`: the mounts, the directories made so far, and for
a new acquisition that they held no files), whatever other threads do and across crashes.

`Inventory_proofs`: `TypeCorrect`, `PartsAreSound` (PartsTile), `IndexIsStable`
(IndexedStaysIndexed) and `OneInventoryKept` (CompleteOneKept), for any part length,
overlap and numbers of files, from lemmas on division (`Division`, `Products`,
`NumPartsBounds`). The invariant says that every output on disk has only parts its listing
gives, and all of them when it is complete; that the beams are written in turn, each from
its first part; that listings never exceed what has been written; and which outputs the
process can have at each of its steps.

`SimulatedNode_proofs`: `TypeCorrect`, `NothingAfterEos` (EosIsLast), `PacketsAlwaysFit`
(PacketsFit) and `EndedStreamsAreComplete` (EndedHaveAll), for any parameter files and configurations. The invariant: what runs has been
accepted, main's position tells which senders are joined and which ostreams are ended, and
behind an end-of-stream packet no network thread of its stream is left. EndedHaveAll needs
`DataInv` as well: a sender that is done has sent all its chunks or has failed, what is on
the wire of a stream is of its own senders, a chunk of a sender is there once, and
everything an ostream has passed on is there; and, with `NodeInv`, that every frequency of
every beam has a sender on its stream, which is arithmetic on `div` and `%`.

EverythingEnds holds under fairness. Proved of it: each step passes at least one of finitely many
milestones, for good (`StepsAreProgress`); some action is possible unless the simulation is
`Finished` (`NeverStuck`, with the guards written out in `CanStep`); and when it is, every
stream of a node that is up has ended, unless end-of-stream packets are ignored
(`FinishedMeansEnded`).

`Cnc_proofs`, for any servers, timeout, numbers of calls, polls and lines: `TypeCorrect`,
`CallsGetTheirAnswers` (OwnAnswers), `OutputComesInOrder` (OutputInOrder) and
`NoChildForgotten` (RunningAreKnown). The invariant:

- `ReapInv`: the loop over the list of children starts at its first;
- `RequestInv`: at each server at most one request is from the call in progress and at
  most one from a poll, it is the one they have sent, and it has not been answered: the
  answer to a call that was given up cannot be taken for that of the next;
- `CallInv`: what has arrived for a call is from a server it still waits for, and it and
  what has been read answers the request of this call;
- `OutputInv`: what polls have returned has been taken from the queue, and what the daemon
  holds for the next was taken later, in order.

`NobodyWaitsInVain` is the part of CallReturns that is not about fairness. With `AskedInv`
(what has not been answered is in the inbox or being served, unless the daemon has quit) a
call that has nothing to read and no limit, and a poll, have their request at a daemon that
can go on, or that waits for a command of `run`, or has quit; or, for a call, at a server
that is not modelled. No other command keeps a daemon from its inbox; that of `run` may do
so for ever.

`RpcClient_proofs`, for any number of servers and calls, any chunks and timeouts:
`TypeCorrect`, `MessagesPass` (NothingLost), `AnswersAreOwn` (OwnAnswers), `WritesAwaited`
(WaitAllWaits) and `CallsLeaveNothing` (NothingLeftOver). The invariant follows a message from
its request to the caller:

- `NextTokenInv`, `InboxInv`, `FreshInv`: tokens go to the servers in turn, so that a
  token tells its server (arithmetic with `%`), and none is in a queue twice or has been
  answered while it is;
- `SaidInv`, `ServiceInv`: a server says a value for a token, or first the list of the
  chunks it has accepted and then one message for each, of different chunks, once the
  write has ended;
- `LostInv`: what is said is handed over, buffered or on its way, in that order; its
  five lemmas (`PassesSaid` to `PassesHandedOver`) are about sequences alone and say what a
  message does to those with its token and to the others;
- `CallInv`, `WaitInv`: which tokens the call in progress has, and what it has got of them
  where it is.

`WritesAwaited` and `CallsLeaveNothing` count: the replies are of different chunks of the
list (`RepliesInjective`), the client waits for as many as the list is long, and an
injection between finite sets of one size is onto. NothingLost compares messages
by index, because the prover cannot instantiate operators that filter a sequence.

`NobodyPollsInVain` is the part of CallReturns that is not about fairness. It adds `PollInv`: what
has been asked of a server is in its queue or answered, a wait is for tokens whose buffer is
too short, and a call with a timeout always polls with a limit. A client that
polls with nothing to read then waits for something, and a server it waits for that is up
has the request before it or a write to report, or has refused a chunk of it.
`ServersAreServices` is the refinement `Spec => Service!Spec` (if `Chunks # {}`): what the
servers of this client do is what `WriteService` says. `ServiceImplemented` shows the same
of `L1RpcServer`; so the abstract specification the client is proved against is the one
the server is proved to implement.

Type invariants that are proved are not model-checked again in the runs.

## What is not modelled

- *Code that is not here.* Packet assembly and the ring buffers (ch_frb_io), signal
  processing (bonsai, rf_pipelines) and ZeroMQ are other repositories; they appear as the
  code here uses them, marked external in the map. Which chunks a request selects
  is therefore any set of chunks.
- *Vendored code.* civetweb (the web server below the Prometheus server) and cxxopts make up
  three quarters of the lines in `src/`. civetweb appears as what `l1-prometheus.cpp`
  expects of it: workers that run between start and destruction.
- *Text.* YAML parsing, the formatting of metrics, JSON and metadata files, file name
  patterns (a file name is a function of pattern and chunk), the web pages other
  than `node_status`; the widgets that would follow a process are switched off.
- *Memory.* The number of memory slabs (ch-frb-l1.cpp:609-664) and their pools: who holds how
  many is decided in ch_frb_io and by the writes under way.
- *No state.* Loggers and recorders, which receive and insert into a database; the
  command line clients (`rpc_client.cpp`, the `main` of `rpc_client.py`); the scripts;
  `cnc_ssh.py`; core pinning.
- *Not used by the server.* `rpc_server_async.py`, `toy-l1b.cpp`, the tests; except that
  `test-l1-rpc.cpp` is the caller of `TestEnqueue` in `L1RpcServer`.
- RPCs of the L1 server that only read and answer have the shape of
  `get_writechunk_status` and are not distinguished, nor are the queries of the Python
  client.

Only model-checked: the liveness properties (AcceptedIsAnswered, ShutdownCompletes, ServerExits,
RpcServersComeUp, EverythingEnds, and CallReturns and FinishedAreReaped of
the clients). Fairness and the induction over a measure are out of the prover's reach;
that no wait is in vain is proved for all components that have one of them, and that no
step is taken back for the servers and the simulator.
