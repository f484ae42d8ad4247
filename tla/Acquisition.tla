---------------------------- MODULE Acquisition ----------------------------
(***************************************************************************)
(* How an L1 process starts streaming its data to the files of an          *)
(* acquisition: the "stream" RPC of one server per stream (l1-rpc.cpp), the *)
(* acquisition of the configuration file at startup (ch-frb-l1.cpp), and    *)
(* the directories both check and create, one system call after the other  *)
(* (file_utils.cpp), while I/O threads write chunks and the process may    *)
(* crash and be restarted.                                                 *)
(*                                                                         *)
(* The archivers are mounts of one file system, over which the NFS load is *)
(* spread (ch_frb_l1.hpp:40); the ssd is the case in which all streams have *)
(* the same mount.  No two streams have a beam in common, so only one      *)
(* thread at a time looks at a beam's directory: what exists(), mkdir() and *)
(* is_empty() find there is one step.                                      *)
(***************************************************************************)
EXTENDS Integers

CONSTANTS
    NumStreams,   \* streams of the node, numbered from 1 like the mounts
    Beams,
    BeamsOf,      \* stream -> its beams
    Acqs,         \* acquisition names
    BeamLists,    \* the beam lists that requests and the configuration name
    MaxRequests,  \* bound: requests and configured acquisitions
    MkdirMayFail  \* may mkdir() fail on a directory it should create?

Streams == 1 .. NumStreams
Main    == 0
Threads == Streams \cup {Main}

ASSUME AcquisitionAssumption ==
    /\ NumStreams \in Nat \ {0}
    /\ BeamsOf \in [Streams -> SUBSET Beams]
    /\ \A s, t \in Streams : s # t => BeamsOf[s] \cap BeamsOf[t] = {}
    /\ BeamLists \subseteq SUBSET Beams
    /\ MaxRequests \in Nat
    /\ MkdirMayFail \in BOOLEAN

VARIABLES
    mounted,     \* streams whose archiver is mounted
    acqDirs,     \* acquisitions that have a directory
    beamDirs,    \* <<acquisition, beam>> pairs that have one
    files,       \* chunk files
    queued,      \* chunks handed to the I/O threads and not yet written
    up,          \* is the process past its configuration?
    streaming,   \* stream -> what stream_to_files() was last told
    pc,          \* thread -> where it is in acqname_to_filename_pattern()
    req,         \* thread -> the request it is handling
    todo,        \* thread -> beams whose directories are still to be checked
    meta,        \* acquisition -> the request whose metadata.json it has
    requests,    \* how many requests there have been
    granted,     \* requests that were granted
    refused      \* <<request, reason>>

fsVars      == <<acqDirs, beamDirs>>
threadVars  == <<pc, req, todo>>
historyVars == <<granted, refused>>

vars == <<mounted, fsVars, files, queued, up, streaming, threadVars, meta,
          requests, historyVars>>

Ids == 1 .. MaxRequests

\* "who" handles it, "old" are the beams that had files in the acquisition
\* when it came.
Requests == [id : Ids, who : Threads, acq : Acqs, beams : SUBSET Beams,
             new : BOOLEAN, old : SUBSET Beams]
Chunks   == [acq : Acqs, beam : Beams, id : Ids]
Reasons  == {"not mounted", "mkdir", "nonempty"}
NoReq    == [id |-> 0]
Off      == [id |-> 0]

\* The mounts and the beams the thread checks.  A server looks at the
\* directories of all of its beams, whichever the request names, main at
\* those of stream_beam_ids.
MountsOf(t) == IF t = Main THEN Streams ELSE {t}

\* (mutant) only the beams of the request
CheckedOnlyNamed(r) == r.beams

Checked(r) == IF r.who = Main THEN r.beams ELSE BeamsOf[r.who]

Nonempty(a) == {b \in Beams : \E f \in files : f.acq = a /\ f.beam = b}

Init ==
    /\ mounted \in SUBSET Streams
    /\ acqDirs = {} /\ beamDirs = {} /\ files = {} /\ queued = {}
    /\ up = FALSE
    /\ streaming = [s \in Streams |-> Off]
    /\ pc = [t \in Threads |-> "idle"]
    /\ req = [t \in Threads |-> NoReq]
    /\ todo = [t \in Threads |-> {}]
    /\ meta = [a \in Acqs |-> 0]
    /\ requests = 0
    /\ granted = {} /\ refused = {}

-----------------------------------------------------------------------------
(* Requests: an RPC, or the configuration of a process that starts.        *)

Begin(t, a, B, new) ==
    /\ pc[t] = "idle"
    /\ requests < MaxRequests
    /\ requests' = requests + 1
    /\ req' = [req EXCEPT ![t] = [id |-> requests + 1, who |-> t, acq |-> a,
                                  beams |-> B, new |-> new, old |-> Nonempty(a)]]
    /\ pc' = [pc EXCEPT ![t] = "base"]
    /\ UNCHANGED <<mounted, fsVars, files, queued, up, streaming, todo, meta,
                   historyVars>>

\* (mutant) the beams of other streams are not filtered out
StreamUnfiltered(s) ==
    /\ up
    /\ \E a \in Acqs, B \in BeamLists, new \in BOOLEAN :
          Begin(s, a, IF B = {} THEN BeamsOf[s] ELSE B, new)

\* The stream RPC: beams of other streams are ignored, no list means all.
Stream(s) ==
    /\ up
    /\ \E a \in Acqs, B \in BeamLists, new \in BOOLEAN :
          Begin(s, a, IF B = {} THEN BeamsOf[s] ELSE B \cap BeamsOf[s], new)

\* The stream RPC with an empty name.
StreamOff(s) ==
    /\ up
    /\ pc[s] = "idle"
    /\ streaming' = [streaming EXCEPT ![s] = Off]
    /\ UNCHANGED <<mounted, fsVars, files, queued, up, threadVars, meta, requests,
                   historyVars>>

\* A process starts, with an acquisition in its configuration or without.
StartConfigured ==
    /\ ~up
    /\ \E a \in Acqs, B \in BeamLists \ {{}} : Begin(Main, a, B, TRUE)

StartPlain ==
    /\ ~up
    /\ pc[Main] = "idle"
    /\ up' = TRUE
    /\ UNCHANGED <<mounted, fsVars, files, queued, streaming, threadVars, meta,
                   requests, historyVars>>

-----------------------------------------------------------------------------
(* acqname_to_filename_pattern() and what its callers do with the result.  *)

Refuse(t, reason) ==
    /\ refused' = refused \cup {<<req[t], reason>>}
    /\ pc' = [pc EXCEPT ![t] = "idle"]
    /\ req' = [req EXCEPT ![t] = NoReq]
    /\ todo' = [todo EXCEPT ![t] = {}]
    /\ UNCHANGED <<fsVars, granted>>

\* check_acqdir_base()
CheckBase(t) ==
    /\ pc[t] = "base"
    /\ \/ /\ MountsOf(t) \subseteq mounted
          /\ pc' = [pc EXCEPT ![t] = "acqdir"]
          /\ UNCHANGED <<fsVars, req, todo, historyVars>>
       \/ ~(MountsOf(t) \subseteq mounted) /\ Refuse(t, "not mounted")
    /\ UNCHANGED <<mounted, files, queued, up, streaming, meta, requests>>

\* check_acqdir(): the directory of the acquisition, on the first archiver,
\* may be there already.
MakeAcqDir(t) ==
    /\ pc[t] = "acqdir"
    /\ \/ /\ 1 \in mounted
          /\ acqDirs' = acqDirs \cup {req[t].acq}
          /\ todo' = [todo EXCEPT ![t] = Checked(req[t])]
          /\ pc' = [pc EXCEPT ![t] = "beams"]
          /\ UNCHANGED <<beamDirs, req, historyVars>>
       \/ /\ 1 \notin mounted \/ (MkdirMayFail /\ req[t].acq \notin acqDirs)
          /\ Refuse(t, "mkdir")
    /\ UNCHANGED <<mounted, files, queued, up, streaming, meta, requests>>

\* (mutant) a directory left by an earlier attempt is taken for a previous
\* acquisition
InUseIfExists(r, b) == <<r.acq, b>> \in beamDirs /\ r.new

InUse(r, b) == r.new /\ b \in Nonempty(r.acq)

\* check_acqdir(): one turn of its loop over the beams.
CheckBeam(t) ==
    /\ pc[t] = "beams"
    /\ \E b \in todo[t] :
         \/ /\ ~InUse(req[t], b)
            /\ beamDirs' = beamDirs \cup {<<req[t].acq, b>>}
            /\ todo' = [todo EXCEPT ![t] = @ \ {b}]
            /\ UNCHANGED <<acqDirs, pc, req, historyVars>>
         \/ InUse(req[t], b) /\ Refuse(t, "nonempty")
         \/ /\ MkdirMayFail /\ <<req[t].acq, b>> \notin beamDirs
            /\ Refuse(t, "mkdir")
    /\ UNCHANGED <<mounted, files, queued, up, streaming, meta, requests>>

\* A server that starts a new acquisition leaves its description first.
WriteMetadata(t) ==
    /\ pc[t] = "beams"
    /\ todo[t] = {}
    /\ meta' = IF t # Main /\ req[t].new
               THEN [meta EXCEPT ![req[t].acq] = req[t].id] ELSE meta
    /\ pc' = [pc EXCEPT ![t] = "grant"]
    /\ UNCHANGED <<mounted, fsVars, files, queued, up, streaming, req, todo,
                   requests, historyVars>>

\* stream_to_files(): of the requesting stream, or of every stream by main.
Grant(t) ==
    /\ pc[t] = "grant"
    /\ LET told(B) == [id |-> req[t].id, acq |-> req[t].acq, beams |-> B]
       IN streaming' =
            IF t = Main THEN [s \in Streams |-> told(req[t].beams \cap BeamsOf[s])]
                        ELSE [streaming EXCEPT ![t] = told(req[t].beams)]
    /\ up' = TRUE
    /\ granted' = granted \cup {req[t]}
    /\ pc' = [pc EXCEPT ![t] = "idle"]
    /\ req' = [req EXCEPT ![t] = NoReq]
    /\ UNCHANGED <<mounted, fsVars, files, queued, todo, meta, requests, refused>>

Thread(t) ==
    CheckBase(t) \/ MakeAcqDir(t) \/ CheckBeam(t) \/ WriteMetadata(t) \/ Grant(t)

-----------------------------------------------------------------------------
(* Chunks, and crashes.                                                    *)

\* An assembled chunk of a streamed beam is queued for an I/O thread.
QueueChunk(s) ==
    /\ streaming[s] # Off
    /\ \E b \in streaming[s].beams :
          queued' = queued \cup
              {[acq |-> streaming[s].acq, beam |-> b, id |-> streaming[s].id]}
    /\ UNCHANGED <<mounted, fsVars, files, up, streaming, threadVars, meta,
                   requests, historyVars>>

WriteChunk(k) ==
    /\ k \in queued
    /\ queued' = queued \ {k}
    /\ files' = files \cup {k}
    /\ UNCHANGED <<mounted, fsVars, up, streaming, threadVars, meta, requests,
                   historyVars>>

\* The process is gone, wherever its threads were; the files stay.
Crash ==
    /\ up' = FALSE
    /\ queued' = {}
    /\ streaming' = [s \in Streams |-> Off]
    /\ pc' = [t \in Threads |-> "idle"]
    /\ req' = [t \in Threads |-> NoReq]
    /\ todo' = [t \in Threads |-> {}]
    /\ UNCHANGED <<mounted, fsVars, files, meta, requests, historyVars>>

Next ==
    \/ \E s \in Streams : Stream(s) \/ StreamOff(s) \/ QueueChunk(s)
    \/ StartConfigured \/ StartPlain
    \/ \E t \in Threads : Thread(t)
    \/ \E k \in Chunks : WriteChunk(k)
    \/ Crash

Spec == Init /\ [][Next]_vars

-----------------------------------------------------------------------------
(* Properties.                                                             *)

TypeOK ==
    /\ mounted \subseteq Streams
    /\ acqDirs \subseteq Acqs
    /\ beamDirs \subseteq Acqs \X Beams
    /\ files \subseteq Chunks
    /\ queued \subseteq Chunks
    /\ up \in BOOLEAN
    /\ streaming \in [Streams ->
          {Off} \cup [id : Ids, acq : Acqs, beams : SUBSET Beams]]
    /\ pc \in [Threads -> {"idle", "base", "acqdir", "beams", "grant"}]
    /\ req \in [Threads -> Requests \cup {NoReq}]
    /\ \A t \in Threads : pc[t] = "idle" \/ (req[t] \in Requests /\ req[t].who = t)
    /\ todo \in [Threads -> SUBSET Beams]
    /\ meta \in [Acqs -> {0} \cup Ids]
    /\ requests \in 0 .. MaxRequests
    /\ granted \subseteq Requests
    /\ refused \subseteq Requests \X Reasons

\* "The important case to check, to avoid overwriting a previous acquisition
\* with the same name" (file_utils.cpp:79): when a server grants a new
\* acquisition, none of its beams, also those that are not streamed yet, had
\* files under this name when the request came, whatever failed attempts and
\* crashes came before.
NothingOverwritten ==
    \A r \in granted :
        r.new => r.old \cap (IF r.who = Main THEN r.beams ELSE BeamsOf[r.who]) = {}

\* Every chunk an I/O thread has or will get to write has its directory, on a
\* mount that is there.
ChunksHavePlace ==
    /\ \A k \in queued : <<k.acq, k.beam>> \in beamDirs
    /\ \A s \in Streams : streaming[s] # Off =>
         /\ s \in mounted
         /\ \A b \in streaming[s].beams : <<streaming[s].acq, b>> \in beamDirs

\* A request that was refused has left directories and nothing else: no stream
\* follows it, no chunk and no metadata.json come from it.
RefusedLeavesNothing ==
    \A x \in refused :
        LET r == x[1] IN
        /\ \A g \in granted : g.id # r.id
        /\ \A s \in Streams : streaming[s].id # r.id
        /\ \A k \in queued \cup files : k.id # r.id
        /\ \A a \in Acqs : meta[a] # r.id

\* Directories that failed attempts have left do not stand in the way: a new
\* acquisition is refused for what is in the directories only if a chunk of one
\* of its beams has been written under that name.
RefusedForCause ==
    \A x \in refused : x[2] = "nonempty" =>
        \E f \in files : f.acq = x[1].acq /\ f.beam \in Checked(x[1])
                                          /\ f.id # x[1].id
=============================================================================
