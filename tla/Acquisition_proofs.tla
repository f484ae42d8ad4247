------------------------- MODULE Acquisition_proofs -------------------------
(***************************************************************************)
(* The safety properties of Acquisition for any number of streams, beams,  *)
(* acquisitions and requests.                                              *)
(***************************************************************************)
EXTENDS Acquisition, TLAPS

Busy == {t \in Threads : pc[t] # "idle"}

\* Ids are given out in order, each to one request, and what the file system
\* and the streams keep of a request is not that of one being checked.
IdInv ==
    /\ \A t \in Busy : req[t].id \in 1 .. requests
    /\ \A t, u \in Busy : t # u => req[t].id # req[u].id
    /\ \A g \in granted : g.id \in 1 .. requests
                          /\ \A t \in Busy : req[t].id # g.id
    /\ \A x \in refused : x[1].id \in 1 .. requests
                          /\ \A t \in Busy : req[t].id # x[1].id

\* An id that something carries: of no refused request, nor of one that may
\* still be.
Settled(i) ==
    /\ i <= requests
    /\ \A t \in Busy : req[t].id # i
    /\ \A x \in refused : x[1].id # i

CarryInv ==
    /\ \A g \in granted : \A x \in refused : x[1].id # g.id
    /\ \A k \in queued \cup files : Settled(k.id)
    /\ \A s \in Streams : streaming[s] # Off => Settled(streaming[s].id)
    /\ \A a \in Acqs : meta[a] # 0 =>
         /\ meta[a] <= requests
         /\ \A t \in Busy : req[t].id = meta[a] => pc[t] = "grant"
         /\ \A x \in refused : x[1].id # meta[a]

\* What a thread has found out about the directories so far.
CheckedInv ==
    \A t \in Busy :
        LET r == req[t] IN
        /\ r.beams \subseteq Checked(r)
        /\ r.old \subseteq Nonempty(r.acq)
        /\ pc[t] # "base" => MountsOf(t) \subseteq mounted
        /\ pc[t] = "beams" => todo[t] \subseteq Checked(r)
        /\ pc[t] = "grant" => todo[t] = {}
        /\ pc[t] \in {"beams", "grant"} =>
             \A b \in Checked(r) \ todo[t] :
                 /\ <<r.acq, b>> \in beamDirs
                 /\ r.new => b \notin r.old

IInv ==
    /\ TypeOK /\ IdInv /\ CarryInv /\ CheckedInv
    /\ NothingOverwritten /\ ChunksHavePlace /\ RefusedForCause

-----------------------------------------------------------------------------

LEMMA InitInv == Init => IInv
<1> SUFFICES ASSUME Init PROVE IInv
  OBVIOUS
<1>1. TypeOK
  <2>1. requests \in 0 .. MaxRequests
    BY AcquisitionAssumption DEF Init
  <2>2. /\ streaming \in [Streams -> {Off}]
        /\ pc \in [Threads -> {"idle"}]
        /\ req \in [Threads -> {NoReq}]
        /\ todo \in [Threads -> {{}}]
        /\ meta \in [Acqs -> {0}]
    BY DEF Init
  <2> QED
    BY <2>1, <2>2 DEF Init, TypeOK
<1>2. /\ Busy = {} /\ files = {} /\ queued = {} /\ queued \cup files = {}
      /\ granted = {} /\ refused = {}
      /\ \A s \in Streams : streaming[s] = Off
      /\ \A a \in Acqs : meta[a] = 0
  BY DEF Init, Busy
<1>3. IdInv /\ CheckedInv /\ CarryInv
  BY <1>2 DEF IdInv, CheckedInv, CarryInv
<1>4. NothingOverwritten /\ ChunksHavePlace /\ RefusedForCause
  BY <1>2 DEF NothingOverwritten, ChunksHavePlace, RefusedForCause
<1> QED
  BY <1>1, <1>3, <1>4 DEF IInv

\* A thread is in one of the streams' servers or in main.
LEMMA ThreadFacts == Main \in Threads /\ Streams \subseteq Threads
                     /\ Main \notin Streams
  BY AcquisitionAssumption DEF Main, Threads, Streams

LEMMA BeginStep ==
  ASSUME IInv, NEW t \in Threads, NEW a \in Acqs, NEW B \in SUBSET Beams,
         NEW new \in BOOLEAN, Begin(t, a, B, new),
         t # Main => B \subseteq BeamsOf[t]
  PROVE  IInv'
<1> DEFINE r == [id |-> requests + 1, who |-> t, acq |-> a, beams |-> B,
                 new |-> new, old |-> Nonempty(a)]
<1>1. /\ requests \in Nat /\ requests + 1 \in Ids
      /\ requests + 1 \in 0 .. MaxRequests
      /\ r \in Requests /\ r.who = t
  BY AcquisitionAssumption DEF IInv, TypeOK, Begin, Ids, Requests, Nonempty
<1>2. /\ req' = [req EXCEPT ![t] = r] /\ pc' = [pc EXCEPT ![t] = "base"]
      /\ requests' = requests + 1 /\ pc[t] = "idle"
      /\ UNCHANGED <<mounted, fsVars, files, queued, up, streaming, todo, meta,
                     historyVars>>
  BY DEF Begin
<1>3. TypeOK'
  BY <1>1, <1>2 DEF IInv, TypeOK, fsVars, historyVars
<1>4. Busy' = Busy \cup {t} /\ t \notin Busy
  BY <1>2 DEF Busy, IInv, TypeOK
<1>5. req'[t] = r /\ r.id = requests + 1 /\ pc'[t] = "base"
      /\ \A u \in Busy : req'[u] = req[u] /\ pc'[u] = pc[u] /\ u # t
  BY <1>2, <1>4 DEF IInv, TypeOK, Busy
<1>6. IdInv'
  BY <1>1, <1>2, <1>4, <1>5 DEF IInv, IdInv, historyVars
<1>7. CarryInv'
  <2>1. \A i : Settled(i) /\ i \in Nat => Settled(i)'
    BY <1>1, <1>2, <1>4, <1>5 DEF Settled, IInv, IdInv, historyVars
  <2>2. \A k \in queued \cup files : k.id \in Nat
    BY AcquisitionAssumption DEF IInv, TypeOK, Chunks, Ids
  <2>3. \A s \in Streams : streaming[s].id \in Nat
    BY AcquisitionAssumption DEF IInv, TypeOK, Ids, Off
  <2>4. \A b \in Acqs : meta[b] \in Nat
    BY AcquisitionAssumption DEF IInv, TypeOK, Ids
  <2> QED
    BY <1>1, <1>2, <1>4, <1>5, <2>1, <2>2, <2>3, <2>4
       DEF CarryInv, IInv, historyVars
<1>8. CheckedInv'
  <2>1. Nonempty(a)' = Nonempty(a) /\ \A b : Nonempty(b)' = Nonempty(b)
    BY <1>2 DEF Nonempty
  <2>2. r.beams \subseteq Checked(r)
    BY ThreadFacts, <1>1 DEF Checked, Threads
  <2> QED
    BY <1>2, <1>4, <1>5, <2>1, <2>2
       DEF CheckedInv, IInv, fsVars, Checked, MountsOf
<1>9. (NothingOverwritten /\ ChunksHavePlace /\ RefusedForCause)'
  BY <1>2 DEF IInv, NothingOverwritten, ChunksHavePlace, RefusedForCause, fsVars,
              historyVars, Checked
<1> QED
  BY <1>3, <1>6, <1>7, <1>8, <1>9 DEF IInv

\* A thread that refuses a request takes it out of the way.
LEMMA RefuseStep ==
  ASSUME IInv, NEW t \in Threads, NEW reason \in Reasons, Refuse(t, reason),
         pc[t] \notin {"idle", "grant"},
         reason = "nonempty" =>
            \E f \in files : f.acq = req[t].acq /\ f.beam \in Checked(req[t]),
         UNCHANGED <<mounted, files, queued, up, streaming, meta, requests>>
  PROVE  IInv'
<1> DEFINE r == req[t]
<1>1. /\ r \in Requests /\ t \in Busy
      /\ refused' = refused \cup {<<r, reason>>}
      /\ pc' = [pc EXCEPT ![t] = "idle"] /\ req' = [req EXCEPT ![t] = NoReq]
      /\ todo' = [todo EXCEPT ![t] = {}]
      /\ UNCHANGED <<mounted, fsVars, files, queued, up, streaming, meta,
                     requests, granted>>
  BY DEF Refuse, Busy, IInv, TypeOK
<1>2. /\ Busy' = Busy \ {t}
      /\ \A u \in Busy' : req'[u] = req[u] /\ pc'[u] = pc[u] /\ todo'[u] = todo[u]
                          /\ u \in Busy /\ u # t
  BY <1>1 DEF Busy, IInv, TypeOK
<1>3. TypeOK'
  BY <1>1 DEF IInv, TypeOK, fsVars
<1>4. IdInv'
  BY <1>1, <1>2 DEF IInv, IdInv
<1>5. CarryInv'
  <2>1. \A i : Settled(i) => Settled(i)'
    BY <1>1, <1>2 DEF Settled
  <2>2. \A a \in Acqs : meta[a] # r.id
    BY <1>1 DEF IInv, CarryInv, TypeOK, Busy, Requests, Ids
  <2> QED
    BY <1>1, <1>2, <2>1, <2>2 DEF CarryInv, IInv, IdInv
<1>6. CheckedInv'
  BY <1>1, <1>2 DEF CheckedInv, IInv, fsVars, Checked, MountsOf, Nonempty
<1>7. RefusedForCause'
  <2>1. \A f \in files : f.id # r.id
    BY <1>1 DEF IInv, CarryInv, Settled
  <2> QED
    BY <1>1, <2>1 DEF IInv, RefusedForCause, Checked
<1>8. (NothingOverwritten /\ ChunksHavePlace)'
  BY <1>1 DEF IInv, NothingOverwritten, ChunksHavePlace, fsVars
<1> QED
  BY <1>3, <1>4, <1>5, <1>6, <1>7, <1>8 DEF IInv

\* A thread that goes on with its checks: directories may be added, none of the
\* rest changes.
LEMMA CheckStep ==
  ASSUME IInv, NEW t \in Busy, TypeOK', pc[t] # "grant", pc'[t] # "idle",
         pc' = [pc EXCEPT ![t] = pc'[t]], todo' = [todo EXCEPT ![t] = todo'[t]],
         beamDirs \subseteq beamDirs', acqDirs \subseteq acqDirs',
         pc'[t] # "base" => MountsOf(t) \subseteq mounted,
         pc'[t] \in {"beams", "grant"} =>
             \A b \in Checked(req[t]) \ todo'[t] :
                 /\ <<req[t].acq, b>> \in beamDirs'
                 /\ req[t].new => b \notin req[t].old,
         pc'[t] = "beams" => todo'[t] \subseteq Checked(req[t]),
         pc'[t] = "grant" => todo'[t] = {},
         \A a \in Acqs : meta'[a] = meta[a]
                         \/ (meta'[a] = req[t].id /\ pc'[t] = "grant"),
         UNCHANGED <<mounted, files, queued, up, streaming, req, requests,
                     historyVars>>
  PROVE  IInv'
<1>1. /\ Busy' = Busy /\ t \in Threads
      /\ \A u \in Busy \ {t} : pc'[u] = pc[u] /\ todo'[u] = todo[u]
  BY DEF Busy, IInv, TypeOK
<1>2. IdInv'
  BY <1>1 DEF IInv, IdInv, historyVars
<1>3. CarryInv'
  <2>1. \A i : Settled(i)' = Settled(i)
    BY <1>1 DEF Settled, historyVars
  <2>2. \A a \in Acqs : meta'[a] # 0 =>
           /\ meta'[a] <= requests
           /\ \A u \in Busy : req[u].id = meta'[a] => pc'[u] = "grant"
           /\ \A x \in refused : x[1].id # meta'[a]
    <3> SUFFICES ASSUME NEW a \in Acqs, meta'[a] # 0
                 PROVE  /\ meta'[a] <= requests
                        /\ \A u \in Busy : req[u].id = meta'[a] => pc'[u] = "grant"
                        /\ \A x \in refused : x[1].id # meta'[a]
      OBVIOUS
    <3>1. CASE meta'[a] = meta[a]
      BY <1>1, <3>1 DEF IInv, CarryInv
    <3>2. CASE meta'[a] = req[t].id /\ pc'[t] = "grant"
      BY <1>1, <3>2 DEF IInv, IdInv, TypeOK
    <3> QED
      BY <3>1, <3>2
  <2> QED
    BY <1>1, <2>1, <2>2 DEF CarryInv, IInv, historyVars
<1>4. CheckedInv'
  BY <1>1 DEF CheckedInv, IInv, Checked, MountsOf, Nonempty
<1>5. (NothingOverwritten /\ ChunksHavePlace /\ RefusedForCause)'
  BY DEF IInv, NothingOverwritten, ChunksHavePlace, RefusedForCause,
         historyVars, Checked
<1> QED
  BY <1>2, <1>3, <1>4, <1>5 DEF IInv

LEMMA CheckBaseStep ==
  ASSUME IInv, NEW t \in Threads, CheckBase(t)
  PROVE  IInv'
<1>1. t \in Busy /\ pc[t] = "base"
  BY DEF CheckBase, Busy
<1>2. CASE Refuse(t, "not mounted")
  BY <1>1, <1>2, RefuseStep DEF CheckBase, Reasons
<1>3. CASE ~Refuse(t, "not mounted")
  <2>1. /\ pc' = [pc EXCEPT ![t] = "acqdir"] /\ MountsOf(t) \subseteq mounted
        /\ UNCHANGED <<mounted, fsVars, files, queued, up, streaming, meta,
                       requests, req, todo, historyVars>>
    BY <1>3 DEF CheckBase
  <2>2. TypeOK' /\ pc'[t] = "acqdir"
    BY <1>1, <2>1 DEF IInv, TypeOK, fsVars, historyVars
  <2>3. pc' = [pc EXCEPT ![t] = pc'[t]] /\ todo' = [todo EXCEPT ![t] = todo'[t]]
    BY <2>1, <2>2 DEF IInv, TypeOK
  <2> QED
    BY <1>1, <2>1, <2>2, <2>3, CheckStep DEF fsVars
<1> QED
  BY <1>2, <1>3

LEMMA CheckedBeams ==
  ASSUME IInv, NEW t \in Busy
  PROVE  Checked(req[t]) \in SUBSET Beams
  BY AcquisitionAssumption
     DEF IInv, TypeOK, Busy, Checked, Requests, Threads

LEMMA MakeAcqDirStep ==
  ASSUME IInv, NEW t \in Threads, MakeAcqDir(t)
  PROVE  IInv'
<1>1. t \in Busy /\ pc[t] = "acqdir"
  BY DEF MakeAcqDir, Busy
<1>2. CASE Refuse(t, "mkdir")
  BY <1>1, <1>2, RefuseStep DEF MakeAcqDir, Reasons
<1>3. CASE ~Refuse(t, "mkdir")
  <2>1. /\ acqDirs' = acqDirs \cup {req[t].acq}
        /\ todo' = [todo EXCEPT ![t] = Checked(req[t])]
        /\ pc' = [pc EXCEPT ![t] = "beams"]
        /\ UNCHANGED <<mounted, beamDirs, files, queued, up, streaming, meta,
                       requests, req, historyVars>>
    BY <1>3 DEF MakeAcqDir
  <2>2. /\ req[t] \in Requests /\ req[t].acq \in Acqs /\ req[t].who = t
        /\ pc'[t] = "beams" /\ todo'[t] = Checked(req[t])
    BY <1>1, <2>1 DEF IInv, TypeOK, Busy, Requests
  <2>3. TypeOK'
    <3>1. Checked(req[t]) \in SUBSET Beams
      BY <1>1, CheckedBeams
    <3>2. todo' \in [Threads -> SUBSET Beams]
      BY <2>1, <3>1 DEF IInv, TypeOK
    <3> QED
      BY <2>1, <2>2, <3>2 DEF IInv, TypeOK, historyVars
  <2>4. MountsOf(t) \subseteq mounted
    BY <1>1 DEF IInv, CheckedInv
  <2>5. pc' = [pc EXCEPT ![t] = pc'[t]] /\ todo' = [todo EXCEPT ![t] = todo'[t]]
    BY <2>1, <2>2
  <2> QED
    BY <1>1, <2>1, <2>2, <2>3, <2>4, <2>5, CheckStep
<1> QED
  BY <1>2, <1>3

LEMMA CheckBeamStep ==
  ASSUME IInv, NEW t \in Threads, CheckBeam(t)
  PROVE  IInv'
<1>1. t \in Busy /\ pc[t] = "beams" /\ req[t] \in Requests
  BY DEF CheckBeam, Busy, IInv, TypeOK
<1>2. UNCHANGED <<mounted, files, queued, up, streaming, meta, requests>>
  BY DEF CheckBeam
<1>3. PICK b \in todo[t] :
        \/ /\ ~InUse(req[t], b)
           /\ beamDirs' = beamDirs \cup {<<req[t].acq, b>>}
           /\ todo' = [todo EXCEPT ![t] = @ \ {b}]
           /\ UNCHANGED <<acqDirs, pc, req, historyVars>>
        \/ InUse(req[t], b) /\ Refuse(t, "nonempty")
        \/ Refuse(t, "mkdir")
  BY DEF CheckBeam
<1>4. b \in Beams
  BY <1>1 DEF IInv, TypeOK
<1>5. CASE Refuse(t, "mkdir")
  BY <1>1, <1>2, <1>5, RefuseStep DEF Reasons
<1>6. CASE InUse(req[t], b) /\ Refuse(t, "nonempty")
  <2>1. b \in Checked(req[t])
    BY <1>1 DEF IInv, CheckedInv
  <2>2. \E f \in files : f.acq = req[t].acq /\ f.beam = b
    BY <1>6 DEF InUse, Nonempty
  <2> QED
    BY <1>1, <1>2, <1>6, <2>1, <2>2, RefuseStep DEF Reasons
<1>7. CASE /\ ~InUse(req[t], b)
           /\ beamDirs' = beamDirs \cup {<<req[t].acq, b>>}
           /\ todo' = [todo EXCEPT ![t] = @ \ {b}]
           /\ UNCHANGED <<acqDirs, pc, req, historyVars>>
  <2>1. todo'[t] = todo[t] \ {b} /\ pc'[t] = "beams"
    BY <1>1, <1>7 DEF IInv, TypeOK
  <2>2. /\ pc' = [pc EXCEPT ![t] = pc'[t]] /\ todo' = [todo EXCEPT ![t] = todo'[t]]
        /\ <<req[t].acq, b>> \in Acqs \X Beams
    BY <1>1, <1>4, <1>7, <2>1 DEF IInv, TypeOK, Requests
  <2>3. TypeOK'
    BY <1>1, <1>2, <1>7, <2>2 DEF IInv, TypeOK, historyVars
  <2>4. req[t].new => b \notin req[t].old
    BY <1>1, <1>7 DEF InUse, IInv, CheckedInv
  <2>5. \A c \in Checked(req[t]) \ todo'[t] :
            /\ <<req[t].acq, c>> \in beamDirs'
            /\ req[t].new => c \notin req[t].old
    BY <1>1, <1>7, <2>1, <2>4 DEF IInv, CheckedInv
  <2>6. MountsOf(t) \subseteq mounted /\ todo'[t] \subseteq Checked(req[t])
    BY <1>1, <2>1 DEF IInv, CheckedInv
  <2> QED
    BY <1>1, <1>2, <1>7, <2>1, <2>2, <2>3, <2>5, <2>6, CheckStep
<1> QED
  BY <1>3, <1>5, <1>6, <1>7

LEMMA WriteMetadataStep ==
  ASSUME IInv, NEW t \in Threads, WriteMetadata(t)
  PROVE  IInv'
<1>1. /\ t \in Busy /\ pc[t] = "beams" /\ todo[t] = {}
      /\ req[t] \in Requests /\ req[t].id \in Ids /\ req[t].acq \in Acqs
  BY DEF WriteMetadata, Busy, IInv, TypeOK, Requests
<1>2. /\ pc' = [pc EXCEPT ![t] = "grant"]
      /\ UNCHANGED <<mounted, fsVars, files, queued, up, streaming, req, todo,
                     requests, historyVars>>
      /\ meta' = [meta EXCEPT ![req[t].acq] = req[t].id] \/ meta' = meta
  BY DEF WriteMetadata
<1>3. /\ TypeOK' /\ pc'[t] = "grant" /\ todo'[t] = {}
      /\ todo' = [todo EXCEPT ![t] = todo'[t]]
      /\ pc' = [pc EXCEPT ![t] = pc'[t]]
      /\ \A a \in Acqs : meta'[a] = meta[a] \/ meta'[a] = req[t].id
  BY <1>1, <1>2 DEF IInv, TypeOK, fsVars, historyVars
<1>4. MountsOf(t) \subseteq mounted
      /\ \A b \in Checked(req[t]) \ todo[t] :
            /\ <<req[t].acq, b>> \in beamDirs
            /\ req[t].new => b \notin req[t].old
  BY <1>1 DEF IInv, CheckedInv
<1> QED
  BY <1>1, <1>2, <1>3, <1>4, CheckStep DEF fsVars

LEMMA GrantStep ==
  ASSUME IInv, NEW t \in Threads, Grant(t)
  PROVE  IInv'
<1> DEFINE r == req[t]
<1>1. /\ r \in Requests /\ r.who = t /\ t \in Busy /\ pc[t] = "grant"
      /\ granted' = granted \cup {r}
      /\ pc' = [pc EXCEPT ![t] = "idle"] /\ req' = [req EXCEPT ![t] = NoReq]
      /\ UNCHANGED <<mounted, fsVars, files, queued, todo, meta, requests, refused>>
      /\ up' = TRUE
  BY DEF Grant, Busy, IInv, TypeOK
<1>2. /\ Busy' = Busy \ {t}
      /\ \A u \in Busy' : req'[u] = req[u] /\ pc'[u] = pc[u]
                          /\ u \in Busy /\ u # t
  BY <1>1 DEF Busy, IInv, TypeOK
<1>3. /\ r.beams \subseteq Checked(r) /\ MountsOf(t) \subseteq mounted
      /\ \A b \in Checked(r) : <<r.acq, b>> \in beamDirs
                               /\ (r.new => b \notin r.old)
  BY <1>1 DEF IInv, CheckedInv
\* What the streams are told.
<1>4. \A s \in Streams :
        \/ streaming'[s] = streaming[s]
        \/ /\ streaming'[s] \in [id : {r.id}, acq : {r.acq}, beams : SUBSET r.beams]
           /\ s \in mounted
  <2>1. CASE t = Main
    BY <1>1, <1>3, <2>1 DEF Grant, MountsOf
  <2>2. CASE t # Main
    <3>1. t \in Streams /\ t \in mounted
      BY <1>3, <2>2 DEF Threads, MountsOf
    <3>2. streaming' = [streaming EXCEPT ![t] =
                          [id |-> r.id, acq |-> r.acq, beams |-> r.beams]]
      BY <2>2 DEF Grant
    <3> QED
      BY <3>1, <3>2 DEF IInv, TypeOK
  <2> QED
    BY <2>1, <2>2
<1>5. TypeOK'
  <2>1. r.id \in Ids /\ r.acq \in Acqs /\ r.beams \in SUBSET Beams
    BY <1>1 DEF Requests
  <2>2. \A s \in Streams : streaming'[s] \in
          {Off} \cup [id : Ids, acq : Acqs, beams : SUBSET Beams]
    BY <1>4, <2>1 DEF IInv, TypeOK
  <2>3. DOMAIN streaming' = Streams
        /\ streaming' = [s \in Streams |-> streaming'[s]]
    BY DEF Grant, IInv, TypeOK
  <2> QED
    BY <1>1, <2>2, <2>3 DEF IInv, TypeOK, fsVars
<1>6. IdInv'
  BY <1>1, <1>2 DEF IInv, IdInv
<1>7. CarryInv'
  <2>1. \A i : Settled(i) => Settled(i)'
    BY <1>1, <1>2 DEF Settled
  <2>2. \A i : i = r.id => Settled(i)'
    BY <1>1, <1>2 DEF Settled, IInv, IdInv, TypeOK
  <2>3. (\A s \in Streams : streaming[s] # Off => Settled(streaming[s].id))'
    BY <1>4, <2>1, <2>2 DEF IInv, CarryInv
  <2> QED
    BY <1>1, <1>2, <2>1, <2>3 DEF CarryInv, IInv, IdInv
<1>8. CheckedInv'
  BY <1>1, <1>2 DEF CheckedInv, IInv, fsVars, Checked, MountsOf, Nonempty
<1>9. NothingOverwritten'
  BY <1>1, <1>3 DEF IInv, NothingOverwritten, Checked
<1>10. ChunksHavePlace'
  <2>1. \A s \in Streams : streaming'[s] # Off =>
          /\ s \in mounted
          /\ \A b \in streaming'[s].beams : <<streaming'[s].acq, b>> \in beamDirs
    BY <1>3, <1>4 DEF IInv, ChunksHavePlace
  <2> QED
    BY <1>1, <2>1 DEF IInv, ChunksHavePlace, fsVars
<1>11. RefusedForCause'
  BY <1>1 DEF IInv, RefusedForCause, Checked
<1> QED
  BY <1>5, <1>6, <1>7, <1>8, <1>9, <1>10, <1>11 DEF IInv

LEMMA CrashStep ==
  ASSUME IInv, Crash
  PROVE  IInv'
<1>1. /\ \A t \in Threads : pc'[t] = "idle"
      /\ queued' = {} /\ \A s \in Streams : streaming'[s] = Off
      /\ UNCHANGED <<mounted, fsVars, files, meta, requests, historyVars>>
  BY DEF Crash
<1>2. Busy' = {} /\ (queued \cup files)' \subseteq queued \cup files
  BY <1>1 DEF Busy
<1>3. TypeOK'
  BY DEF Crash, IInv, TypeOK, fsVars, historyVars
<1>4. IdInv' /\ CheckedInv'
  BY <1>1, <1>2 DEF IInv, IdInv, CheckedInv, historyVars
<1>5. CarryInv'
  <2>1. \A i : Settled(i) => Settled(i)'
    BY <1>1, <1>2 DEF Settled, historyVars
  <2> QED
    BY <1>1, <1>2, <2>1 DEF IInv, CarryInv, historyVars
<1>6. (NothingOverwritten /\ ChunksHavePlace /\ RefusedForCause)'
  BY <1>1 DEF IInv, NothingOverwritten, ChunksHavePlace, RefusedForCause, fsVars,
              historyVars, Checked
<1> QED
  BY <1>3, <1>4, <1>5, <1>6 DEF IInv

\* Steps that leave the threads alone: chunks, switching off, a plain start.
LEMMA OtherStep ==
  ASSUME IInv, TypeOK',
         files \subseteq files', files' \subseteq files \cup queued,
         \A k \in queued' \ queued : \E s \in Streams :
             /\ streaming[s] # Off /\ k.id = streaming[s].id
             /\ k.acq = streaming[s].acq /\ k.beam \in streaming[s].beams,
         \A s \in Streams : streaming'[s] = Off \/ streaming'[s] = streaming[s],
         UNCHANGED <<mounted, fsVars, threadVars, meta, requests, historyVars>>
  PROVE  IInv'
<1>1. Busy' = Busy
  BY DEF Busy, threadVars
<1>2. IdInv'
  BY <1>1 DEF IInv, IdInv, threadVars, historyVars
<1>3. CarryInv'
  <2>1. \A i : Settled(i) => Settled(i)'
    BY <1>1 DEF Settled, threadVars, historyVars
  <2>2. (\A k \in queued \cup files : Settled(k.id))'
    BY <2>1 DEF IInv, CarryInv
  <2>3. (\A s \in Streams : streaming[s] # Off => Settled(streaming[s].id))'
    BY <2>1 DEF IInv, CarryInv
  <2> QED
    BY <1>1, <2>2, <2>3 DEF IInv, CarryInv, threadVars, historyVars
<1>4. CheckedInv'
  <2>1. \A a : Nonempty(a) \subseteq Nonempty(a)'
    BY DEF Nonempty
  <2> QED
    BY <1>1, <2>1 DEF IInv, CheckedInv, fsVars, threadVars, Checked, MountsOf
<1>5. ChunksHavePlace'
  BY DEF IInv, ChunksHavePlace, fsVars
<1>6. (NothingOverwritten /\ RefusedForCause)'
  BY DEF IInv, NothingOverwritten, RefusedForCause, historyVars, Checked
<1> QED
  BY <1>2, <1>3, <1>4, <1>5, <1>6 DEF IInv

LEMMA NextStep ==
  ASSUME IInv, [Next]_vars
  PROVE  IInv'
<1>1. ASSUME NEW s \in Streams, Stream(s) PROVE IInv'
  <2>1. PICK a \in Acqs, B \in BeamLists, new \in BOOLEAN :
          Begin(s, a, IF B = {} THEN BeamsOf[s] ELSE B \cap BeamsOf[s], new)
    BY <1>1 DEF Stream
  <2>2. (IF B = {} THEN BeamsOf[s] ELSE B \cap BeamsOf[s]) \in SUBSET BeamsOf[s]
        /\ BeamsOf[s] \in SUBSET Beams
    BY AcquisitionAssumption
  <2> DEFINE C == IF B = {} THEN BeamsOf[s] ELSE B \cap BeamsOf[s]
  <2>3. C \in SUBSET Beams /\ C \subseteq BeamsOf[s] /\ Begin(s, a, C, new)
    BY <2>1, <2>2
  <2> HIDE DEF C
  <2> QED
    BY <2>3, ThreadFacts, BeginStep
<1>2. ASSUME StartConfigured PROVE IInv'
  <2>1. PICK a \in Acqs, B \in BeamLists \ {{}} : Begin(Main, a, B, TRUE)
    BY <1>2 DEF StartConfigured
  <2> QED
    BY <2>1, AcquisitionAssumption, ThreadFacts, BeginStep
<1>3. ASSUME NEW s \in Streams, StreamOff(s) PROVE IInv'
  <2>1. TypeOK' /\ \A t \in Streams : streaming'[t] = Off \/ streaming'[t] = streaming[t]
    BY <1>3 DEF IInv, TypeOK, StreamOff, fsVars, threadVars, historyVars
  <2> QED
    BY <1>3, <2>1, OtherStep DEF StreamOff
<1>4. ASSUME StartPlain PROVE IInv'
  <2>1. TypeOK'
    BY <1>4 DEF IInv, TypeOK, StartPlain, fsVars, threadVars, historyVars
  <2> QED
    BY <1>4, <2>1, OtherStep DEF StartPlain
<1>5. ASSUME NEW s \in Streams, QueueChunk(s) PROVE IInv'
  <2>1. PICK b \in streaming[s].beams :
          queued' = queued \cup
            {[acq |-> streaming[s].acq, beam |-> b, id |-> streaming[s].id]}
    BY <1>5 DEF QueueChunk
  <2>2. [acq |-> streaming[s].acq, beam |-> b, id |-> streaming[s].id] \in Chunks
    BY <1>5, <2>1 DEF IInv, TypeOK, QueueChunk, Chunks
  <2>3. TypeOK'
    BY <1>5, <2>1, <2>2
       DEF IInv, TypeOK, QueueChunk, fsVars, threadVars, historyVars
  <2> QED
    BY <1>5, <2>1, <2>3, OtherStep DEF QueueChunk
<1>6. ASSUME NEW k \in Chunks, WriteChunk(k) PROVE IInv'
  <2>1. TypeOK'
    BY <1>6 DEF IInv, TypeOK, WriteChunk, fsVars, threadVars, historyVars
  <2> QED
    BY <1>6, <2>1, OtherStep DEF WriteChunk
<1>7. ASSUME NEW t \in Threads, Thread(t) PROVE IInv'
  BY <1>7, CheckBaseStep, MakeAcqDirStep, CheckBeamStep, WriteMetadataStep,
     GrantStep DEF Thread
<1>8. CASE UNCHANGED vars
  <2>1. TypeOK'
    BY <1>8 DEF IInv, TypeOK, vars, fsVars, threadVars, historyVars
  <2> QED
    BY <1>8, <2>1, OtherStep DEF vars
<1> QED
  BY <1>1, <1>2, <1>3, <1>4, <1>5, <1>6, <1>7, <1>8, CrashStep DEF Next

\* The invariant holds throughout: ids are never confused, and what a thread has
\* found out about the directories stays true while it goes on.
THEOREM Safety == Spec => []IInv
<1>1. Init => IInv
  BY InitInv
<1>2. IInv /\ [Next]_vars => IInv'
  BY NextStep
<1> QED
  BY <1>1, <1>2, PTL DEF Spec

\* Every variable has its type.
THEOREM TypeCorrect == Spec => []TypeOK
<1>1. IInv => TypeOK
  BY DEF IInv
<1> QED
  BY <1>1, Safety, PTL

\* check_acqdir() protects what it is meant to protect: no beam of a server that
\* is granted a new acquisition had files under its name.
THEOREM NoAcquisitionOverwritten == Spec => []NothingOverwritten
<1>1. IInv => NothingOverwritten
  BY DEF IInv
<1> QED
  BY <1>1, Safety, PTL

\* Streaming begins only when all directories are there: no chunk is without one.
THEOREM EveryChunkHasPlace == Spec => []ChunksHavePlace
<1>1. IInv => ChunksHavePlace
  BY DEF IInv
<1> QED
  BY <1>1, Safety, PTL

\* A request that fails half way leaves only directories behind.
THEOREM RefusalsAreClean == Spec => []RefusedLeavesNothing
<1>1. IInv => RefusedLeavesNothing
  <2> SUFFICES ASSUME IInv, NEW x \in refused
               PROVE  /\ \A g \in granted : g.id # x[1].id
                      /\ \A s \in Streams : streaming[s].id # x[1].id
                      /\ \A k \in queued \cup files : k.id # x[1].id
                      /\ \A a \in Acqs : meta[a] # x[1].id
    BY DEF RefusedLeavesNothing
  <2>1. x[1].id \in Nat \ {0}
    BY DEF IInv, IdInv, TypeOK
  <2>2. \A s \in Streams : streaming[s].id # x[1].id
    BY <2>1 DEF IInv, CarryInv, Settled, Off
  <2> QED
    BY <2>1, <2>2 DEF IInv, CarryInv, Settled
<1> QED
  BY <1>1, Safety, PTL

\* What failed attempts leave does not make the next one fail.
THEOREM RefusalsHaveCause == Spec => []RefusedForCause
<1>1. IInv => RefusedForCause
  BY DEF IInv
<1> QED
  BY <1>1, Safety, PTL
=============================================================================
