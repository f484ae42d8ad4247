----------------------------- MODULE Inventory -----------------------------
(***************************************************************************)
(* ch-frb-make-acq-inventory: a script, started by hand or by cron, that   *)
(* lists the chunk files of an acquisition which L1 may still be writing,  *)
(* divides each beam into parts, and replaces the directory that describes *)
(* them, keeping the previous one as a backup.                             *)
(*                                                                         *)
(* The files of a beam are numbered by their place in its directory, from  *)
(* 0, and a part is a range of them, from .. to - 1.  Which chunk of the   *)
(* acquisition its first file holds differs from beam to beam, and nothing *)
(* here compares the parts of one beam with those of another.  Files are   *)
(* only added, and at the end.  The parts of the other acquisitions of the *)
(* archiver are found in the same way.                                     *)
(***************************************************************************)
EXTENDS Integers, FiniteSets

CONSTANTS
    Beams,
    Per,        \* nchunks_per_part
    Overlap,    \* nchunks_overlap
    MaxFiles,   \* bound: files of a beam
    MaxRuns     \* bound: how often the script is run

ASSUME InventoryAssumption ==
    /\ Per \in Nat /\ Overlap \in Nat
    /\ Per > Overlap
    /\ MaxFiles \in Nat
    /\ MaxRuns \in Nat

VARIABLES
    nfiles,     \* beam -> chunk files there are
    fresh,      \* beams whose last file has changed in the last 60 seconds
    pc,         \* where the script is
    run,        \* its number
    todo,       \* beams it has still to list, or parts of which it has to write
    seen,       \* beam -> files it has listed
    inProgress, \* beams it has found to be in progress
    output,     \* acq_json, or None
    backups,    \* the acq_json_deleteme_* directories
    backedUp,   \* backup_flag and backup_json_dir: what it has renamed, or None
    completed   \* history: some run has written all of its output

diskVars   == <<nfiles, fresh>>
procVars   == <<pc, run, todo, seen, inProgress, backedUp>>
outputVars == <<output, backups, completed>>

vars == <<diskVars, procVars, outputVars>>

None == [run |-> 0]

-----------------------------------------------------------------------------
(* beamdir.write_json_files(): the parts of a beam of n files.             *)

MaxOf(a, b) == IF a >= b THEN a ELSE b

\* (mutant) rounding also while files are coming in
NumPartsRounded(n, growing) == MaxOf((2 * n + Per) \div (2 * Per), 1)

\* n / per rounded down while files are coming in, to the nearest integer later.
NumParts(n, growing) ==
    IF growing THEN n \div Per ELSE MaxOf((2 * n + Per) \div (2 * Per), 1)

Part(i, n, growing) ==
    [part |-> i,
     from |-> IF i > 0 THEN i * Per - Overlap ELSE 0,
     to   |-> IF i = NumParts(n, growing) - 1 /\ ~growing THEN n ELSE (i + 1) * Per]

Parts(n, growing) == {Part(i, n, growing) : i \in 0 .. NumParts(n, growing) - 1}

-----------------------------------------------------------------------------

Init ==
    /\ nfiles = [b \in Beams |-> 0]
    /\ fresh = {}
    /\ pc = "off" /\ run = 0
    /\ todo = {} /\ seen = [b \in Beams |-> 0] /\ inProgress = {}
    /\ backedUp = None
    /\ output = None /\ backups = {} /\ completed = FALSE

\* L1 writes the next chunk of a beam; a minute passes without one.  (What
\* comes after the last of MaxRuns runs is seen by nobody.)
WriteFile(b) ==
    /\ nfiles[b] < MaxFiles
    /\ run < MaxRuns \/ pc # "off"
    /\ nfiles' = [nfiles EXCEPT ![b] = @ + 1]
    /\ fresh' = fresh \cup {b}
    /\ UNCHANGED <<procVars, outputVars>>

Age(b) ==
    /\ b \in fresh
    /\ fresh' = fresh \ {b}
    /\ UNCHANGED <<nfiles, procVars, outputVars>>

Start ==
    /\ pc = "off"
    /\ run < MaxRuns
    /\ run' = run + 1
    /\ pc' = "list"
    /\ todo' = Beams
    /\ UNCHANGED <<diskVars, seen, inProgress, backedUp, outputVars>>

\* The process ends, and what it knew is gone.
Exit ==
    /\ pc' = "off"
    /\ todo' = {} /\ seen' = [b \in Beams |-> 0] /\ inProgress' = {}
    /\ backedUp' = None
    /\ UNCHANGED run

\* beamdir.__init__()
ListBeam(b) ==
    /\ pc = "list"
    /\ b \in todo
    /\ todo' = todo \ {b}
    /\ seen' = [seen EXCEPT ![b] = nfiles[b]]
    /\ inProgress' = IF b \in fresh THEN inProgress \cup {b} ELSE inProgress
    /\ UNCHANGED <<diskVars, pc, run, backedUp, outputVars>>

\* (mutant) a beam in progress says nothing of the others
GrowingAlone(b) == b \in inProgress

\* acqdir.__init__() sets the flag of every beam: if one is in progress they all are.
Growing(b) == inProgress # {}

\* acqdir.is_nonempty()
IsNonempty ==
    \E b \in Beams : seen[b] > 0 /\ (Growing(b) => seen[b] >= Per)

\* The previous output goes out of the way, under a name of its own.
BackUp ==
    /\ pc = "list"
    /\ todo = {}
    /\ IsNonempty
    /\ pc' = "write"
    /\ todo' = {b \in Beams : seen[b] > 0 /\ Parts(seen[b], Growing(b)) # {}}
    /\ backups' = (backups \cup {output}) \ {None}
    /\ backedUp' = output
    /\ output' = None
    /\ UNCHANGED <<diskVars, run, seen, inProgress, completed>>

NothingToIndex ==
    /\ pc = "list"
    /\ todo = {}
    /\ ~IsNonempty
    /\ Exit
    /\ UNCHANGED <<diskVars, outputVars>>

\* (mutant) -D deletes the backup as soon as there is a new directory
MakeOutputDeletes ==
    /\ pc = "write"
    /\ output = None
    /\ output' = [run |-> run, growing |-> inProgress # {}, files |-> seen,
                  parts |-> [b \in Beams |-> {}], complete |-> FALSE]
    /\ backups' \in {backups, backups \ {backedUp}}
    /\ UNCHANGED <<diskVars, procVars, completed>>

\* acqdir.write_json_files() creates the output directory.
MakeOutput ==
    /\ pc = "write"
    /\ output = None
    /\ output' = [run |-> run, growing |-> inProgress # {}, files |-> seen,
                  parts |-> [b \in Beams |-> {}], complete |-> FALSE]
    /\ UNCHANGED <<diskVars, procVars, backups, completed>>

\* It goes through the beams, and for each through the parts: one file each.
WritePart(b) ==
    /\ pc = "write"
    /\ output # None
    /\ b \in todo
    /\ \A c \in todo \ {b} : output.parts[c] = {}
    /\ LET left == Parts(seen[b], Growing(b)) \ output.parts[b]
       IN  \E p \in left :
             /\ \A q \in left : p.part <= q.part
             /\ output' = [output EXCEPT !.parts[b] = @ \cup {p}]
             /\ todo' = IF left = {p} THEN todo \ {b} ELSE todo
    /\ UNCHANGED <<diskVars, pc, run, seen, inProgress, backedUp, backups, completed>>

\* The run lists are written.
Finish ==
    /\ pc = "write"
    /\ output # None
    /\ todo = {}
    /\ output' = [output EXCEPT !.complete = TRUE]
    /\ completed' = TRUE
    /\ pc' = "clean"
    /\ UNCHANGED <<diskVars, run, todo, seen, inProgress, backedUp, backups>>

\* What delete_json_dir() can leave of directory d when it is interrupted: it
\* removes one file after the other, in no particular order.
Remains(d) ==
    LET all == UNION {d.parts[b] : b \in Beams}
    IN  {[d EXCEPT !.complete = FALSE, !.parts = left] :
            left \in {f \in [Beams -> SUBSET all] : \A b \in Beams : f[b] \subseteq d.parts[b]}}

\* The script ends; with -D it deletes the backup it has made, if it gets that far.
Clean ==
    /\ pc = "clean"
    /\ \/ UNCHANGED backups
       \/ /\ backedUp # None
          /\ \/ backups' = backups \ {backedUp}
             \/ \E d \in Remains(backedUp) : backups' = (backups \ {backedUp}) \cup {d}
    /\ Exit
    /\ UNCHANGED <<diskVars, output, completed>>

\* A directory that cannot be listed, or whose files have gaps.
ListFails ==
    /\ pc = "list"
    /\ Exit
    /\ UNCHANGED <<diskVars, outputVars>>

\* An exception while writing: the backup is renamed to the output directory,
\* which works only if there is none.
WriteFails ==
    /\ pc = "write"
    /\ pc' = "failed"
    /\ IF backedUp # None /\ output = None
       THEN output' = backedUp /\ backups' = backups \ {backedUp}
       ELSE UNCHANGED <<output, backups>>
    /\ UNCHANGED <<diskVars, run, todo, seen, inProgress, backedUp, completed>>

\* The script ends after an exception; or it has been killed.
Killed ==
    /\ pc \in {"write", "failed"}
    /\ Exit
    /\ UNCHANGED <<diskVars, outputVars>>

Next ==
    \/ \E b \in Beams : WriteFile(b) \/ Age(b) \/ ListBeam(b) \/ WritePart(b)
    \/ Start \/ BackUp \/ NothingToIndex \/ MakeOutput \/ Finish \/ Clean
    \/ ListFails \/ WriteFails \/ Killed

Spec == Init /\ [][Next]_vars

-----------------------------------------------------------------------------
(* Properties.                                                             *)

Ranges == [part : Nat, from : Nat, to : Nat]

Inventories ==
    [run : 1 .. MaxRuns, growing : BOOLEAN, files : [Beams -> 0 .. MaxFiles],
     parts : [Beams -> SUBSET Ranges], complete : BOOLEAN]

TypeOK ==
    /\ nfiles \in [Beams -> 0 .. MaxFiles]
    /\ fresh \subseteq Beams
    /\ pc \in {"off", "list", "write", "clean", "failed"}
    /\ run \in 0 .. MaxRuns
    /\ todo \subseteq Beams
    /\ seen \in [Beams -> 0 .. MaxFiles]
    /\ inProgress \subseteq Beams
    /\ output \in Inventories \cup {None}
    /\ backups \subseteq Inventories
    /\ backedUp \in Inventories \cup {None}
    /\ completed \in BOOLEAN

Dirs == (backups \cup {output}) \ {None}

\* The parts in a complete inventory are what the data analysis expects: each
\* begins Overlap files before the end of the one before it, and all files are
\* in one, but for less than a part of a growing acquisition.  Those in an
\* inventory that was interrupted may be some of them.  In either, a part has
\* files, all of which exist.
PartsTile ==
    \A d \in Dirs : \A b \in Beams :
        /\ \A p \in d.parts[b] : 0 <= p.from /\ p.from < p.to /\ p.to <= nfiles[b]
        /\ d.complete =>
              /\ \A p \in d.parts[b] :
                    IF p.part = 0 THEN p.from = 0
                    ELSE \E q \in d.parts[b] :
                            q.part = p.part - 1 /\ q.to = p.from + Overlap
              /\ \/ d.files[b] < IF d.growing THEN Per ELSE 1
                 \/ \E p \in d.parts[b] :
                       d.files[b] - p.to < IF d.growing THEN Per ELSE 1

\* What has been indexed of a growing acquisition stays so: a later inventory
\* has the part, begins it with the same file, and ends it no earlier.
IndexedStaysIndexed ==
    \A d, e \in Dirs : d.growing /\ d.run < e.run /\ e.complete =>
        \A b \in Beams : \A p \in d.parts[b] : \E q \in e.parts[b] :
            q.part = p.part /\ q.from = p.from /\ q.to >= p.to

\* Once a run has been completed, and wherever later ones fail or are killed,
\* some complete inventory is there, as the output or as a backup.
CompleteOneKept == completed => \E d \in Dirs : d.complete

-----------------------------------------------------------------------------
(* What the script says and does not do.                                   *)

\* Line 419: "Restoring backup".  os.rename() does not replace a directory that
\* has something in it, and write_json_files() begins by creating one.
BackupRestored == pc = "failed" /\ backedUp # None => output = backedUp
=============================================================================
