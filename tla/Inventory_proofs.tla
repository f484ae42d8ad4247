-------------------------- MODULE Inventory_proofs --------------------------
(***************************************************************************)
(* Proofs about Inventory: for any number of beams, files and runs, and    *)
(* any lengths of parts and overlaps.                                      *)
(***************************************************************************)
EXTENDS Inventory, TLAPS

\* The parts of beam b that directory d describes are those of the files
\* listed; or some of them, where the script was interrupted.
Written(d, b) == d.files[b] > 0 /\ d.parts[b] = Parts(d.files[b], d.growing)

Partial(d, b) ==
    /\ d.parts[b] \subseteq Parts(d.files[b], d.growing)
    /\ d.parts[b] # {} => d.files[b] > 0

DirOK(d) ==
    /\ d \in Inventories
    /\ d.run <= run
    /\ \A b \in Beams :
          /\ d.files[b] <= nfiles[b]
          /\ Partial(d, b)
          /\ d.complete => d.files[b] = 0 \/ Written(d, b)

DirsOK == \A d \in Dirs : DirOK(d)

\* A later run has seen at least as many files.
FilesGrow ==
    \A d, e \in Dirs : d.run < e.run => \A b \in Beams : d.files[b] <= e.files[b]

Listing ==
    pc = "list" =>
        /\ backedUp = None
        /\ \A d \in Dirs : d.run < run /\ \A b \in Beams \ todo : d.files[b] <= seen[b]

Writing ==
    pc = "write" =>
        /\ \A b \in todo : seen[b] > 0
        /\ \A d \in backups : d.run < run /\ \A b \in Beams : d.files[b] <= seen[b]
        /\ output # None =>
              /\ output.run = run /\ output.files = seen /\ ~output.complete
              /\ output.growing = (inProgress # {})
              /\ \A b \in Beams \ todo : seen[b] = 0 \/ Written(output, b)
        /\ output = None =>
              \A b \in Beams \ todo : seen[b] = 0 \/ Parts(seen[b], inProgress # {}) = {}

Process ==
    /\ pc # "off" => run >= 1
    /\ pc = "off" => backedUp = None
    /\ \A b \in Beams : seen[b] <= nfiles[b]
    /\ pc \in {"write", "clean"} /\ backedUp # None => backedUp \in backups
    /\ pc = "clean" => output # None /\ output.complete

IInv ==
    /\ TypeOK
    /\ DirsOK
    /\ FilesGrow
    /\ Listing
    /\ Writing
    /\ Process
    /\ CompleteOneKept

-----------------------------------------------------------------------------
(* The arithmetic of the parts.                                            *)

LEMMA Division ==
    ASSUME NEW n \in Nat, NEW d \in Nat, d > 0
    PROVE  /\ n \div d \in Nat
           /\ (n \div d) * d <= n
           /\ n < (n \div d) * d + d
  BY SMT

\* (i + 1) * Per is a product that the solver has to be told about.
LEMMA Products ==
    ASSUME NEW i \in Nat, NEW j \in Nat, i < j
    PROVE  /\ i * Per \in Nat
           /\ (i + 1) * Per = i * Per + Per
           /\ i * Per + Per <= j * Per
  BY InventoryAssumption, SMT

LEMMA PerPositive == Per \in Nat /\ Per > 0 /\ Overlap \in Nat /\ Overlap < Per
  BY InventoryAssumption, SMT

LEMMA ProductNat == ASSUME NEW i \in Nat PROVE i * Per \in Nat
  BY PerPositive, SMT

\* Half a part may be missing from the last part of a finished beam.
LEMMA NumPartsBounds ==
    ASSUME NEW n \in Nat, NEW g \in BOOLEAN
    PROVE  /\ NumParts(n, g) \in Nat
           /\ g => NumParts(n, g) * Per <= n /\ n < NumParts(n, g) * Per + Per
           /\ ~g => /\ NumParts(n, g) >= 1
                    /\ NumParts(n, g) > 1 => 2 * (NumParts(n, g) * Per) <= 2 * n + Per
                    /\ 2 * n < 2 * (NumParts(n, g) * Per) + Per
  <1> DEFINE r == (2 * n + Per) \div (2 * Per)
  <1>1. CASE g
    <2>1. NumParts(n, g) = n \div Per
      BY <1>1 DEF NumParts
    <2> QED
      BY <1>1, <2>1, Division, PerPositive
  <1>2. CASE ~g
    <2>1. /\ r \in Nat
          /\ r * (2 * Per) <= 2 * n + Per
          /\ 2 * n + Per < r * (2 * Per) + 2 * Per
      BY PerPositive, SMT
    <2>2. r * (2 * Per) = 2 * (r * Per) /\ 1 * Per = Per
      BY <2>1, PerPositive, SMT
    <2>3. NumParts(n, g) = IF r >= 1 THEN r ELSE 1
      BY <1>2 DEF NumParts, MaxOf
    <2> HIDE DEF r
    <2>4. CASE r >= 1
      BY <1>2, <2>1, <2>2, <2>3, <2>4, PerPositive
    <2>5. CASE r = 0
      <3>1. 0 * Per = 0
        BY PerPositive, SMT
      <3> QED
        BY <1>2, <2>1, <2>2, <2>3, <2>5, <3>1, PerPositive
    <2> QED
      BY <2>1, <2>4, <2>5
  <1> QED
    BY <1>1, <1>2

\* Every part has files, all of which exist; parts follow each other with the
\* overlap, and the last part of a finished beam ends with its last file.
LEMMA PartBounds ==
    ASSUME NEW n \in Nat, NEW g \in BOOLEAN, n > 0,
           NEW i \in 0 .. NumParts(n, g) - 1
    PROVE  LET p == Part(i, n, g) IN
           /\ p \in Ranges
           /\ p.part = i /\ p.from < p.to /\ p.to <= n
           /\ i = 0 => p.from = 0
           /\ i > 0 => p.from = i * Per - Overlap
           /\ g \/ i < NumParts(n, g) - 1 => p.to = (i + 1) * Per
           /\ ~g /\ i = NumParts(n, g) - 1 => p.to = n
  <1> DEFINE N == NumParts(n, g)
  <1>1. N \in Nat /\ i \in Nat /\ i < N
    BY NumPartsBounds
  <1>2. /\ i * Per \in Nat
        /\ (i + 1) * Per = i * Per + Per
        /\ i * Per + Per <= N * Per
    BY <1>1, Products
  <1>3. N * Per \in Nat
    BY <1>1, PerPositive, SMT
  <1>4. i > 0 => i * Per >= Per
    <2>1. ASSUME i > 0 PROVE i * Per >= Per
      <3>1. 0 * Per + Per <= i * Per
        BY <1>1, <2>1, Products
      <3>2. 0 * Per = 0
        BY PerPositive, SMT
      <3> QED
        BY <3>1, <3>2, PerPositive
    <2> QED
      BY <2>1
  <1> DEFINE from == IF i > 0 THEN i * Per - Overlap ELSE 0
             a == i * Per
             c == N * Per
             to == (i + 1) * Per
  <1>5. /\ from \in Nat /\ from <= a
        /\ i = 0 => from = 0
        /\ i > 0 => from = a - Overlap
    <2>1. i > 0 => a - Overlap \in Nat /\ a - Overlap <= a
      <3> HIDE DEF a
      <3>1. a \in Nat /\ (i > 0 => a >= Per)
        BY <1>2, <1>4 DEF a
      <3> QED
        BY <3>1, PerPositive
    <2> QED
      BY <1>1, <1>2, <2>1
  <1>6. CASE g \/ i < N - 1
    <2>1. Part(i, n, g) = [part |-> i, from |-> from, to |-> to]
      BY <1>1, <1>6 DEF Part
    <2>2. to \in Nat /\ a < to
      <3>1. to = a + Per /\ a \in Nat
        BY <1>2
      <3> HIDE DEF a, to
      <3> QED
        BY <3>1, PerPositive
    <2>3. to <= n
      <3>1. CASE g
        <4>1. c <= n /\ to <= c /\ c \in Nat
          BY <1>2, <1>3, <3>1, NumPartsBounds
        <4> HIDE DEF c, to
        <4> QED
          BY <2>2, <4>1
      <3>2. CASE ~g
        <4>1. N > 1 /\ i + 1 < N /\ i + 1 \in Nat
          BY <1>1, <1>6, <3>2
        <4>2. 2 * c <= 2 * n + Per /\ to + Per <= c /\ c \in Nat
          BY <1>1, <1>3, <3>2, <4>1, NumPartsBounds, Products
        <4> HIDE DEF c, to
        <4> QED
          BY <2>2, <4>2, PerPositive
      <3> QED
        BY <3>1, <3>2
    <2>4. g \/ i < N - 1 => Part(i, n, g).to = to
      BY <2>1
    <2>5. ~(~g /\ i = N - 1)
      BY <1>1, <1>6
    <2>6. /\ from < to
          /\ i > 0 => from = i * Per - Overlap
      <3>1. a \in Nat
        BY <1>2
      <3> HIDE DEF a, to, from
      <3>2. from < to
        BY <1>5, <2>2, <3>1
      <3>3. i > 0 => from = i * Per - Overlap
        BY <1>5 DEF a
      <3> QED
        BY <3>2, <3>3
    <2> HIDE DEF a, to, from
    <2> QED
      BY <1>1, <1>5, <2>1, <2>2, <2>3, <2>4, <2>5, <2>6 DEF Ranges, to
  <1>7. CASE ~g /\ i = N - 1
    <2>1. Part(i, n, g) = [part |-> i, from |-> from, to |-> n]
      BY <1>7 DEF Part
    <2>2. a < n
      <3>1. CASE i = 0
        <4>1. 0 * Per = 0
          BY PerPositive, SMT
        <4> QED
          BY <3>1, <4>1
      <3>2. CASE i # 0
        <4>1. N > 1
          BY <1>1, <1>7, <3>2
        <4>2. i + 1 = N
          BY <1>1, <1>7
        <4>3. 2 * c <= 2 * n + Per /\ a + Per = c /\ a \in Nat /\ c \in Nat
          BY <1>2, <1>3, <1>7, <4>1, <4>2, NumPartsBounds
        <4> HIDE DEF a, c
        <4> QED
          BY <4>3, PerPositive
      <3> QED
        BY <3>1, <3>2
    <2>3. /\ from < n
          /\ i > 0 => from = i * Per - Overlap
      <3>1. a \in Nat
        BY <1>2
      <3> HIDE DEF a, from
      <3>2. from < n
        BY <1>5, <2>2, <3>1
      <3>3. i > 0 => from = i * Per - Overlap
        BY <1>5 DEF a
      <3> QED
        BY <3>2, <3>3
    <2>4. ~(g \/ i < N - 1)
      BY <1>1, <1>7
    <2> HIDE DEF a, from
    <2> QED
      BY <1>1, <1>5, <2>1, <2>3, <2>4 DEF Ranges
  <1> QED
    BY <1>1, <1>6, <1>7
\* A part whose files were all there is there later, from the same file and at
\* least as far.
LEMMA PartsStay ==
    ASSUME NEW m \in Nat, NEW g \in BOOLEAN, NEW i \in Nat, (i + 1) * Per <= m
    PROVE  /\ i \in 0 .. NumParts(m, g) - 1
           /\ Part(i, m, g).part = i
           /\ Part(i, m, g).from = IF i > 0 THEN i * Per - Overlap ELSE 0
           /\ Part(i, m, g).to >= (i + 1) * Per
  <1> DEFINE M == NumParts(m, g)
             to == (i + 1) * Per
  <1>1. M \in Nat
    BY NumPartsBounds
  <1>2. to \in Nat /\ to <= m
    <2>1. i + 1 \in Nat
      OBVIOUS
    <2> QED
      BY <2>1, ProductNat
  <1>3. i < M
    <2>1. SUFFICES ASSUME M <= i PROVE FALSE
      BY <1>1
    <2>2. M * Per + Per <= to /\ M * Per \in Nat
      <3>1. M < i + 1 /\ i + 1 \in Nat
        BY <1>1, <2>1
      <3> QED
        BY <1>1, <3>1, Products
    <2>3. CASE g
      <3>1. m < M * Per + Per
        BY <2>3, NumPartsBounds
      <3> DEFINE c == M * Per
      <3>2. m < c + Per /\ c + Per <= to /\ c \in Nat
        BY <2>2, <3>1
      <3> HIDE DEF c, to
      <3> QED
        BY <1>2, <3>2, PerPositive
    <2>4. CASE ~g
      <3> DEFINE c == M * Per
      <3>1. 2 * m < 2 * c + Per
        BY <2>4, NumPartsBounds
      <3>2. c + Per <= to /\ c \in Nat
        BY <2>2
      <3> HIDE DEF c, to
      <3> QED
        BY <1>1, <1>2, <3>1, <3>2, PerPositive
    <2> QED
      BY <2>3, <2>4
  <1>4. i \in 0 .. M - 1
    BY <1>1, <1>3
  <1>5. Part(i, m, g).to \in {m, to}
    BY DEF Part
  <1>6. Part(i, m, g).to >= to
    <2> HIDE DEF to
    <2> QED
      BY <1>2, <1>5
  <1>7. /\ Part(i, m, g).part = i
        /\ Part(i, m, g).from = IF i > 0 THEN i * Per - Overlap ELSE 0
    BY DEF Part
  <1> QED
    BY <1>4, <1>6, <1>7

\* The parts of one beam tile it.
LEMMA PartsOfBeam ==
    ASSUME NEW n \in Nat, NEW g \in BOOLEAN, n > 0, NEW p \in Parts(n, g)
    PROVE  /\ p \in Ranges
           /\ p.from < p.to /\ p.to <= n
           /\ p.part = 0 => p.from = 0
           /\ p.part > 0 => \E q \in Parts(n, g) :
                 q.part = p.part - 1 /\ q.to = p.from + Overlap
           /\ g \/ p.to = n \/ \E q \in Parts(n, g) : q.part = p.part + 1
  <1> DEFINE N == NumParts(n, g)
  <1>1. N \in Nat
    BY NumPartsBounds
  <1>2. PICK i \in 0 .. N - 1 : p = Part(i, n, g)
    BY DEF Parts
  <1>3. /\ p \in Ranges
        /\ p.part = i /\ p.from < p.to /\ p.to <= n
        /\ i = 0 => p.from = 0
        /\ i > 0 => p.from = i * Per - Overlap
        /\ ~g /\ i = N - 1 => p.to = n
    BY <1>2, PartBounds
  <1>4. ASSUME i > 0
        PROVE  \E q \in Parts(n, g) : q.part = i - 1 /\ q.to = p.from + Overlap
    <2> DEFINE j == i - 1
               q == Part(j, n, g)
    <2>1. j \in 0 .. N - 1 /\ j < N - 1 /\ j + 1 = i
      BY <1>1, <1>4
    <2>2. q.part = j /\ q.to = (j + 1) * Per
      BY <2>1, PartBounds
    <2>3. (j + 1) * Per = i * Per /\ i * Per \in Nat
      BY <2>1, PerPositive, SMT
    <2>4. q \in Parts(n, g)
      BY <2>1 DEF Parts
    <2>5. q.to = p.from + Overlap
      <3> DEFINE a == i * Per
      <3>1. a \in Nat /\ q.to = a /\ p.from = a - Overlap
        BY <1>3, <1>4, <2>2, <2>3
      <3> HIDE DEF a, q
      <3> QED
        BY <3>1, PerPositive
    <2> QED
      BY <2>2, <2>4, <2>5
  <1>5. ASSUME ~g, i # N - 1
        PROVE  \E q \in Parts(n, g) : q.part = i + 1
    <2>1. i + 1 \in 0 .. N - 1
      BY <1>1, <1>5
    <2>2. Part(i + 1, n, g).part = i + 1 /\ Part(i + 1, n, g) \in Parts(n, g)
      BY <2>1, PartBounds DEF Parts
    <2> QED
      BY <2>2
  <1> QED
    BY <1>3, <1>4, <1>5

\* Where a part begins, and that of a growing beam has its full length.
LEMMA GrowingPart ==
    ASSUME NEW n \in Nat, NEW g \in BOOLEAN, n > 0, NEW p \in Parts(n, g)
    PROVE  \E i \in Nat :
              /\ p.part = i /\ p.from = IF i > 0 THEN i * Per - Overlap ELSE 0
              /\ p.to <= n /\ p.to \in Nat
              /\ g => p.to = (i + 1) * Per
  <1>1. PICK i \in 0 .. NumParts(n, g) - 1 : p = Part(i, n, g)
    BY DEF Parts
  <1>2. i \in Nat
    BY NumPartsBounds
  <1>3. /\ p \in Ranges
        /\ p.part = i /\ p.to <= n
        /\ i = 0 => p.from = 0
        /\ i > 0 => p.from = i * Per - Overlap
    BY <1>1, PartBounds
  <1>4. g => p.to = (i + 1) * Per
    BY <1>1, PartBounds
  <1> QED
    BY <1>2, <1>3, <1>4 DEF Ranges

\* What is in no part is less than a part, and of a finished beam nothing.
LEMMA LittleLeftOut ==
    ASSUME NEW n \in Nat, NEW g \in BOOLEAN, n > 0
    PROVE  \/ n < IF g THEN Per ELSE 1
           \/ \E p \in Parts(n, g) : n - p.to < IF g THEN Per ELSE 1
  <1> DEFINE N == NumParts(n, g)
             p == Part(N - 1, n, g)
  <1>1. N \in Nat
    BY NumPartsBounds
  <1>2. CASE N = 0
    <2> DEFINE c == N * Per
    <2>1. g /\ n < c + Per
      BY <1>2, NumPartsBounds
    <2>2. c = 0
      BY <1>2, PerPositive, SMT
    <2> HIDE DEF c
    <2>3. n < Per
      BY <2>1, <2>2, PerPositive
    <2> QED
      BY <2>1, <2>3
  <1>3. CASE N # 0
    <2>1. N - 1 \in 0 .. N - 1 /\ (N - 1) + 1 = N
      BY <1>1, <1>3
    <2>2. p \in Parts(n, g)
      BY <2>1 DEF Parts
    <2>3. CASE g
      <3> DEFINE c == N * Per
      <3>1. p.to = c
        <4>1. PICK i \in 0 .. N - 1 : i = N - 1 /\ i + 1 = N
          BY <2>1
        <4>2. Part(i, n, g).to = (i + 1) * Per
          BY <2>3, PartBounds
        <4> QED
          BY <4>1, <4>2
      <3>2. c \in Nat /\ n < c + Per
        BY <1>1, <2>3, NumPartsBounds, ProductNat
      <3> HIDE DEF c, p
      <3>3. n - p.to < Per
        BY <3>1, <3>2, PerPositive
      <3> QED
        BY <2>2, <2>3, <3>3
    <2>4. CASE ~g
      <3>1. p.to = n
        BY <2>1, <2>4, PartBounds
      <3>2. n - n < 1
        OBVIOUS
      <3> QED
        BY <2>2, <2>4, <3>1, <3>2
    <2> QED
      BY <2>3, <2>4
  <1> QED
    BY <1>2, <1>3

-----------------------------------------------------------------------------
(* The invariant.                                                          *)

LEMMA NoneIsNoInventory == None \notin Inventories
  BY DEF None, Inventories

\* What is left of directory d, or all of it.
RestOf(e, d) ==
    /\ e \in Inventories
    /\ e.run = d.run /\ e.files = d.files /\ e.growing = d.growing
    /\ e = d \/ (~e.complete /\ \A b \in Beams : e.parts[b] \subseteq d.parts[b])

\* Directories that stay or lose parts, while files come in and the script goes on.
LEMMA DirsStay ==
    ASSUME DirsOK, FilesGrow, TypeOK,
           \A e \in Dirs' : \E d \in Dirs : RestOf(e, d),
           nfiles' \in [Beams -> Nat], \A b \in Beams : nfiles[b] <= nfiles'[b],
           run' \in Nat, run <= run'
    PROVE  DirsOK' /\ FilesGrow'
  <1>1. FilesGrow'
    BY DEF FilesGrow, RestOf
  <1>2. ASSUME NEW e \in Dirs' PROVE DirOK(e)'
    <2> PICK d \in Dirs : RestOf(e, d)
      BY <1>2
    <2>1. DirOK(d) /\ e \in Inventories /\ e.run = d.run /\ e.files = d.files
          /\ e.growing = d.growing
      BY DEF DirsOK, RestOf
    <2>2. d \in Inventories /\ d.run <= run /\ d.run \in Nat
      BY <2>1, InventoryAssumption DEF DirOK, Inventories
    <2>3. e.run <= run'
      BY <2>1, <2>2 DEF TypeOK
    <2>4. ASSUME NEW b \in Beams PROVE e.files[b] <= nfiles'[b]
      <3>1. d.files[b] \in Nat /\ nfiles[b] \in Nat /\ nfiles'[b] \in Nat
        BY <2>2, InventoryAssumption DEF Inventories, TypeOK
      <3>2. d.files[b] <= nfiles[b] /\ nfiles[b] <= nfiles'[b]
        BY <2>1 DEF DirOK
      <3> QED
        BY <2>1, <3>1, <3>2
    <2>5. ASSUME NEW b \in Beams PROVE Partial(e, b)
      <3>1. Partial(d, b) /\ e.parts[b] \subseteq d.parts[b]
        BY <2>1 DEF DirOK, RestOf
      <3> QED
        BY <2>1, <3>1 DEF Partial
    <2>6. ASSUME NEW b \in Beams, e.complete PROVE e.files[b] = 0 \/ Written(e, b)
      <3>1. e = d
        BY <2>6 DEF RestOf
      <3> QED
        BY <2>1, <2>6, <3>1 DEF DirOK
    <2> QED
      BY <2>1, <2>3, <2>4, <2>5, <2>6 DEF DirOK, Partial, Written
  <1> QED
    BY <1>1, <1>2 DEF DirsOK

\* Whatever delete_json_dir() leaves is the rest of the directory.
LEMMA RemainsAreRest ==
    ASSUME NEW d \in Inventories, NEW e \in Remains(d)
    PROVE  RestOf(e, d)
  <1>1. PICK left \in [Beams -> SUBSET UNION {d.parts[b] : b \in Beams}] :
           /\ \A b \in Beams : left[b] \subseteq d.parts[b]
           /\ e = [d EXCEPT !.complete = FALSE, !.parts = left]
    BY DEF Remains
  <1>2. left \in [Beams -> SUBSET Ranges]
    <2>1. \A b \in Beams : d.parts[b] \subseteq Ranges
      BY DEF Inventories
    <2> QED
      BY <1>1, <2>1
  <1> QED
    BY <1>1, <1>2 DEF RestOf, Inventories

\* A part is written: one of those of the beam that are not yet there.
LEMMA WritePartFacts ==
    ASSUME TypeOK, Writing, NEW b \in Beams, WritePart(b)
    PROVE  /\ output \in Inventories /\ output.run = run /\ output.files = seen
           /\ ~output.complete /\ output.growing = (inProgress # {}) /\ seen[b] > 0
           /\ \E p \in Parts(seen[b], output.growing) \cap Ranges :
                 output' = [output EXCEPT !.parts[b] = @ \cup {p}]
           /\ output' \in Inventories
           /\ \/ todo' = todo
              \/ /\ todo' = todo \ {b}
                 /\ Parts(seen[b], output.growing) \subseteq output'.parts[b]
  <1>1. /\ output \in Inventories /\ output.run = run /\ output.files = seen
        /\ ~output.complete /\ output.growing = (inProgress # {}) /\ seen[b] > 0
    BY DEF WritePart, Writing, TypeOK
  <1> DEFINE all == Parts(seen[b], output.growing)
             left == all \ output.parts[b]
  <1>2. Growing(b) = output.growing
    BY <1>1 DEF Growing
  <1>3. PICK p \in left : /\ output' = [output EXCEPT !.parts[b] = @ \cup {p}]
                          /\ todo' = IF left = {p} THEN todo \ {b} ELSE todo
    BY <1>2 DEF WritePart
  <1>4. all \subseteq Ranges
    <2>1. seen[b] \in Nat /\ output.growing \in BOOLEAN
      BY <1>1, InventoryAssumption DEF TypeOK, Inventories
    <2> QED
      BY <1>1, <2>1, PartsOfBeam
  <1>5. output.parts \in [Beams -> SUBSET Ranges]
    BY <1>1 DEF Inventories
  <1> HIDE DEF all
  <1>6. output'.parts[b] = output.parts[b] \cup {p}
    BY <1>1, <1>3, <1>5 DEF Inventories
  <1>7. output' \in Inventories
    <2>1. output.parts[b] \cup {p} \in SUBSET Ranges
      BY <1>4, <1>5
    <2> QED
      BY <1>1, <1>3, <2>1 DEF Inventories
  <1>8. left = {p} => all \subseteq output'.parts[b]
    BY <1>6
  <1> QED
    BY <1>1, <1>3, <1>4, <1>7, <1>8 DEF all

LEMMA InitInv == Init => IInv
  <1> SUFFICES ASSUME Init PROVE IInv
    OBVIOUS
  <1> USE DEF Init
  <1>1. Dirs = {}
    BY DEF Dirs
  <1>2. TypeOK
    <2>1. /\ nfiles \in [Beams -> 0 .. MaxFiles]
          /\ seen \in [Beams -> 0 .. MaxFiles]
      BY InventoryAssumption
    <2>2. /\ fresh = {} /\ todo = {} /\ inProgress = {} /\ backups = {}
          /\ pc = "off" /\ run = 0
          /\ output = None /\ backedUp = None
      OBVIOUS
    <2>3. completed \in BOOLEAN
      OBVIOUS
    <2> HIDE DEF Init
    <2> QED
      BY <2>1, <2>2, <2>3, InventoryAssumption DEF TypeOK
  <1>3. DirsOK /\ FilesGrow
    BY <1>1 DEF DirsOK, FilesGrow
  <1>4. Listing /\ Writing /\ CompleteOneKept
    BY DEF Listing, Writing, CompleteOneKept
  <1>5. Process
    BY DEF Process
  <1> QED
    BY <1>2, <1>3, <1>4, <1>5 DEF IInv

LEMMA TypeNext == ASSUME TypeOK, Writing, Process, [Next]_vars PROVE TypeOK'
  <1> USE InventoryAssumption DEF TypeOK
  <1>1. CASE UNCHANGED vars
    BY <1>1 DEF vars, diskVars, procVars, outputVars
  <1>2. ASSUME NEW b \in Beams, WriteFile(b) PROVE TypeOK'
    <2>1. nfiles[b] + 1 \in 0 .. MaxFiles
      BY <1>2 DEF WriteFile
    <2>2. nfiles' \in [Beams -> 0 .. MaxFiles]
      BY <1>2, <2>1 DEF WriteFile
    <2> QED
      BY <1>2, <2>2 DEF WriteFile, procVars, outputVars
  <1>3. ASSUME NEW b \in Beams, Age(b) PROVE TypeOK'
    BY <1>3 DEF Age, procVars, outputVars
  <1>4. ASSUME NEW b \in Beams, ListBeam(b) PROVE TypeOK'
    BY <1>4 DEF ListBeam, diskVars, outputVars
  <1>5. ASSUME NEW b \in Beams, WritePart(b) PROVE TypeOK'
    <2>1. output' \in Inventories /\ todo' \subseteq todo
      BY <1>5, WritePartFacts
    <2> QED
      BY <1>5, <2>1 DEF WritePart, diskVars
  <1>6. CASE Start
    BY <1>6 DEF Start, diskVars, outputVars
  <1>7. CASE BackUp
    BY <1>7 DEF BackUp, diskVars
  <1>8. ASSUME Exit, UNCHANGED <<diskVars, output, backups, completed>> PROVE TypeOK'
    BY <1>8 DEF Exit, diskVars
  <1>9. CASE NothingToIndex \/ ListFails \/ Killed
    BY <1>8, <1>9 DEF NothingToIndex, ListFails, Killed, outputVars
  <1>10. CASE MakeOutput
    <2>1. run \in 1 .. MaxRuns
      BY <1>10 DEF MakeOutput, Process
    <2>2. [b \in Beams |-> {}] \in [Beams -> SUBSET Ranges]
      OBVIOUS
    <2>3. output' \in Inventories
      BY <1>10, <2>1, <2>2 DEF MakeOutput, Inventories
    <2> QED
      BY <1>10, <2>3 DEF MakeOutput, diskVars, procVars
  <1>11. CASE Finish
    <2>1. output' \in Inventories
      BY <1>11 DEF Finish, Inventories
    <2> QED
      BY <1>11, <2>1 DEF Finish, diskVars
  <1>13. CASE Clean
    <2>1. backups' \subseteq Inventories
      <3>1. ASSUME backedUp # None, NEW d \in Remains(backedUp) PROVE d \in Inventories
        BY <3>1, RemainsAreRest DEF RestOf
      <3> QED
        BY <1>13, <3>1 DEF Clean
    <2> QED
      BY <1>13, <2>1 DEF Clean, Exit, diskVars
  <1>12. CASE WriteFails
    BY <1>12 DEF WriteFails, diskVars
  <1> QED
    BY <1>1, <1>2, <1>3, <1>4, <1>5, <1>6, <1>7, <1>9, <1>10, <1>11, <1>12, <1>13 DEF Next

\* The process and what it has renamed: only BackUp and WriteFails move a
\* directory.
LEMMA ProcessNext ==
    ASSUME TypeOK, Listing, Process, [Next]_vars
    PROVE  Process'
  <1> USE InventoryAssumption DEF TypeOK, Process
  <1>1. CASE UNCHANGED vars
    BY <1>1 DEF vars, diskVars, procVars, outputVars
  <1>2. ASSUME NEW b \in Beams, WriteFile(b) PROVE Process'
    <2>1. \A c \in Beams : seen[c] <= nfiles'[c]
      BY <1>2 DEF WriteFile, procVars
    <2> QED
      BY <1>2, <2>1 DEF WriteFile, procVars, outputVars
  <1>3. ASSUME NEW b \in Beams, Age(b) PROVE Process'
    BY <1>3 DEF Age, procVars, outputVars
  <1>4. ASSUME NEW b \in Beams, ListBeam(b) PROVE Process'
    BY <1>4 DEF ListBeam, diskVars, outputVars
  <1>5. ASSUME NEW b \in Beams, WritePart(b) PROVE Process'
    <2>1. UNCHANGED <<diskVars, pc, run, seen, backedUp, backups>> /\ pc = "write"
      BY <1>5 DEF WritePart
    <2> QED
      BY <2>1 DEF diskVars
  <1>6. CASE Start
    BY <1>6 DEF Start, diskVars, outputVars
  <1>7. CASE BackUp
    BY <1>7 DEF BackUp, diskVars
  <1>8. ASSUME Exit, UNCHANGED diskVars PROVE Process'
    BY <1>8 DEF Exit, diskVars
  <1>9. CASE NothingToIndex \/ ListFails \/ Killed \/ Clean
    BY <1>8, <1>9 DEF NothingToIndex, ListFails, Killed, Clean
  <1>11. CASE Finish
    <2>1. output \in Inventories /\ output' = [output EXCEPT !.complete = TRUE]
      BY <1>11 DEF Finish
    <2>2. output'.complete /\ output' \in Inventories
      BY <2>1 DEF Inventories
    <2>3. output' # None
      BY <2>2, NoneIsNoInventory
    <2> QED
      BY <1>11, <2>2, <2>3 DEF Finish, diskVars
  <1>10. CASE MakeOutput
    BY <1>10 DEF MakeOutput, diskVars, procVars
  <1>12. CASE WriteFails
    BY <1>12 DEF WriteFails, diskVars
  <1> QED
    BY <1>1, <1>2, <1>3, <1>4, <1>5, <1>6, <1>7, <1>9, <1>10, <1>11, <1>12 DEF Next

\* Each step keeps the directories sound, or changes the one it is writing.
LEMMA DirsNext ==
    ASSUME IInv, TypeOK', [Next]_vars
    PROVE  DirsOK' /\ FilesGrow'
  <1> USE InventoryAssumption
  <1>0. /\ TypeOK /\ DirsOK /\ FilesGrow /\ Listing /\ Writing /\ Process
        /\ nfiles \in [Beams -> Nat] /\ nfiles' \in [Beams -> Nat]
        /\ run \in Nat /\ run' \in Nat
    BY DEF IInv, TypeOK
  <1>1. ASSUME Dirs' \subseteq Dirs, nfiles' = nfiles, run' = run \/ run' = run + 1
        PROVE  DirsOK' /\ FilesGrow'
    <2>1. \A b \in Beams : nfiles[b] <= nfiles'[b]
      BY <1>0, <1>1
    <2>2. run <= run'
      BY <1>0, <1>1
    <2>3. \A e \in Dirs' : RestOf(e, e)
      BY <1>0, <1>1 DEF RestOf, DirsOK, DirOK
    <2> QED
      BY <1>0, <1>1, <2>1, <2>2, <2>3, DirsStay
  <1>2. CASE UNCHANGED vars
    BY <1>1, <1>2 DEF vars, diskVars, procVars, outputVars, Dirs
  <1>3. ASSUME NEW b \in Beams, WriteFile(b) PROVE DirsOK' /\ FilesGrow'
    <2>1. Dirs' = Dirs /\ run' = run
      BY <1>3 DEF WriteFile, procVars, outputVars, Dirs
    <2>2. \A c \in Beams : nfiles[c] <= nfiles'[c]
      BY <1>0, <1>3 DEF WriteFile
    <2>3. \A e \in Dirs' : RestOf(e, e)
      BY <1>0, <2>1 DEF RestOf, DirsOK, DirOK
    <2> QED
      BY <1>0, <2>1, <2>2, <2>3, DirsStay
  <1>4. ASSUME NEW b \in Beams, Age(b) PROVE DirsOK' /\ FilesGrow'
    BY <1>1, <1>4 DEF Age, procVars, outputVars, Dirs
  <1>5. ASSUME NEW b \in Beams, ListBeam(b) PROVE DirsOK' /\ FilesGrow'
    BY <1>1, <1>5 DEF ListBeam, diskVars, outputVars, Dirs
  <1>6. CASE Start
    BY <1>1, <1>6 DEF Start, diskVars, outputVars, Dirs
  <1>7. CASE BackUp
    BY <1>1, <1>7 DEF BackUp, diskVars, Dirs
  <1>8. CASE NothingToIndex \/ ListFails \/ Killed
    BY <1>1, <1>8 DEF NothingToIndex, ListFails, Killed, Exit, diskVars, outputVars, Dirs
  <1>9. CASE WriteFails
    <2>1. Dirs' \subseteq Dirs
      BY <1>0, <1>9 DEF WriteFails, Dirs, Process
    <2> QED
      BY <1>1, <1>9, <2>1 DEF WriteFails, diskVars
  \* The directory being written is the youngest, and describes the files listed.
  <1>10. ASSUME pc = "write", nfiles' = nfiles, run' = run,
                backups' \subseteq backups, output' \in Inventories,
                output'.run = run, output'.files = seen,
                \A b \in Beams : Partial(output', b),
                output'.complete => \A b \in Beams : seen[b] = 0 \/ Written(output', b)
         PROVE  DirsOK' /\ FilesGrow'
    <2>1. ASSUME NEW d, d = output' PROVE DirOK(d)'
      BY <1>0, <1>10, <2>1 DEF DirOK, Process, Partial, Written
    <2>2. ASSUME NEW d \in backups PROVE DirOK(d)' /\ d \in Inventories
      <3>1. d \in Inventories /\ d # None
        BY <1>0, NoneIsNoInventory DEF TypeOK
      <3>2. DirOK(d)
        BY <1>0, <3>1 DEF DirsOK, Dirs
      <3> QED
        BY <1>10, <3>1, <3>2 DEF DirOK, Partial, Written
    <2>3. Dirs' \subseteq backups \cup {output'}
      BY <1>10 DEF Dirs
    <2>4. DirsOK'
      BY <2>1, <2>2, <2>3 DEF DirsOK
    <2>5. ASSUME NEW d \in Dirs', NEW e \in Dirs', d.run < e.run
          PROVE  \A b \in Beams : d.files[b] <= e.files[b]
      <3>1. CASE d \in backups /\ e \in backups
        <4>1. d \in Dirs /\ e \in Dirs
          BY <3>1, <2>2, NoneIsNoInventory DEF Dirs
        <4> QED
          BY <1>0, <2>5, <4>1 DEF FilesGrow
      <3>2. CASE d \in backups /\ e = output'
        BY <1>0, <1>10, <3>2 DEF Writing
      <3>3. CASE d = output' /\ e \in backups
        <4>1. e.run < run /\ e.run \in Nat
          <5>1. e \in Inventories
            BY <2>2, <3>3
          <5> QED
            BY <1>0, <1>10, <3>3, <5>1 DEF Writing, Inventories
        <4> QED
          BY <1>0, <1>10, <2>5, <3>3, <4>1
      <3>4. CASE d = output' /\ e = output'
        BY <1>0, <1>10, <2>5, <3>4
      <3> QED
        BY <2>3, <3>1, <3>2, <3>3, <3>4
    <2> QED
      BY <2>4, <2>5 DEF FilesGrow
  <1>11. CASE MakeOutput
    <2>1. output' \in Inventories
      <3>1. run \in 1 .. MaxRuns
        BY <1>0, <1>11 DEF MakeOutput, Process, TypeOK
      <3>2. [b \in Beams |-> {}] \in [Beams -> SUBSET Ranges]
        OBVIOUS
      <3> QED
        BY <1>0, <1>11, <3>1, <3>2 DEF MakeOutput, Inventories, TypeOK
    <2>2. /\ output'.run = run /\ output'.files = seen /\ ~output'.complete
          /\ \A b \in Beams : output'.parts[b] = {}
      BY <1>11 DEF MakeOutput
    <2> QED
      BY <1>10, <1>11, <2>1, <2>2 DEF MakeOutput, diskVars, procVars, Partial
  <1>12. ASSUME NEW b \in Beams, WritePart(b) PROVE DirsOK' /\ FilesGrow'
    <2>1. /\ output \in Inventories /\ output.run = run /\ output.files = seen
          /\ ~output.complete /\ seen[b] > 0 /\ output' \in Inventories
      BY <1>0, <1>12, WritePartFacts
    <2> PICK p \in Parts(seen[b], output.growing) :
           output' = [output EXCEPT !.parts[b] = @ \cup {p}]
      BY <1>0, <1>12, WritePartFacts
    <2>2. /\ output'.run = run /\ output'.files = seen /\ ~output'.complete
          /\ output'.growing = output.growing
      BY <2>1 DEF Inventories
    <2>3. ASSUME NEW c \in Beams PROVE Partial(output', c)
      <3>1. Partial(output, c)
        BY <1>0, <2>1, NoneIsNoInventory DEF DirsOK, Dirs, DirOK
      <3>2. CASE c = b
        <4>1. output'.parts[b] = output.parts[b] \cup {p}
          BY <2>1 DEF Inventories
        <4> QED
          BY <2>1, <2>2, <3>1, <3>2, <4>1 DEF Partial
      <3>3. CASE c # b
        <4>1. output'.parts[c] = output.parts[c]
          BY <2>1, <3>3 DEF Inventories
        <4> QED
          BY <2>1, <2>2, <3>1, <4>1 DEF Partial
      <3> QED
        BY <3>2, <3>3
    <2> QED
      BY <1>10, <1>12, <2>1, <2>2, <2>3 DEF WritePart, diskVars
  <1>13. CASE Finish
    <2>1. /\ output \in Inventories /\ output.run = run /\ output.files = seen
          /\ \A b \in Beams : seen[b] = 0 \/ Written(output, b)
      BY <1>0, <1>13 DEF Finish, Writing, TypeOK
    <2>2. output' = [output EXCEPT !.complete = TRUE] /\ output' \in Inventories
      BY <1>13, <2>1 DEF Finish, Inventories
    <2>3. DirOK(output)
      BY <1>0, <2>1, NoneIsNoInventory DEF DirsOK, Dirs
    <2>4. ASSUME NEW c \in Beams
          PROVE  /\ Partial(output', c)
                 /\ seen[c] = 0 \/ Written(output', c)
      BY <2>1, <2>2, <2>3 DEF Partial, Written, Inventories, DirOK
    <2>5. output'.run = run /\ output'.files = seen
      BY <2>1, <2>2 DEF Inventories
    <2> QED
      BY <1>10, <1>13, <2>2, <2>4, <2>5 DEF Finish, diskVars
  <1>14. CASE Clean
    <2>1. nfiles' = nfiles /\ run' = run /\ output' = output
      BY <1>14 DEF Clean, Exit, diskVars
    <2>2. \A d \in Dirs : RestOf(d, d)
      BY <1>0 DEF RestOf, DirsOK, DirOK
    <2>3. ASSUME NEW e \in Dirs', e \notin Dirs PROVE \E d \in Dirs : RestOf(e, d)
      <3>1. backedUp # None /\ e \in Remains(backedUp)
        BY <1>14, <2>1, <2>3 DEF Clean, Dirs
      <3>2. backedUp \in Inventories /\ backedUp \in Dirs
        BY <1>0, <1>14, <3>1 DEF Clean, Process, TypeOK, Dirs
      <3> QED
        BY <3>1, <3>2, RemainsAreRest
    <2>4. \A e \in Dirs' : \E d \in Dirs : RestOf(e, d)
      BY <2>2, <2>3
    <2>5. (\A b \in Beams : nfiles[b] <= nfiles'[b]) /\ run <= run'
      BY <1>0, <2>1
    <2> QED
      BY <1>0, <2>4, <2>5, DirsStay
  <1> QED
    BY <1>2, <1>3, <1>4, <1>5, <1>6, <1>7, <1>8, <1>9, <1>11, <1>12, <1>13, <1>14 DEF Next

LEMMA ListingNext ==
    ASSUME IInv, TypeOK', [Next]_vars
    PROVE  Listing'
  <1> USE InventoryAssumption
  <1>0. TypeOK /\ DirsOK /\ Listing /\ Process
    BY DEF IInv
  <1>1. CASE UNCHANGED vars
    BY <1>0, <1>1 DEF vars, diskVars, procVars, outputVars, Dirs, Listing
  <1>2. ASSUME NEW b \in Beams, WriteFile(b) \/ Age(b) PROVE Listing'
    BY <1>0, <1>2 DEF WriteFile, Age, procVars, outputVars, Dirs, Listing
  <1>3. ASSUME NEW b \in Beams, ListBeam(b) PROVE Listing'
    <2>1. Dirs' = Dirs /\ pc = "list" /\ run' = run /\ backedUp' = backedUp
      BY <1>3 DEF ListBeam, outputVars, Dirs
    <2>2. ASSUME NEW d \in Dirs, NEW c \in Beams \ todo' PROVE d.files[c] <= seen'[c]
      <3>1. CASE c = b
        <4>1. seen'[c] = nfiles[c]
          BY <1>0, <1>3, <3>1 DEF ListBeam, TypeOK
        <4> QED
          BY <1>0, <4>1 DEF DirsOK, DirOK
      <3>2. CASE c # b
        <4>1. seen'[c] = seen[c] /\ c \in Beams \ todo
          BY <1>0, <1>3, <2>2, <3>2 DEF ListBeam, TypeOK
        <4> QED
          BY <1>0, <2>1, <4>1 DEF Listing
      <3> QED
        BY <3>1, <3>2
    <2> QED
      BY <1>0, <2>1, <2>2 DEF Listing
  <1>4. CASE Start
    <2>1. /\ Dirs' = Dirs /\ run' = run + 1 /\ todo' = Beams /\ backedUp' = backedUp
          /\ backedUp = None /\ run \in Nat
      BY <1>0, <1>4 DEF Start, outputVars, Dirs, Process, TypeOK
    <2>2. ASSUME NEW d \in Dirs PROVE d.run < run'
      <3>1. d.run <= run /\ d.run \in Nat
        BY <1>0 DEF DirsOK, DirOK, Inventories
      <3> QED
        BY <2>1, <3>1
    <2> QED
      BY <2>1, <2>2 DEF Listing
  <1>5. ASSUME pc' # "list" PROVE Listing'
    BY <1>5 DEF Listing
  <1>6. CASE BackUp
    BY <1>5, <1>6 DEF BackUp
  <1>7. CASE NothingToIndex \/ ListFails \/ Killed \/ Finish \/ Clean
    BY <1>5, <1>7 DEF NothingToIndex, ListFails, Killed, Finish, Clean, Exit
  <1>8. CASE MakeOutput \/ WriteFails
    BY <1>5, <1>8 DEF MakeOutput, procVars, WriteFails
  <1>9. ASSUME NEW b \in Beams, WritePart(b) PROVE Listing'
    BY <1>5, <1>9 DEF WritePart
  <1> QED
    BY <1>1, <1>2, <1>3, <1>4, <1>6, <1>7, <1>8, <1>9 DEF Next

LEMMA WritingNext ==
    ASSUME IInv, TypeOK', [Next]_vars
    PROVE  Writing'
  <1> USE InventoryAssumption
  <1>0. TypeOK /\ DirsOK /\ Listing /\ Writing /\ Process
    BY DEF IInv
  <1>1. CASE UNCHANGED vars
    BY <1>0, <1>1 DEF vars, diskVars, procVars, outputVars, Writing, Written
  <1>2. ASSUME NEW b \in Beams, WriteFile(b) \/ Age(b) PROVE Writing'
    BY <1>0, <1>2 DEF WriteFile, Age, procVars, outputVars, Writing, Written
  <1>3. ASSUME pc' # "write" PROVE Writing'
    BY <1>3 DEF Writing
  <1>4. ASSUME NEW b \in Beams, ListBeam(b) PROVE Writing'
    BY <1>3, <1>4 DEF ListBeam
  <1>5. CASE Start \/ WriteFails
    BY <1>3, <1>5 DEF Start, WriteFails
  <1>6. CASE NothingToIndex \/ ListFails \/ Killed \/ Finish \/ Clean
    BY <1>3, <1>6 DEF NothingToIndex, ListFails, Killed, Finish, Clean, Exit
  <1>7. CASE BackUp
    <2>1. /\ backups' \subseteq Dirs /\ run' = run /\ seen' = seen /\ output' = None
          /\ todo' = {b \in Beams : seen[b] > 0 /\ Parts(seen[b], Growing(b)) # {}}
          /\ inProgress' = inProgress
      BY <1>0, <1>7, NoneIsNoInventory DEF BackUp, Dirs, TypeOK
    <2>2. \A d \in backups' : d.run < run /\ \A b \in Beams : d.files[b] <= seen[b]
      BY <1>0, <1>7, <2>1 DEF BackUp, Listing
    <2>3. \A b \in Beams \ todo' : seen[b] = 0 \/ Parts(seen[b], inProgress # {}) = {}
      BY <1>0, <2>1 DEF TypeOK, Growing
    <2> QED
      BY <2>1, <2>2, <2>3 DEF Writing
  <1>8. CASE MakeOutput
    <2>1. /\ output'.run = run /\ output'.files = seen /\ ~output'.complete
          /\ output'.growing = (inProgress # {})
      BY <1>8 DEF MakeOutput
    <2>2. output' # None
      BY <2>1, <1>8, <1>0, NoneIsNoInventory DEF MakeOutput, None, Process
    <2>3. \A b \in Beams \ todo : seen[b] = 0 \/ Written(output, b)'
      <3>1. \A b \in Beams : output'.parts[b] = {}
        BY <1>8 DEF MakeOutput
      <3>2. \A b \in Beams : seen[b] \in Nat
        BY <1>0 DEF TypeOK
      <3> QED
        BY <1>0, <1>8, <2>1, <3>1, <3>2 DEF MakeOutput, Writing, Written
    <2> QED
      BY <1>0, <1>8, <2>1, <2>2, <2>3 DEF MakeOutput, procVars, Writing
  <1>9. ASSUME NEW b \in Beams, WritePart(b) PROVE Writing'
    <2>1. /\ output \in Inventories /\ output.run = run /\ output.files = seen
          /\ ~output.complete /\ output.growing = (inProgress # {}) /\ seen[b] > 0
          /\ output' \in Inventories
          /\ \/ todo' = todo
             \/ /\ todo' = todo \ {b}
                /\ Parts(seen[b], output.growing) \subseteq output'.parts[b]
      BY <1>0, <1>9, WritePartFacts
    <2> PICK p \in Parts(seen[b], output.growing) :
           output' = [output EXCEPT !.parts[b] = @ \cup {p}]
      BY <1>0, <1>9, WritePartFacts
    <2>2. /\ output' # None /\ output'.run = run /\ output'.files = seen
          /\ ~output'.complete /\ output'.growing = output.growing
      BY <2>1, NoneIsNoInventory DEF Inventories
    <2>3. output'.parts[b] = output.parts[b] \cup {p}
      BY <2>1 DEF Inventories
    <2>4. ASSUME NEW c \in Beams \ todo' PROVE seen[c] = 0 \/ Written(output', c)
      <3>1. CASE c = b
        <4>1. Parts(seen[b], output.growing) \subseteq output'.parts[b]
          BY <1>9, <2>1, <2>4, <3>1 DEF WritePart
        <4>2. output.parts[b] \subseteq Parts(seen[b], output.growing)
          BY <1>0, <2>1, NoneIsNoInventory DEF DirsOK, Dirs, DirOK, Partial
        <4> QED
          BY <2>1, <2>2, <2>3, <3>1, <4>1, <4>2 DEF Written
      <3>2. CASE c # b
        <4>1. c \in Beams \ todo /\ output # None
          BY <1>9, <2>1, <2>4, <3>2 DEF WritePart
        <4>2. seen[c] = 0 \/ Written(output, c)
          BY <1>0, <1>9, <4>1 DEF Writing, WritePart
        <4>3. output'.parts[c] = output.parts[c]
          BY <2>1, <3>2 DEF Inventories
        <4> QED
          BY <2>1, <2>2, <4>2, <4>3 DEF Written
      <3> QED
        BY <3>1, <3>2
    <2>5. /\ \A c \in todo' : seen'[c] > 0
          /\ \A d \in backups' : d.run < run' /\ \A c \in Beams : d.files[c] <= seen'[c]
      BY <1>0, <1>9, <2>1 DEF WritePart, Writing
    <2>6. ASSUME NEW c \in Beams \ todo' PROVE seen'[c] = 0 \/ Written(output, c)'
      BY <1>9, <2>4 DEF WritePart, Written
    <2>7. output'.growing = (inProgress' # {})
      BY <1>9, <2>1, <2>2 DEF WritePart
    <2> QED
      BY <1>9, <2>2, <2>5, <2>6, <2>7 DEF WritePart, Writing
  <1> QED
    BY <1>1, <1>2, <1>4, <1>5, <1>6, <1>7, <1>8, <1>9 DEF Next

\* The directory being written is not complete, so that what is kept is a backup.
LEMMA KeptNext ==
    ASSUME IInv, TypeOK', [Next]_vars
    PROVE  CompleteOneKept'
  <1>0. TypeOK /\ Writing /\ Process /\ CompleteOneKept
    BY DEF IInv
  <1>1. ASSUME Dirs' = Dirs, completed' = completed PROVE CompleteOneKept'
    BY <1>0, <1>1 DEF CompleteOneKept
  <1>2. CASE UNCHANGED vars
    BY <1>1, <1>2 DEF vars, outputVars, Dirs
  <1>3. ASSUME NEW b \in Beams, WriteFile(b) \/ Age(b) \/ ListBeam(b)
        PROVE  CompleteOneKept'
    BY <1>1, <1>3 DEF WriteFile, Age, ListBeam, outputVars, Dirs
  <1>4. CASE Start \/ NothingToIndex \/ ListFails \/ Killed
    BY <1>1, <1>4 DEF Start, NothingToIndex, ListFails, Killed, outputVars, Dirs
  <1>5. CASE BackUp
    BY <1>1, <1>5 DEF BackUp, Dirs
  <1>6. CASE WriteFails
    BY <1>0, <1>1, <1>6 DEF WriteFails, Dirs, Process
  <1>7. ASSUME pc = "write", completed' = completed, backups' = backups PROVE CompleteOneKept'
    <2>1. ASSUME NEW d \in Dirs, d.complete PROVE d \in Dirs'
      <3>1. d # output
        BY <1>0, <1>7, <2>1 DEF Writing, Dirs
      <3> QED
        BY <1>7, <2>1, <3>1 DEF Dirs
    <2> QED
      BY <1>0, <1>7, <2>1 DEF CompleteOneKept
  <1>8. ASSUME NEW b \in Beams, WritePart(b) PROVE CompleteOneKept'
    BY <1>7, <1>8 DEF WritePart
  <1>9. CASE MakeOutput
    BY <1>7, <1>9 DEF MakeOutput
  <1>10. CASE Finish
    <2>1. output' = [output EXCEPT !.complete = TRUE] /\ output \in Inventories
      BY <1>0, <1>10 DEF Finish, TypeOK
    <2>2. output'.complete /\ output' \in Inventories
      BY <2>1 DEF Inventories
    <2>3. output' \in Dirs'
      BY <2>2, NoneIsNoInventory DEF Dirs
    <2> QED
      BY <2>2, <2>3 DEF CompleteOneKept
  <1>11. CASE Clean
    <2>1. output' = output /\ output # None /\ output.complete
      BY <1>0, <1>11 DEF Clean, Process
    <2> QED
      BY <2>1 DEF CompleteOneKept, Dirs
  <1> QED
    BY <1>2, <1>3, <1>4, <1>5, <1>6, <1>8, <1>9, <1>10, <1>11 DEF Next

\* The inductive invariant of the script and of the directories it leaves.
THEOREM Safety == Spec => []IInv
  <1>1. Init => IInv
    BY InitInv
  <1>2. IInv /\ [Next]_vars => IInv'
    <2> SUFFICES ASSUME IInv, [Next]_vars PROVE IInv'
      OBVIOUS
    <2>1. TypeOK'
      BY TypeNext DEF IInv
    <2>2. Process'
      BY ProcessNext DEF IInv
    <2> QED
      BY <2>1, <2>2, DirsNext, ListingNext, WritingNext, KeptNext DEF IInv
  <1> QED
    BY <1>1, <1>2, PTL DEF Spec

\* Every directory that the script leaves has the form that its readers expect.
THEOREM TypeCorrect == Spec => []TypeOK
  <1>1. IInv => TypeOK
    BY DEF IInv
  <1> QED
    BY <1>1, Safety, PTL

LEMMA DirParts ==
    ASSUME IInv, NEW d \in Dirs, NEW b \in Beams
    PROVE  /\ d \in Inventories
           /\ d.files[b] \in Nat /\ d.files[b] <= nfiles[b] /\ nfiles[b] \in Nat
           /\ Partial(d, b)
           /\ d.complete => d.files[b] = 0 \/ Written(d, b)
  <1>1. DirOK(d) /\ d \in Inventories /\ TypeOK
    BY DEF IInv, DirsOK, DirOK
  <1>2. d.files[b] \in Nat /\ nfiles[b] \in Nat
    BY <1>1, InventoryAssumption DEF Inventories, TypeOK
  <1> QED
    BY <1>1, <1>2 DEF DirOK

LEMMA DirWritten ==
    ASSUME NEW d \in Inventories, NEW b \in Beams, Written(d, b)
    PROVE  \E n \in Nat, g \in BOOLEAN :
              /\ n > 0 /\ n = d.files[b] /\ g = d.growing /\ d.parts[b] = Parts(n, g)
  <1>1. d.files[b] \in Nat /\ d.growing \in BOOLEAN
    BY InventoryAssumption DEF Inventories
  <1> QED
    BY <1>1 DEF Written

\* A part of a directory is one of those of the files that were listed.
LEMMA DirPart ==
    ASSUME IInv, NEW d \in Dirs, NEW b \in Beams, NEW p \in d.parts[b]
    PROVE  \E n \in Nat, g \in BOOLEAN :
              n > 0 /\ n = d.files[b] /\ g = d.growing /\ p \in Parts(n, g)
  <1>1. d.files[b] \in Nat /\ Partial(d, b) /\ d.growing \in BOOLEAN
    BY DirParts DEF Inventories
  <1> QED
    BY <1>1 DEF Partial

\* beamdir.write_json_files(): for any length of part, any overlap shorter than
\* a part and any number of files, the parts of a beam exist, and those of a
\* complete inventory follow each other with the overlap and leave no file of a
\* finished acquisition out, nor a whole part of a growing one.
THEOREM PartsAreSound == Spec => []PartsTile
  <1>1. ASSUME IInv, NEW d \in Dirs, NEW b \in Beams, NEW p \in d.parts[b]
        PROVE  0 <= p.from /\ p.from < p.to /\ p.to <= nfiles[b]
    <2> PICK n \in Nat, g \in BOOLEAN : n > 0 /\ n = d.files[b] /\ p \in Parts(n, g)
      BY <1>1, DirPart
    <2>1. n <= nfiles[b] /\ nfiles[b] \in Nat
      BY <1>1, DirParts
    <2>2. p.from \in Nat /\ p.to \in Nat /\ p.from < p.to /\ p.to <= n
      BY PartsOfBeam DEF Ranges
    <2> QED
      BY <2>1, <2>2
  <1>2. ASSUME IInv, NEW d \in Dirs, NEW b \in Beams, d.complete, NEW p \in d.parts[b]
        PROVE  IF p.part = 0 THEN p.from = 0
               ELSE \E q \in d.parts[b] : q.part = p.part - 1 /\ q.to = p.from + Overlap
    <2>1. PICK m \in Nat : m > 0 /\ m = d.files[b]
      BY <1>2, DirPart
    <2>2. d \in Inventories /\ Written(d, b)
      BY <1>2, <2>1, DirParts
    <2> PICK n \in Nat, g \in BOOLEAN : n > 0 /\ d.parts[b] = Parts(n, g)
      BY <2>2, DirWritten
    <2>3. /\ p \in Ranges
          /\ p.part = 0 => p.from = 0
          /\ p.part > 0 => \E q \in d.parts[b] :
                q.part = p.part - 1 /\ q.to = p.from + Overlap
      BY PartsOfBeam
    <2>4. p.part = 0 \/ p.part > 0
      BY <2>3 DEF Ranges
    <2> QED
      BY <2>3, <2>4
  <1>3. ASSUME IInv, NEW d \in Dirs, NEW b \in Beams, d.complete
        PROVE  \/ d.files[b] < IF d.growing THEN Per ELSE 1
               \/ \E p \in d.parts[b] : d.files[b] - p.to < IF d.growing THEN Per ELSE 1
    <2>1. d \in Inventories /\ (d.files[b] = 0 \/ Written(d, b))
      BY <1>3, DirParts
    <2>2. CASE d.files[b] = 0
      BY <2>2, PerPositive
    <2>3. CASE Written(d, b)
      <3> PICK n \in Nat, g \in BOOLEAN :
             n > 0 /\ n = d.files[b] /\ g = d.growing /\ d.parts[b] = Parts(n, g)
        BY <2>1, <2>3, DirWritten
      <3> QED
        BY LittleLeftOut
    <2> QED
      BY <2>1, <2>2, <2>3
  <1>4. IInv => PartsTile
    <2> SUFFICES ASSUME IInv PROVE PartsTile
      OBVIOUS
    <2> QED
      BY <1>1, <1>2, <1>3 DEF PartsTile
  <1> QED
    BY <1>4, Safety, PTL

\* What has been indexed of an acquisition in progress is indexed in the same
\* way by every later run.
THEOREM IndexIsStable == Spec => []IndexedStaysIndexed
  <1>1. ASSUME IInv PROVE IndexedStaysIndexed
    <2> SUFFICES ASSUME NEW d \in Dirs, NEW e \in Dirs, d.growing, d.run < e.run, e.complete,
                        NEW b \in Beams, NEW p \in d.parts[b]
                 PROVE  \E q \in e.parts[b] :
                            q.part = p.part /\ q.from = p.from /\ q.to >= p.to
      BY DEF IndexedStaysIndexed
    <2>1. d \in Inventories /\ e \in Inventories
      BY <1>1, DirParts
    <2> PICK n \in Nat, g \in BOOLEAN :
           n > 0 /\ n = d.files[b] /\ g = d.growing /\ p \in Parts(n, g)
      BY <1>1, DirPart
    <2>2. e.files[b] \in Nat /\ n <= e.files[b]
      BY <1>1, DirParts DEF IInv, FilesGrow
    <2>3. Written(e, b)
      BY <1>1, <2>2, DirParts
    <2> PICK m \in Nat, h \in BOOLEAN : m = e.files[b] /\ e.parts[b] = Parts(m, h)
      BY <2>1, <2>3, DirWritten
    <2>4. PICK i \in Nat :
             /\ p.part = i /\ p.from = IF i > 0 THEN i * Per - Overlap ELSE 0
             /\ p.to = (i + 1) * Per /\ p.to <= n /\ p.to \in Nat
      BY GrowingPart
    <2>7. (i + 1) * Per <= m
      BY <2>2, <2>4
    <2> DEFINE q == Part(i, m, h)
    <2>8. /\ i \in 0 .. NumParts(m, h) - 1
          /\ q.part = i
          /\ q.from = IF i > 0 THEN i * Per - Overlap ELSE 0
          /\ q.to >= (i + 1) * Per
      BY <2>2, <2>3, <2>7, PartsStay
    <2>9. q \in e.parts[b]
      BY <2>3, <2>8 DEF Parts
    <2> QED
      BY <2>4, <2>8, <2>9
  <1> QED
    BY <1>1, Safety, PTL

\* However the script fails or is killed, and with or without -D, the files of
\* some completed run remain.
THEOREM OneInventoryKept == Spec => []CompleteOneKept
  <1>1. IInv => CompleteOneKept
    BY DEF IInv
  <1> QED
    BY <1>1, Safety, PTL
=============================================================================
