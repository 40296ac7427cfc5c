------------------------------ MODULE FilesProofs ------------------------------
(***************************************************************************)
(* Proofs about descriptors, file_t's and cached nodes for any number of   *)
(* processes, descriptors and file_t's and any tree of paths.              *)
(***************************************************************************)
EXTENDS Files, FiniteSetTheorems, WellFoundedInduction, TLAPS

Node == Path \cup {Root, Pipe, Gone}
File == [refer : Nat, node : Node]
Table == [Proc -> [Fd -> Fid \cup {0}]]
Slot == Proc \X Fd

\* the descriptors that name f in the tables F
Named(F, f) == {d \in Slot : F[d[1]][d[2]] = f}

\* 1 for what is the same
Same(a, b) == IF a = b THEN 1 ELSE 0

-----------------------------------------------------------------------------
(* Counting descriptors                                                      *)

\* There are finitely many descriptors.
LEMMA FiniteSlots ==
    IsFiniteSet(Fd) /\ IsFiniteSet(Slot) /\ Fd \subseteq Int /\ Fid \subseteq Nat \ {0}
<1>1. 0 \in Int /\ MAX_FILE - 1 \in Int
  BY FilesAssumption
<1>2. IsFiniteSet(Fd)
  BY <1>1, FS_Interval DEF Fd
<1>3. IsFiniteSet(Slot)
  BY <1>2, FilesAssumption, FS_Product DEF Slot
<1> QED
  BY <1>2, <1>3, FilesAssumption DEF Fd, Fid

\* A count is a number, and it is not 0 when a descriptor names f.
LEMMA NamedFinite ==
    ASSUME NEW F \in Table, NEW f
    PROVE  /\ IsFiniteSet(Named(F, f)) /\ Cardinality(Named(F, f)) \in Nat
           /\ \A p \in Proc, fd \in Fd : F[p][fd] = f => Cardinality(Named(F, f)) > 0
<1>1. Named(F, f) \in SUBSET Slot
  BY DEF Named
<1>2. IsFiniteSet(Named(F, f))
  BY <1>1, FiniteSlots, FS_Subset
<1>3. Cardinality(Named(F, f)) \in Nat
  BY <1>2, FS_CardinalityType
<1>4. ASSUME NEW p \in Proc, NEW fd \in Fd, F[p][fd] = f PROVE Named(F, f) # {}
  <2>1. <<p, fd>> \in Named(F, f)
    BY <1>4 DEF Named, Slot
  <2> QED
    BY <2>1
<1>5. Cardinality(Named(F, f)) = 0 => Named(F, f) = {}
  BY <1>2, FS_EmptySet
<1> QED
  BY <1>2, <1>3, <1>4, <1>5

\* the tables F with one entry, or the table of one process, assigned
Put(F, p, fd, g) == [F EXCEPT ![p][fd] = g]
PutRow(F, p, row) == [F EXCEPT ![p] = row]

\* the descriptors that name f in the table of one process
RowNamed(row, f) == {fd \in Fd : row[fd] = f}

\* One entry of a table is assigned.
LEMMA NamedSet ==
    ASSUME NEW F \in Table, NEW p \in Proc, NEW fd \in Fd, NEW g \in Fid \cup {0}, NEW f
    PROVE  /\ Put(F, p, fd, g) \in Table
           /\ Cardinality(Named(Put(F, p, fd, g), f)) =
                Cardinality(Named(F, f)) - Same(F[p][fd], f) + Same(g, f)
<1> DEFINE G == Put(F, p, fd, g)
<1> DEFINE d == <<p, fd>>
           S == Named(F, f) \ {d}
<1>1. G \in Table
  BY DEF Table, Put
<1>2. \A q \in Proc, x \in Fd : G[q][x] = IF q = p /\ x = fd THEN g ELSE F[q][x]
  BY DEF Table, Put
<1> HIDE DEF G
<1>3. d \in Slot
  BY DEF Slot
<1>4. d \in Named(F, f) <=> F[p][fd] = f
  BY <1>3 DEF Named
<1>5. Named(G, f) = IF g = f THEN S \cup {d} ELSE S
  <2>1. \A e \in Slot : e = <<e[1], e[2]>> /\ e[1] \in Proc /\ e[2] \in Fd
    BY DEF Slot
  <2>2. \A e \in Slot : G[e[1]][e[2]] = IF e = d THEN g ELSE F[e[1]][e[2]]
    BY <1>2, <2>1
  <2> QED
    BY <1>3, <2>2 DEF Named
<1>6. /\ IsFiniteSet(Named(F, f)) /\ Cardinality(Named(F, f)) \in Nat
  BY NamedFinite
<1>7. IsFiniteSet(S) /\ d \notin S
      /\ Cardinality(S) = Cardinality(Named(F, f)) - Same(F[p][fd], f)
  BY <1>4, <1>6, FS_RemoveElement DEF Same
<1> HIDE DEF S, d
<1>8. Cardinality(S \cup {d}) = Cardinality(S) + 1
  BY <1>7, FS_AddElement
<1> QED
  BY <1>1, <1>5, <1>6, <1>7, <1>8 DEF Same, G

\* A table of one process is assigned: its descriptors are counted by themselves.
LEMMA NamedRow ==
    ASSUME NEW F \in Table, NEW p \in Proc, NEW row \in [Fd -> Fid \cup {0}], NEW f
    PROVE  /\ PutRow(F, p, row) \in Table
           /\ Cardinality(RowNamed(row, f)) \in Nat
           /\ Cardinality(RowNamed(F[p], f)) \in Nat
           /\ Cardinality(Named(PutRow(F, p, row), f)) =
                Cardinality(Named(F, f)) - Cardinality(RowNamed(F[p], f)) + Cardinality(RowNamed(row, f))
<1> DEFINE G == PutRow(F, p, row)
<1> DEFINE Rest == {d \in Slot : d[1] # p /\ F[d[1]][d[2]] = f}
           Row(r) == {d \in Slot : d[1] = p /\ r[d[2]] = f}
           Fds(r) == RowNamed(r, f)
<1>1. G \in Table /\ F[p] \in [Fd -> Fid \cup {0}]
  BY DEF Table, PutRow
<1>2. \A e \in Slot : e = <<e[1], e[2]>> /\ e[1] \in Proc /\ e[2] \in Fd
  BY DEF Slot
<1>3. \A e \in Slot : G[e[1]][e[2]] = IF e[1] = p THEN row[e[2]] ELSE F[e[1]][e[2]]
  BY <1>2 DEF Table, PutRow
<1> HIDE DEF G
<1>4. Named(F, f) = Rest \cup Row(F[p]) /\ Named(G, f) = Rest \cup Row(row)
  BY <1>3 DEF Named
<1>5. ASSUME NEW r \in [Fd -> Fid \cup {0}]
      PROVE  /\ Cardinality(Fds(r)) \in Nat
             /\ Cardinality(Rest) \in Nat
             /\ Cardinality(Rest \cup Row(r)) = Cardinality(Rest) + Cardinality(Fds(r))
  <2>1. Rest \in SUBSET Slot /\ Row(r) \in SUBSET Slot /\ Fds(r) \in SUBSET Fd
    BY DEF RowNamed
  <2>2. IsFiniteSet(Rest) /\ IsFiniteSet(Row(r)) /\ IsFiniteSet(Fds(r))
    BY <2>1, FiniteSlots, FS_Subset
  <2>3. Rest \cap Row(r) = {}
    OBVIOUS
  <2>4. ExistsBijection(Fds(r), Row(r))
    <3> DEFINE b == [fd \in Fds(r) |-> <<p, fd>>]
    <3>1. b \in [Fds(r) -> Row(r)]
      BY DEF Slot, RowNamed
    <3>2. \A x, y \in Fds(r) : b[x] = b[y] => x = y
      OBVIOUS
    <3>3. ASSUME NEW e \in Row(r) PROVE \E x \in Fds(r) : b[x] = e
      <4>1. e[2] \in Fds(r) /\ e = <<p, e[2]>>
        BY <1>2 DEF RowNamed
      <4> QED
        BY <4>1
    <3> HIDE DEF b, Fds, Row
    <3>4. b \in Bijection(Fds(r), Row(r))
      BY <3>1, <3>2, <3>3 DEF Bijection, Injection, Surjection, IsInjective
    <3> QED
      BY <3>4 DEF ExistsBijection
  <2> HIDE DEF Rest, Row, Fds
  <2>5. Cardinality(Row(r)) = Cardinality(Fds(r))
    BY <2>2, <2>4, FS_Bijection
  <2>6. Cardinality(Rest) \in Nat /\ Cardinality(Row(r)) \in Nat
    BY <2>2, FS_CardinalityType
  <2>7. Cardinality(Rest \cup Row(r)) = Cardinality(Rest) + Cardinality(Row(r)) - Cardinality({})
    BY <2>2, <2>3, FS_Union
  <2> QED
    BY <2>5, <2>6, <2>7, FS_EmptySet
<1> HIDE DEF Rest, Row, Fds
<1>6. /\ Cardinality(Fds(row)) \in Nat /\ Cardinality(Fds(F[p])) \in Nat /\ Cardinality(Rest) \in Nat
      /\ Cardinality(Named(F, f)) = Cardinality(Rest) + Cardinality(Fds(F[p]))
      /\ Cardinality(Named(G, f)) = Cardinality(Rest) + Cardinality(Fds(row))
  BY <1>1, <1>4, <1>5
<1>7. Cardinality(Named(G, f)) = Cardinality(Named(F, f)) - Cardinality(Fds(F[p])) + Cardinality(Fds(row))
  BY <1>6
<1> QED
  BY <1>1, <1>6, <1>7 DEF Fds, G

-----------------------------------------------------------------------------
(* The invariant                                                             *)

TypeInv ==
    /\ run \in SUBSET Proc /\ files \in Table /\ file \in [Fid -> File] /\ pwd \in [Proc -> Node]
    /\ cache \in SUBSET Path /\ left \in [Fid -> Nat] /\ shared \in BOOLEAN
    /\ stale \in BOOLEAN /\ fault \in {"none", "table", "freed"}

\* a process that does not run has no descriptors, a freed file_t no node
EmptyInv ==
    /\ \A p \in Proc \ run : \A fd \in Fd : files[p][fd] = 0
    /\ \A f \in Fid : file[f].refer = 0 => file[f].node = Root

\* a file_t is open at or above x
OpenAbove(f, x) ==
    file[f].refer > 0 /\ file[f].node \in Path /\ x \in Path /\ file[f].node \in Above(x)

\* shared has recorded what another file_t or a working directory has below an open
\* file_t; it is set, or stale is, before there is a pointer to a released node
SharedInv ==
    /\ \A f, g \in Fid : f # g /\ file[g].refer > 0 /\ OpenAbove(f, file[g].node) => shared
    /\ \A f \in Fid, p \in run : OpenAbove(f, pwd[p]) => shared
GoneInv ==
    /\ \A f \in Fid : file[f].node = Gone => shared \/ stale
    /\ \A p \in run : pwd[p] = Gone => shared \/ stale

FilesInv == TypeInv /\ EmptyInv /\ RefersCounted /\ SharedInv /\ GoneInv /\ FreedMeansSharing

-----------------------------------------------------------------------------
(* Parts of the actions                                                      *)

\* CHOOSE in Least finds something.
LEMMA LeastIn ==
    ASSUME NEW S, S \subseteq Nat, S # {}
    PROVE  Least(S) \in S
<1> DEFINE R == {ss \in Nat \X Nat : ss[1] < ss[2]}
<1>1. IsWellFoundedOn(R, Nat)
  BY NatLessThanWellFounded DEF OpToRel
<1>2. PICK s \in S : \A y \in S : ~(<<y, s>> \in R)
  <2> HIDE DEF R
  <2> QED
    BY <1>1, WFMin
<1>3. ASSUME NEW x \in S PROVE s <= x
  <2>1. x \in Nat /\ s \in Nat /\ <<x, s>> \in Nat \X Nat
    OBVIOUS
  <2>2. ~(x < s)
    BY <1>2, <2>1
  <2> QED
    BY <2>1, <2>2
<1> QED
  BY <1>3 DEF Least

\* The directories above a path: the path is one of them, the set holds the directory
\* of each of them, and what is above one of them is above the path.
LEMMA AboveFacts ==
    ASSUME NEW x \in Path
    PROVE  /\ x \in Above(x) /\ Above(x) \subseteq Path
           /\ \A y \in Above(x) : Up[y] # Root => Up[y] \in Above(x)
           /\ \A y \in Above(x) : Above(y) \subseteq Above(x)
<1>1. x \in Above(x) /\ Above(x) \subseteq Path
  BY DEF Above
<1>2. ASSUME NEW y \in Above(x), Up[y] # Root PROVE Up[y] \in Above(x)
  <2>1. y \in Path /\ Up[y] \in Path
    BY <1>2, FilesAssumption DEF Above
  <2>2. ASSUME NEW S \in UpClosed, x \in S PROVE Up[y] \in S
    BY <1>2, <2>2 DEF Above, UpClosed
  <2> QED
    BY <2>1, <2>2 DEF Above
<1>3. \A y \in Above(x) : Above(y) \subseteq Above(x)
  BY DEF Above
<1> QED
  BY <1>1, <1>2, <1>3

\* vfs_open: a node is cached with the directories above it.
LEMMA OpenTree ==
    ASSUME NEW x \in Path, cache \in SUBSET Path, vfs_open(x),
           \A y \in cache : Up[y] # Root => Up[y] \in cache
    PROVE  cache' \in SUBSET Path /\ \A y \in cache' : Up[y] # Root => Up[y] \in cache'
BY AboveFacts DEF vfs_open

\* vfs_release: a node takes everything below it along.
LEMMA ReleaseTree ==
    ASSUME NEW x \in Path, cache \in SUBSET Path,
           \A y \in cache : Up[y] # Root => Up[y] \in cache,
           NEW y \in cache \ vfs_release(x), Up[y] # Root
    PROVE  Up[y] \in cache \ vfs_release(x)
<1>1. y \in Path /\ y \in cache /\ x \notin Above(y) /\ Up[y] \in cache
  BY DEF vfs_release
<1>2. Up[y] \in Above(y)
  BY <1>1, AboveFacts
<1>3. Above(Up[y]) \subseteq Above(y)
  BY <1>1, <1>2, AboveFacts
<1> QED
  BY <1>1, <1>3 DEF vfs_release

\* Note records every sharing there is after the step, and forgets nothing.
LEMMA NoteFacts ==
    ASSUME Note, shared \in BOOLEAN
    PROVE  SharedInv' /\ shared' \in BOOLEAN /\ (shared => shared')
<1>1. shared' \in BOOLEAN /\ (shared => shared')
  BY DEF Note
<1>2. ASSUME NEW u \in Users, NEW v \in Users, u # v, u[1] = "file",
             NodeOf(u) \in Path, NodeOf(v) \in Path, NodeOf(u) \in Above(NodeOf(v))
      PROVE  shared'
  BY <1>2 DEF Note
<1>3. ASSUME NEW f \in Fid, NEW g \in Fid, f # g, file'[g].refer > 0, OpenAbove(f, file[g].node)'
      PROVE  shared'
  <2>1. <<"file", f>> \in Users /\ <<"file", g>> \in Users
    BY <1>3 DEF Users, OpenAbove
  <2>2. NodeOf(<<"file", f>>) = file'[f].node /\ NodeOf(<<"file", g>>) = file'[g].node
    BY DEF NodeOf
  <2>3. <<"file", f>> # <<"file", g>> /\ <<"file", f>>[1] = "file"
    BY <1>3
  <2> QED
    BY <1>2, <1>3, <2>1, <2>2, <2>3 DEF OpenAbove
<1>4. ASSUME NEW f \in Fid, NEW p \in run', OpenAbove(f, pwd[p])'
      PROVE  shared'
  <2>1. <<"file", f>> \in Users /\ <<"pwd", p>> \in Users
    BY <1>4 DEF Users, OpenAbove
  <2>2. NodeOf(<<"file", f>>) = file'[f].node /\ NodeOf(<<"pwd", p>>) = pwd'[p]
    BY DEF NodeOf
  <2>3. <<"file", f>> # <<"pwd", p>> /\ <<"file", f>>[1] = "file"
    OBVIOUS
  <2> QED
    BY <1>2, <1>4, <2>1, <2>2, <2>3 DEF OpenAbove
<1> QED
  BY <1>1, <1>3, <1>4 DEF SharedInv, OpenAbove

\* RefersCounted, with Named, before and after a step.
LEMMA CountFacts ==
    /\ RefersCounted <=> \A f \in Fid : file[f].refer = Cardinality(Named(files, f)) + left[f]
    /\ RefersCounted' <=> \A f \in Fid : file'[f].refer = Cardinality(Named(files', f)) + left'[f]
BY DEF RefersCounted, Named, Slot

\* The pointers into the cache once nodes are released, which are none, those below
\* the node of a file_t that has just been freed, or those below any node when stale is
\* set.  F holds the file_t's after that.
LEMMA ReleaseStep ==
    ASSUME FilesInv, NEW F \in [Fid -> File], NEW nodes, Release(F, nodes), Note, run' = run,
           \A g \in Fid : F[g].refer = 0 => F[g].node = Root,
           \A g \in Fid : F[g].node # Root => F[g].node = file[g].node /\ file[g].refer > 0,
           \/ nodes = {}
           \/ \E c \in Fid : /\ F[c].node = Root /\ file[c].refer > 0 /\ file[c].node \in Path
                             /\ nodes = vfs_release(file[c].node)
           \/ stale' /\ \E x \in Path : nodes = vfs_release(x),
           stale => stale'
    PROVE  /\ cache' \in SUBSET Path /\ pwd' \in [Proc -> Node] /\ file' \in [Fid -> File]
           /\ \A f \in Fid : file'[f].refer = F[f].refer
           /\ \A f \in Fid : file'[f].refer = 0 => file'[f].node = Root
           /\ SharedInv' /\ GoneInv' /\ shared' \in BOOLEAN /\ (shared => shared')
           /\ \A y \in cache' : Up[y] # Root => Up[y] \in cache'
<1>0. /\ run \in SUBSET Proc /\ file \in [Fid -> File] /\ pwd \in [Proc -> Node]
      /\ cache \in SUBSET Path /\ shared \in BOOLEAN
      /\ SharedInv /\ GoneInv /\ \A y \in cache : Up[y] # Root => Up[y] \in cache
  BY DEF FilesInv, TypeInv, FreedMeansSharing
<1>1. SharedInv' /\ shared' \in BOOLEAN /\ (shared => shared')
  BY <1>0, NoteFacts
<1>2. /\ cache' = cache \ nodes
      /\ pwd' = [q \in Proc |-> IF pwd[q] \in nodes THEN Gone ELSE pwd[q]]
      /\ file' = [f \in Fid |-> Dangle(F[f], nodes)]
  BY DEF Release
<1>3. nodes \subseteq Path
  BY <1>0 DEF vfs_release
<1>4. /\ cache' \in SUBSET Path /\ pwd' \in [Proc -> Node]
  BY <1>0, <1>2 DEF Node
<1>5. \A f \in Fid : /\ file'[f] \in File /\ file'[f].refer = F[f].refer
                     /\ file'[f].node = IF F[f].node \in nodes THEN Gone ELSE F[f].node
  <2> TAKE f \in Fid
  <2>1. file'[f] = Dangle(F[f], nodes) /\ F[f] \in File
    BY <1>2
  <2>2. \A r \in File : /\ Dangle(r, nodes) \in File /\ Dangle(r, nodes).refer = r.refer
                        /\ Dangle(r, nodes).node = IF r.node \in nodes THEN Gone ELSE r.node
    BY DEF Dangle, File, Node
  <2> QED
    BY <2>1, <2>2
<1>6. file' \in [Fid -> File]
  BY <1>2, <1>5
<1>7. \A f \in Fid : file'[f].refer = 0 => file'[f].node = Root
  BY <1>3, <1>5, FilesAssumption
<1>8. \A y \in cache' : Up[y] # Root => Up[y] \in cache'
  BY <1>0, <1>2, ReleaseTree
<1>9. ASSUME NEW x \in nodes, ~stale'
      PROVE  \E c \in Fid : F[c].node = Root /\ OpenAbove(c, x)
  BY <1>0, <1>3, <1>9 DEF vfs_release, OpenAbove
<1>10. ASSUME NEW g \in Fid, file'[g].node = Gone, ~stale' PROVE shared'
  <2>1. CASE F[g].node \in nodes
    <3>1. PICK c \in Fid : F[c].node = Root /\ OpenAbove(c, F[g].node)
      BY <1>9, <1>10, <2>1
    <3>2. F[g].node # Root
      BY <1>3, <2>1, FilesAssumption
    <3>3. F[g].node = file[g].node /\ file[g].refer > 0 /\ c # g
      BY <3>1, <3>2
    <3> QED
      BY <1>0, <1>1, <3>1, <3>3 DEF SharedInv
  <2>2. CASE F[g].node \notin nodes
    <3>1. F[g].node = Gone /\ Gone # Root
      BY <1>5, <1>10, <2>2, FilesAssumption
    <3> QED
      BY <1>0, <1>1, <1>10, <3>1 DEF GoneInv
  <2> QED
    BY <2>1, <2>2
<1>11. ASSUME NEW p \in run', pwd'[p] = Gone, ~stale' PROVE shared'
  <2>1. p \in run /\ p \in Proc
    BY <1>0, <1>11
  <2>2. CASE pwd[p] \in nodes
    BY <1>0, <1>1, <1>9, <1>11, <2>1, <2>2 DEF SharedInv
  <2>3. CASE pwd[p] \notin nodes
    BY <1>0, <1>1, <1>2, <1>11, <2>1, <2>3 DEF GoneInv
  <2> QED
    BY <2>2, <2>3
<1> QED
  BY <1>1, <1>4, <1>5, <1>6, <1>7, <1>8, <1>10, <1>11 DEF GoneInv

\* What the last descriptor of a file_t, or one of several, does to it.
LEMMA UnrefFacts ==
    ASSUME NEW r \in File, r.refer > 0
    PROVE  /\ Unref(r) \in File /\ Unref(r).refer = r.refer - 1
           /\ r.refer = 1 => Unref(r).node = Root
           /\ r.refer # 1 => Unref(r).node = r.node
BY DEF Unref, File, Freed, Node

\* What a file_t that a table names is.
LEMMA HeldFacts ==
    ASSUME FilesInv, NEW p \in Proc, NEW fd \in Fd, files[p][fd] # 0
    PROVE  /\ files[p][fd] \in Fid /\ file[files[p][fd]] \in File
           /\ file[files[p][fd]].refer \in Nat /\ file[files[p][fd]].refer > 0
<1>1. files \in Table /\ file \in [Fid -> File] /\ left \in [Fid -> Nat]
  BY DEF FilesInv, TypeInv
<1>2. files[p][fd] \in Fid
  BY <1>1 DEF Table
<1>3. file[files[p][fd]] \in File /\ file[files[p][fd]].refer \in Nat
  BY <1>1, <1>2 DEF File
<1>4. /\ Cardinality(Named(files, files[p][fd])) \in Nat
      /\ Cardinality(Named(files, files[p][fd])) > 0
  BY <1>1, NamedFinite
<1>5. file[files[p][fd]].refer = Cardinality(Named(files, files[p][fd])) + left[files[p][fd]]
  BY <1>2, CountFacts DEF FilesInv
<1> QED
  BY <1>1, <1>2, <1>3, <1>4, <1>5

\* The file_t's and nodes after close, also of the descriptor dup2 is about to use.
LEMMA ClosedFacts ==
    ASSUME FilesInv, NEW p \in Proc, NEW fd \in Fd, NEW F, F = Closed(p, fd)
    PROVE  /\ F \in [Fid -> File]
           /\ \A f \in Fid : F[f].refer = file[f].refer - Same(files[p][fd], f)
           /\ \A g \in Fid : F[g].refer = 0 => F[g].node = Root
           /\ \A g \in Fid : F[g].node # Root => F[g].node = file[g].node /\ file[g].refer > 0
           /\ \/ ClosedNodes(p, fd) = {}
              \/ /\ files[p][fd] # 0 /\ F[files[p][fd]].node = Root
                 /\ file[files[p][fd]].refer = 1 /\ file[files[p][fd]].node \in Path
                 /\ ClosedNodes(p, fd) = vfs_release(file[files[p][fd]].node)
<1> DEFINE c == files[p][fd]
<1>0. /\ file \in [Fid -> File] /\ Fid \subseteq Nat \ {0}
      /\ \A g \in Fid : file[g].refer \in Nat /\ (file[g].refer = 0 => file[g].node = Root)
  BY FiniteSlots DEF FilesInv, TypeInv, EmptyInv, File
<1>1. CASE c = 0
  <2>1. F = file /\ ClosedNodes(p, fd) = {}
    BY <1>1 DEF Closed, ClosedNodes
  <2>2. \A f \in Fid : Same(c, f) = 0
    BY <1>0, <1>1 DEF Same
  <2> QED
    BY <1>0, <2>1, <2>2
<1>2. CASE c # 0
  <2>1. c \in Fid /\ file[c] \in File /\ file[c].refer \in Nat /\ file[c].refer > 0
    BY <1>2, HeldFacts
  <2>2. F = [file EXCEPT ![c] = Unref(file[c])]
    BY <1>2 DEF Closed
  <2>3. ClosedNodes(p, fd) = IF file[c].refer = 1 /\ file[c].node \in Path
                             THEN vfs_release(file[c].node) ELSE {}
    BY <1>2 DEF ClosedNodes
  <2> HIDE DEF c
  <2>4. /\ Unref(file[c]) \in File /\ Unref(file[c]).refer = file[c].refer - 1
        /\ file[c].refer = 1 => Unref(file[c]).node = Root
        /\ file[c].refer # 1 => Unref(file[c]).node = file[c].node
    BY <2>1, UnrefFacts
  <2>5. F \in [Fid -> File] /\ \A f \in Fid : F[f] = IF f = c THEN Unref(file[c]) ELSE file[f]
    BY <1>0, <2>1, <2>2, <2>4
  <2>6. \A f \in Fid : F[f].refer = file[f].refer - Same(c, f)
    BY <1>0, <2>4, <2>5 DEF Same
  <2>7. \A g \in Fid : F[g].refer = 0 => F[g].node = Root
    BY <1>0, <2>1, <2>4, <2>5
  <2>8. \A g \in Fid : F[g].node # Root => F[g].node = file[g].node /\ file[g].refer > 0
    BY <1>0, <2>1, <2>4, <2>5
  <2>9. F[c].node = Root \/ file[c].refer # 1
    BY <2>1, <2>4, <2>5
  <2> QED
    BY <1>2, <2>3, <2>5, <2>6, <2>7, <2>8, <2>9 DEF c
<1> QED
  BY <1>1, <1>2

\* The invariant after a step, part by part.
LEMMA InvNext ==
    ASSUME run' \in SUBSET Proc, files' \in Table, file' \in [Fid -> File], pwd' \in [Proc -> Node],
           cache' \in SUBSET Path, left' \in [Fid -> Nat], shared' \in BOOLEAN, stale' \in BOOLEAN, fault' = "none",
           \A q \in Proc \ run' : \A x \in Fd : files'[q][x] = 0,
           \A f \in Fid : file'[f].refer = 0 => file'[f].node = Root,
           \A f \in Fid : file'[f].refer = Cardinality(Named(files', f)) + left'[f],
           SharedInv', GoneInv', \A y \in cache' : Up[y] # Root => Up[y] \in cache'
    PROVE  FilesInv'
<1>1. RefersCounted'
  BY CountFacts
<1> QED
  BY <1>1 DEF FilesInv, TypeInv, EmptyInv, FreedMeansSharing

\* The counts when one entry of a table is assigned.
LEMMA SetNext ==
    ASSUME files \in Table, NEW p \in Proc, NEW fd \in Fd, NEW g \in Fid \cup {0}, NEW f,
           files' = [files EXCEPT ![p][fd] = g]
    PROVE  /\ files' \in Table
           /\ Cardinality(Named(files, f)) \in Nat
           /\ Same(files[p][fd], f) \in Int /\ Same(g, f) \in Int
           /\ Cardinality(Named(files', f)) = Cardinality(Named(files, f)) - Same(files[p][fd], f) + Same(g, f)
<1>1. files' = Put(files, p, fd, g)
  BY DEF Put
<1>2. /\ Put(files, p, fd, g) \in Table
      /\ Cardinality(Named(Put(files, p, fd, g), f)) =
            Cardinality(Named(files, f)) - Same(files[p][fd], f) + Same(g, f)
  BY NamedSet
<1>3. Same(files[p][fd], f) \in Int /\ Same(g, f) \in Int
  BY DEF Same
<1> QED
  BY <1>1, <1>2, <1>3, NamedFinite

\* close
LEMMA CloseStep ==
    ASSUME FilesInv, NEW p \in Proc, NEW fd \in Fd, close(p, fd)
    PROVE  FilesInv'
<1>0. /\ run \in SUBSET Proc /\ files \in Table /\ left \in [Fid -> Nat] /\ p \in run /\ files[p][fd] # 0
      /\ EmptyInv /\ fault = "none" /\ run' = run /\ left' = left /\ fault' = fault /\ Note
      /\ stale \in BOOLEAN /\ stale' = stale
      /\ files' = [files EXCEPT ![p][fd] = 0]
      /\ Fid \subseteq Nat \ {0}
      /\ \A f \in Fid : file[f].refer = Cardinality(Named(files, f)) + left[f]
  BY FiniteSlots, CountFacts DEF FilesInv, TypeInv, close, Holds, Runs
<1> DEFINE F == Closed(p, fd)
<1>1. Release(F, ClosedNodes(p, fd))
  BY <1>0 DEF close, Closed
<1> HIDE DEF F
<1>2. /\ F \in [Fid -> File]
      /\ \A f \in Fid : F[f].refer = file[f].refer - Same(files[p][fd], f)
      /\ \A g \in Fid : F[g].refer = 0 => F[g].node = Root
      /\ \A g \in Fid : F[g].node # Root => F[g].node = file[g].node /\ file[g].refer > 0
      /\ \/ ClosedNodes(p, fd) = {}
         \/ /\ files[p][fd] # 0 /\ F[files[p][fd]].node = Root
            /\ file[files[p][fd]].refer = 1 /\ file[files[p][fd]].node \in Path
            /\ ClosedNodes(p, fd) = vfs_release(file[files[p][fd]].node)
  BY ClosedFacts DEF F
<1>3. files[p][fd] \in Fid /\ (file[files[p][fd]].refer = 1 => file[files[p][fd]].refer > 0)
  BY <1>0, HeldFacts
<1>4. /\ cache' \in SUBSET Path /\ pwd' \in [Proc -> Node] /\ file' \in [Fid -> File]
      /\ \A f \in Fid : file'[f].refer = F[f].refer
      /\ \A f \in Fid : file'[f].refer = 0 => file'[f].node = Root
      /\ SharedInv' /\ GoneInv' /\ shared' \in BOOLEAN /\ (shared => shared')
      /\ \A y \in cache' : Up[y] # Root => Up[y] \in cache'
  <2> DEFINE nodes == ClosedNodes(p, fd)
  <2>1. \/ nodes = {}
        \/ \E c \in Fid : /\ F[c].node = Root /\ file[c].refer > 0 /\ file[c].node \in Path
                          /\ nodes = vfs_release(file[c].node)
    BY <1>2, <1>3
  <2>2. Release(F, nodes)
    BY <1>1
  <2> HIDE DEF nodes
  <2> QED
    BY <1>0, <1>2, <2>1, <2>2, ReleaseStep
<1>5. ASSUME NEW f \in Fid
      PROVE  /\ Cardinality(Named(files', f)) = Cardinality(Named(files, f)) - Same(files[p][fd], f)
             /\ Same(files[p][fd], f) \in Int /\ Cardinality(Named(files, f)) \in Nat
  <2>1. Same(0, f) = 0
    BY <1>0 DEF Same
  <2>2. 0 \in Fid \cup {0}
    OBVIOUS
  <2>3. /\ Cardinality(Named(files', f)) = Cardinality(Named(files, f)) - Same(files[p][fd], f) + Same(0, f)
        /\ Same(files[p][fd], f) \in Int /\ Cardinality(Named(files, f)) \in Nat
    BY <1>0, <2>2, SetNext
  <2> QED
    BY <2>1, <2>3
<1>6. \A f \in Fid : file'[f].refer = Cardinality(Named(files', f)) + left'[f]
  <2> TAKE f \in Fid
  <2>1. /\ file'[f].refer = file[f].refer - Same(files[p][fd], f)
        /\ file[f].refer = Cardinality(Named(files, f)) + left[f] /\ left'[f] = left[f] /\ left[f] \in Nat
    BY <1>0, <1>2, <1>4
  <2> QED
    BY <1>5, <2>1
<1>7. files' \in Table /\ \A q \in Proc \ run' : \A x \in Fd : files'[q][x] = 0
  BY <1>0 DEF EmptyInv, Table
<1> QED
  BY <1>0, <1>4, <1>6, <1>7, InvNext

\* A descriptor names the file_t of another: dup2, and F_DUPFD, which may release any
\* node.
LEMMA DupStep ==
    ASSUME FilesInv, NEW p \in Proc, NEW old \in Fd, NEW new \in Fd, NEW nodes,
           Holds(p, old), Dup(p, old, new, nodes), stale' \in BOOLEAN, stale => stale',
           \/ nodes = ClosedNodes(p, new)
           \/ stale' /\ \E x \in Path : nodes = vfs_release(x)
    PROVE  FilesInv'
<1> DEFINE c == files[p][new]
           o == files[p][old]
           E == Closed(p, new)
           F == [E EXCEPT ![o].refer = @ + 1]
<1>0. /\ run \in SUBSET Proc /\ files \in Table /\ left \in [Fid -> Nat] /\ p \in run /\ o # 0
      /\ EmptyInv /\ fault = "none" /\ run' = run /\ left' = left /\ fault' = fault /\ Note
      /\ files' = [files EXCEPT ![p][new] = o]
      /\ Release(F, nodes)
      /\ \A f \in Fid : file[f].refer = Cardinality(Named(files, f)) + left[f]
  BY CountFacts DEF FilesInv, TypeInv, Dup, Holds, Runs
<1>1. /\ E \in [Fid -> File]
      /\ \A f \in Fid : E[f].refer = file[f].refer - Same(c, f)
      /\ \A g \in Fid : E[g].refer = 0 => E[g].node = Root
      /\ \A g \in Fid : E[g].node # Root => E[g].node = file[g].node /\ file[g].refer > 0
      /\ \/ nodes = {}
         \/ /\ c # 0 /\ E[c].node = Root
            /\ file[c].refer = 1 /\ file[c].node \in Path
            /\ nodes = vfs_release(file[c].node)
         \/ stale' /\ \E x \in Path : nodes = vfs_release(x)
  BY ClosedFacts
<1>2. o \in Fid /\ (c # 0 => c \in Fid)
  BY <1>0, HeldFacts
<1> HIDE DEF E
<1>3. /\ F \in [Fid -> File]
      /\ \A f \in Fid : F[f].node = E[f].node /\ E[f].refer \in Nat
      /\ \A f \in Fid : F[f].refer = E[f].refer + Same(o, f)
  <2>1. \A f \in Fid : E[f] \in File /\ E[f].refer \in Nat
    BY <1>1 DEF File
  <2>2. [E[o] EXCEPT !.refer = @ + 1] \in File
    BY <1>2, <2>1 DEF File
  <2>3. \A f \in Fid : F[f] = IF f = o THEN [E[o] EXCEPT !.refer = @ + 1] ELSE E[f]
    BY <1>1
  <2>4. F \in [Fid -> File]
    BY <1>1, <2>2
  <2>5. /\ [E[o] EXCEPT !.refer = @ + 1].refer = E[o].refer + 1
        /\ [E[o] EXCEPT !.refer = @ + 1].node = E[o].node
    BY <1>2, <2>1 DEF File
  <2> QED
    BY <2>1, <2>3, <2>4, <2>5 DEF Same
<1> HIDE DEF F, c, o
<1>4. \A g \in Fid : F[g].refer = 0 => F[g].node = Root
  BY <1>1, <1>3 DEF Same
<1>5. /\ cache' \in SUBSET Path /\ pwd' \in [Proc -> Node] /\ file' \in [Fid -> File]
      /\ \A f \in Fid : file'[f].refer = F[f].refer
      /\ \A f \in Fid : file'[f].refer = 0 => file'[f].node = Root
      /\ SharedInv' /\ GoneInv' /\ shared' \in BOOLEAN /\ (shared => shared')
      /\ \A y \in cache' : Up[y] # Root => Up[y] \in cache'
  <2>1. \/ nodes = {}
        \/ \E d \in Fid : /\ F[d].node = Root /\ file[d].refer > 0 /\ file[d].node \in Path
                          /\ nodes = vfs_release(file[d].node)
        \/ stale' /\ \E x \in Path : nodes = vfs_release(x)
    BY <1>1, <1>2, <1>3
  <2> QED
    BY <1>0, <1>1, <1>3, <1>4, <2>1, ReleaseStep
<1>6. ASSUME NEW f \in Fid
      PROVE  /\ files' \in Table /\ Cardinality(Named(files, f)) \in Nat
             /\ Same(c, f) \in Int /\ Same(o, f) \in Int
             /\ Cardinality(Named(files', f)) = Cardinality(Named(files, f)) - Same(c, f) + Same(o, f)
  <2>1. o \in Fid \cup {0}
    BY <1>2
  <2> QED
    BY <1>0, <2>1, SetNext DEF c
<1>7. \A f \in Fid : file'[f].refer = Cardinality(Named(files', f)) + left'[f]
  <2> TAKE f \in Fid
  <2>1. /\ file'[f].refer = file[f].refer - Same(c, f) + Same(o, f)
        /\ file[f].refer = Cardinality(Named(files, f)) + left[f] /\ left'[f] = left[f] /\ left[f] \in Nat
    BY <1>0, <1>1, <1>3, <1>5
  <2> QED
    BY <1>6, <2>1
<1>8. files' \in Table /\ \A q \in Proc \ run' : \A x \in Fd : files'[q][x] = 0
  BY <1>0, <1>2 DEF EmptyInv, Table
<1> QED
  BY <1>0, <1>5, <1>7, <1>8, InvNext

\* A step that releases nothing: no pointer to a released node is made.
LEMMA KeepStep ==
    ASSUME FilesInv, Note, stale' = stale,
           \A f \in Fid : file'[f].node = Gone => file[f].node = Gone,
           \A q \in run' : pwd'[q] = Gone => \E r \in run : pwd[r] = Gone
    PROVE  SharedInv' /\ GoneInv' /\ shared' \in BOOLEAN
<1>1. shared \in BOOLEAN /\ GoneInv
  BY DEF FilesInv, TypeInv
<1>2. SharedInv' /\ shared' \in BOOLEAN /\ (shared => shared')
  BY <1>1, NoteFacts
<1> QED
  BY <1>1, <1>2 DEF GoneInv

\* A file_t and a descriptor that are free.
LEMMA FreeFacts ==
    ASSUME FilesInv, NEW p \in Proc
    PROVE  /\ FreeFiles \subseteq Fid /\ FreeFiles \subseteq Nat
           /\ \A f \in FreeFiles : file[f].refer = 0
           /\ FreeFds(p, 0) \subseteq Fd /\ FreeFds(p, 0) \subseteq Nat
           /\ \A fd \in FreeFds(p, 0) : files[p][fd] = 0
           /\ IsFiniteSet(FreeFiles) /\ IsFiniteSet(FreeFds(p, 0))
<1>1. FreeFiles \in SUBSET Fid /\ FreeFds(p, 0) \in SUBSET Fd /\ Fid \subseteq Nat /\ Fd \subseteq Nat
  BY FilesAssumption DEF FreeFiles, FreeFds, Fid, Fd
<1>2. IsFiniteSet(Fid)
  BY FS_Interval, FilesAssumption DEF Fid
<1>3. IsFiniteSet(FreeFiles) /\ IsFiniteSet(FreeFds(p, 0))
  BY <1>1, <1>2, FiniteSlots, FS_Subset
<1> QED
  BY <1>1, <1>3 DEF FreeFiles, FreeFds

\* A free file_t that becomes one with a descriptor of a node.
LEMMA NewFile ==
    ASSUME NEW F \in [Fid -> File], NEW f \in Fid, F[f].refer = 0, NEW x \in Path \cup {Pipe}
    PROVE  LET G == [F EXCEPT ![f] = [refer |-> 1, node |-> x]] IN
           /\ G \in [Fid -> File]
           /\ \A g \in Fid : /\ G[g].refer = F[g].refer + Same(f, g)
                             /\ G[g].node = IF g = f THEN x ELSE F[g].node
<1> DEFINE e == [refer |-> 1, node |-> x]
           G == [F EXCEPT ![f] = e]
<1>1. e \in File /\ e.refer = 1 /\ e.node = x
  BY DEF File, Node
<1>2. \A g \in Fid : F[g] \in File /\ F[g].refer \in Nat
  BY DEF File
<1> HIDE DEF e
<1>3. G \in [Fid -> File] /\ \A g \in Fid : G[g] = IF g = f THEN e ELSE F[g]
  BY <1>1
<1> HIDE DEF G
<1>4. \A g \in Fid : /\ G[g].refer = F[g].refer + Same(f, g)
                     /\ G[g].node = IF g = f THEN x ELSE F[g].node
  BY <1>1, <1>2, <1>3 DEF Same
<1> QED
  BY <1>3, <1>4 DEF G, e

\* open
LEMMA OpenStep ==
    ASSUME FilesInv, NEW p \in Proc, NEW x \in Path, open(p, x)
    PROVE  FilesInv'
<1> DEFINE c == Least(FreeFiles)
           d == fd_get(p, 0)
<1>0. /\ run \in SUBSET Proc /\ files \in Table /\ left \in [Fid -> Nat] /\ p \in run
      /\ file \in [Fid -> File] /\ pwd \in [Proc -> Node] /\ cache \in SUBSET Path
      /\ stale \in BOOLEAN /\ stale' = stale
      /\ EmptyInv /\ fault' = "none" /\ run' = run /\ left' = left /\ pwd' = pwd /\ Note
      /\ vfs_open(x) /\ \A y \in cache : Up[y] # Root => Up[y] \in cache
      /\ files' = [files EXCEPT ![p][d] = c]
      /\ file' = [file EXCEPT ![c] = [refer |-> 1, node |-> x]]
      /\ \A f \in Fid : file[f].refer = Cardinality(Named(files, f)) + left[f]
  BY CountFacts DEF FilesInv, TypeInv, FreedMeansSharing, open, Runs
<1>1. c \in FreeFiles /\ d \in FreeFds(p, 0)
  BY FreeFacts, LeastIn DEF open, fd_get
<1> HIDE DEF c, d
<1>2. c \in Fid /\ file[c].refer = 0 /\ d \in Fd /\ files[p][d] = 0 /\ c \in Fid \cup {0}
  BY <1>1, FreeFacts
<1>3. /\ file' \in [Fid -> File]
      /\ \A g \in Fid : /\ file'[g].refer = file[g].refer + Same(c, g)
                        /\ file'[g].node = IF g = c THEN x ELSE file[g].node
  BY <1>0, <1>2, NewFile
<1>4. SharedInv' /\ GoneInv' /\ shared' \in BOOLEAN
  BY <1>0, <1>3, KeepStep, FilesAssumption
<1>5. cache' \in SUBSET Path /\ \A y \in cache' : Up[y] # Root => Up[y] \in cache'
  BY <1>0, OpenTree
<1>6. \A g \in Fid : file'[g].refer = 0 => file'[g].node = Root
  <2>1. \A g \in Fid : file[g].refer \in Nat
    BY <1>0 DEF File
  <2> QED
    BY <1>0, <1>3, <2>1 DEF EmptyInv, Same
<1>7. ASSUME NEW f \in Fid PROVE file'[f].refer = Cardinality(Named(files', f)) + left'[f]
  <2>1. Same(0, f) = 0
    BY FiniteSlots DEF Same
  <2>2. /\ Cardinality(Named(files, f)) \in Nat /\ Same(c, f) \in Int
        /\ Cardinality(Named(files', f)) = Cardinality(Named(files, f)) - Same(files[p][d], f) + Same(c, f)
    BY <1>0, <1>2, SetNext
  <2>3. /\ file'[f].refer = file[f].refer + Same(c, f) /\ left'[f] = left[f] /\ left[f] \in Nat
        /\ file[f].refer = Cardinality(Named(files, f)) + left[f]
    BY <1>0, <1>3
  <2> QED
    BY <1>2, <2>1, <2>2, <2>3
<1>8. files' \in Table /\ \A q \in Proc \ run' : \A y \in Fd : files'[q][y] = 0
  BY <1>0, <1>2 DEF EmptyInv, Table
<1> QED
  BY <1>0, <1>3, <1>4, <1>5, <1>6, <1>7, <1>8, InvNext

\* The least two of a set.
LEMMA LeastTwo ==
    ASSUME NEW S, IsFiniteSet(S), S \subseteq Nat, Cardinality(S) > 1
    PROVE  Least(S) \in S /\ Least(S \ {Least(S)}) \in S \ {Least(S)}
<1>1. Cardinality(S) \in Nat
  BY FS_CardinalityType
<1>2. S # {}
  BY FS_EmptySet
<1>3. ASSUME NEW x PROVE S \ {x} # {}
  <2>1. Cardinality(S \ {x}) = IF x \in S THEN Cardinality(S) - 1 ELSE Cardinality(S)
    BY FS_RemoveElement
  <2>2. Cardinality(S \ {x}) # 0
    BY <1>1, <2>1
  <2> QED
    BY <2>2, FS_EmptySet
<1>4. Least(S) \in S
  BY <1>2, LeastIn
<1> DEFINE T == S \ {Least(S)}
<1>5. T \subseteq Nat /\ T # {}
  BY <1>3
<1> HIDE DEF T
<1>6. Least(T) \in T
  BY <1>5, LeastIn
<1> QED
  BY <1>4, <1>6 DEF T

\* pipe
LEMMA PipeStep ==
    ASSUME FilesInv, NEW p \in Proc, pipe(p)
    PROVE  FilesInv'
<1> DEFINE c == Least(FreeFiles)
           g == Least(FreeFiles \ {c})
           r == fd_get(p, 0)
           w == Least(FreeFds(p, 0) \ {r})
           e == [refer |-> 1, node |-> Pipe]
           E == [file EXCEPT ![c] = e]
           T == Put(files, p, r, c)
<1>0. /\ run \in SUBSET Proc /\ files \in Table /\ left \in [Fid -> Nat] /\ p \in run
      /\ file \in [Fid -> File] /\ pwd \in [Proc -> Node] /\ cache \in SUBSET Path
      /\ stale \in BOOLEAN /\ stale' = stale
      /\ EmptyInv /\ fault' = "none" /\ run' = run /\ left' = left /\ pwd' = pwd /\ Note
      /\ cache' = cache /\ \A y \in cache : Up[y] # Root => Up[y] \in cache
      /\ files' = [files EXCEPT ![p][r] = c, ![p][w] = g]
      /\ file' = [file EXCEPT ![c] = e, ![g] = e]
      /\ \A f \in Fid : file[f].refer = Cardinality(Named(files, f)) + left[f]
  BY CountFacts DEF FilesInv, TypeInv, FreedMeansSharing, pipe, Runs
<1>1. c \in FreeFiles /\ g \in FreeFiles \ {c}
  <2>1. IsFiniteSet(FreeFiles) /\ FreeFiles \subseteq Nat /\ Cardinality(FreeFiles) > 1
    BY FreeFacts DEF pipe
  <2> QED
    BY <2>1, LeastTwo
<1>2. r \in FreeFds(p, 0) /\ w \in FreeFds(p, 0) \ {r}
  <2>1. IsFiniteSet(FreeFds(p, 0)) /\ FreeFds(p, 0) \subseteq Nat /\ Cardinality(FreeFds(p, 0)) > 1
    BY FreeFacts DEF pipe
  <2> QED
    BY <2>1, LeastTwo DEF fd_get
<1> HIDE DEF c, g, r, w
<1>3. /\ c \in Fid /\ g \in Fid /\ c # g /\ file[c].refer = 0 /\ file[g].refer = 0
      /\ r \in Fd /\ w \in Fd /\ r # w /\ files[p][r] = 0 /\ files[p][w] = 0
      /\ c \in Fid \cup {0} /\ g \in Fid \cup {0} /\ Pipe \in Path \cup {Pipe}
  BY <1>1, <1>2, FreeFacts
<1>4. /\ E \in [Fid -> File]
      /\ \A f \in Fid : /\ E[f].refer = file[f].refer + Same(c, f)
                        /\ E[f].node = IF f = c THEN Pipe ELSE file[f].node
  BY <1>0, <1>3, NewFile
<1>5. file' = [E EXCEPT ![g] = e]
  BY <1>0, <1>3
<1> HIDE DEF E
<1>6. /\ file' \in [Fid -> File]
      /\ \A f \in Fid : /\ file'[f].refer = E[f].refer + Same(g, f)
                        /\ file'[f].node = IF f = g THEN Pipe ELSE E[f].node
  <2>1. E[g].refer = 0
    BY <1>3, <1>4 DEF Same
  <2> QED
    BY <1>3, <1>4, <1>5, <2>1, NewFile
<1>7. SharedInv' /\ GoneInv' /\ shared' \in BOOLEAN
  BY <1>0, <1>4, <1>6, KeepStep, FilesAssumption
<1>8. \A f \in Fid : file'[f].refer = 0 => file'[f].node = Root
  <2>1. \A f \in Fid : file[f].refer \in Nat
    BY <1>0 DEF File
  <2> QED
    BY <1>0, <1>4, <1>6, <2>1 DEF EmptyInv, Same
<1>9. T \in Table /\ files' = Put(T, p, w, g) /\ T[p][w] = 0
  BY <1>0, <1>3 DEF Put, Table
<1>10. ASSUME NEW f \in Fid PROVE file'[f].refer = Cardinality(Named(files', f)) + left'[f]
  <2>1. Same(0, f) = 0 /\ Same(c, f) \in Int /\ Same(g, f) \in Int
    BY FiniteSlots DEF Same
  <2>2. Cardinality(Named(T, f)) = Cardinality(Named(files, f)) - Same(files[p][r], f) + Same(c, f)
    BY <1>0, <1>3, NamedSet
  <2> HIDE DEF T
  <2>3. Cardinality(Named(Put(T, p, w, g), f)) = Cardinality(Named(T, f)) - Same(T[p][w], f) + Same(g, f)
    BY <1>3, <1>9, NamedSet
  <2>4. Cardinality(Named(files, f)) \in Nat
    BY <1>0, NamedFinite
  <2>5. /\ file'[f].refer = file[f].refer + Same(c, f) + Same(g, f) /\ left'[f] = left[f]
        /\ left[f] \in Nat /\ file[f].refer = Cardinality(Named(files, f)) + left[f]
    BY <1>0, <1>4, <1>6
  <2>6. Cardinality(Named(files', f)) = Cardinality(Named(files, f)) + Same(c, f) + Same(g, f)
    BY <1>3, <1>9, <2>1, <2>2, <2>3, <2>4
  <2> QED
    BY <2>1, <2>4, <2>5, <2>6
<1>11. files' \in Table /\ \A q \in Proc \ run' : \A y \in Fd : files'[q][y] = 0
  BY <1>0, <1>3 DEF EmptyInv, Table
<1> QED
  BY <1>0, <1>6, <1>7, <1>8, <1>10, <1>11, InvNext

\* fork_fd: the new process names what the old one does, and every name is counted.
LEMMA ForkStep ==
    ASSUME FilesInv, NEW p \in Proc, NEW q \in Proc, fork_fd(p, q)
    PROVE  FilesInv'
<1>0. /\ run \in SUBSET Proc /\ files \in Table /\ left \in [Fid -> Nat] /\ p \in run /\ q \notin run
      /\ file \in [Fid -> File] /\ pwd \in [Proc -> Node] /\ cache \in SUBSET Path
      /\ stale \in BOOLEAN /\ stale' = stale
      /\ EmptyInv /\ fault' = "none" /\ run' = run \cup {q} /\ left' = left /\ Note
      /\ cache' = cache /\ \A y \in cache : Up[y] # Root => Up[y] \in cache
      /\ pwd' = [pwd EXCEPT ![q] = pwd[p]]
      /\ files' = [files EXCEPT ![q] = files[p]]
      /\ file' = [f \in Fid |-> [file[f] EXCEPT !.refer = @ + Count(p, f)]]
      /\ \A f \in Fid : file[f].refer = Cardinality(Named(files, f)) + left[f]
  BY CountFacts DEF FilesInv, TypeInv, FreedMeansSharing, fork_fd, Runs
<1>1. files' = PutRow(files, q, files[p]) /\ files[p] \in [Fd -> Fid \cup {0}]
  BY <1>0 DEF PutRow, Table
<1>2. ASSUME NEW f \in Fid
      PROVE  /\ files' \in Table /\ Count(p, f) \in Nat
             /\ Cardinality(Named(files', f)) = Cardinality(Named(files, f)) + Count(p, f)
  <2>1. RowNamed(files[q], f) = {}
    BY <1>0, FiniteSlots DEF RowNamed, EmptyInv
  <2>2. Count(p, f) = Cardinality(RowNamed(files[p], f))
    BY DEF Count, RowNamed
  <2>3. /\ PutRow(files, q, files[p]) \in Table
        /\ Cardinality(RowNamed(files[p], f)) \in Nat
        /\ Cardinality(Named(PutRow(files, q, files[p]), f)) =
             Cardinality(Named(files, f)) - Cardinality(RowNamed(files[q], f)) + Cardinality(RowNamed(files[p], f))
    BY <1>0, <1>1, NamedRow
  <2>4. Cardinality(Named(files, f)) \in Nat
    BY <1>0, NamedFinite
  <2> QED
    BY <1>1, <2>1, <2>2, <2>3, <2>4, FS_EmptySet
<1>3. ASSUME NEW f \in Fid
      PROVE  /\ file'[f] \in File /\ file[f].refer \in Nat
             /\ file'[f].refer = file[f].refer + Count(p, f) /\ file'[f].node = file[f].node
  <2>1. file[f] \in File /\ file'[f] = [file[f] EXCEPT !.refer = @ + Count(p, f)]
    BY <1>0
  <2>2. \A e \in File, n \in Nat :
            /\ [e EXCEPT !.refer = @ + n] \in File /\ e.refer \in Nat
            /\ [e EXCEPT !.refer = @ + n].refer = e.refer + n
            /\ [e EXCEPT !.refer = @ + n].node = e.node
    BY DEF File
  <2> QED
    BY <1>2, <2>1, <2>2
<1>4. file' \in [Fid -> File]
  BY <1>0, <1>3
<1>5. pwd' \in [Proc -> Node] /\ \A r \in run' : pwd'[r] = Gone => \E s \in run : pwd[s] = Gone
  BY <1>0
<1>6. SharedInv' /\ GoneInv' /\ shared' \in BOOLEAN
  BY <1>0, <1>3, <1>5, KeepStep
<1>7. \A f \in Fid : file'[f].refer = 0 => file'[f].node = Root
  <2> TAKE f \in Fid
  <2>1. /\ file[f].refer \in Nat /\ Count(p, f) \in Nat
        /\ file'[f].refer = file[f].refer + Count(p, f) /\ file'[f].node = file[f].node
    BY <1>2, <1>3
  <2>2. file[f].refer = 0 => file[f].node = Root
    BY <1>0 DEF EmptyInv
  <2> QED
    BY <2>1, <2>2
<1>8. ASSUME NEW f \in Fid PROVE file'[f].refer = Cardinality(Named(files', f)) + left'[f]
  <2>1. /\ Cardinality(Named(files, f)) \in Nat /\ left[f] \in Nat /\ left'[f] = left[f]
        /\ file[f].refer = Cardinality(Named(files, f)) + left[f]
    BY <1>0, NamedFinite
  <2>2. /\ Count(p, f) \in Nat /\ file'[f].refer = file[f].refer + Count(p, f)
        /\ Cardinality(Named(files', f)) = Cardinality(Named(files, f)) + Count(p, f)
    BY <1>2, <1>3
  <2> QED
    BY <2>1, <2>2
<1>9. files' \in Table /\ \A r \in Proc \ run' : \A y \in Fd : files'[r][y] = 0
  BY <1>0 DEF EmptyInv, Table
<1> QED
  BY <1>0, <1>4, <1>5, <1>6, <1>7, <1>8, <1>9, InvNext

\* task_exit: what the process named is left behind.
LEMMA ExitStep ==
    ASSUME FilesInv, NEW p \in Proc, Exit(p)
    PROVE  FilesInv'
<1> DEFINE zero == [fd \in Fd |-> 0]
<1>0. /\ run \in SUBSET Proc /\ files \in Table /\ left \in [Fid -> Nat] /\ p \in run
      /\ file \in [Fid -> File] /\ pwd \in [Proc -> Node] /\ cache \in SUBSET Path /\ shared \in BOOLEAN
      /\ stale \in BOOLEAN /\ stale' = stale
      /\ EmptyInv /\ SharedInv /\ GoneInv /\ fault' = "none" /\ run' = run \ {p}
      /\ UNCHANGED <<file, cache, shared>> /\ \A y \in cache : Up[y] # Root => Up[y] \in cache
      /\ pwd' = [pwd EXCEPT ![p] = Root]
      /\ files' = [files EXCEPT ![p] = zero]
      /\ left' = [f \in Fid |-> left[f] + Count(p, f)]
      /\ \A f \in Fid : file[f].refer = Cardinality(Named(files, f)) + left[f]
  BY CountFacts DEF FilesInv, TypeInv, FreedMeansSharing, Exit, Runs
<1>1. files' = PutRow(files, p, zero) /\ zero \in [Fd -> Fid \cup {0}]
  BY <1>0 DEF PutRow
<1>2. ASSUME NEW f \in Fid
      PROVE  /\ Count(p, f) \in Nat
             /\ Cardinality(Named(files', f)) = Cardinality(Named(files, f)) - Count(p, f)
  <2>1. RowNamed(zero, f) = {}
    BY FiniteSlots DEF RowNamed
  <2>2. Count(p, f) = Cardinality(RowNamed(files[p], f))
    BY DEF Count, RowNamed
  <2> HIDE DEF zero
  <2>3. /\ Cardinality(RowNamed(files[p], f)) \in Nat
        /\ Cardinality(Named(PutRow(files, p, zero), f)) =
             Cardinality(Named(files, f)) - Cardinality(RowNamed(files[p], f)) + Cardinality(RowNamed(zero, f))
    BY <1>0, <1>1, NamedRow
  <2>4. Cardinality(Named(files, f)) \in Nat
    BY <1>0, NamedFinite
  <2> QED
    BY <1>1, <2>1, <2>2, <2>3, <2>4, FS_EmptySet
<1>3. left' \in [Fid -> Nat]
  BY <1>0, <1>2
<1>4. \A f \in Fid : file'[f].refer = Cardinality(Named(files', f)) + left'[f]
  <2> TAKE f \in Fid
  <2>1. Cardinality(Named(files, f)) \in Nat /\ left[f] \in Nat /\ left'[f] = left[f] + Count(p, f)
    BY <1>0, NamedFinite
  <2>2. file'[f].refer = Cardinality(Named(files, f)) + left[f]
    BY <1>0
  <2> QED
    BY <1>2, <2>1, <2>2
<1>5. files' \in Table /\ \A r \in Proc \ run' : \A y \in Fd : files'[r][y] = 0
  BY <1>0 DEF EmptyInv, Table
<1>6. pwd' \in [Proc -> Node] /\ \A r \in run' : pwd'[r] = pwd[r] /\ r \in run
  BY <1>0 DEF Node
<1>7. SharedInv' /\ GoneInv'
  BY <1>0, <1>6 DEF SharedInv, GoneInv, OpenAbove
<1> HIDE DEF zero
<1>8. run' \in SUBSET Proc /\ \A f \in Fid : file'[f].refer = 0 => file'[f].node = Root
  BY <1>0 DEF EmptyInv
<1> QED
  BY <1>0, <1>3, <1>4, <1>5, <1>6, <1>7, <1>8, InvNext

\* stat and the like, and chdir
LEMMA LookStep ==
    ASSUME FilesInv, NEW p \in Proc, NEW x \in Path, Lookup(p, x) \/ chdir(p, x)
    PROVE  FilesInv'
<1>0. /\ run \in SUBSET Proc /\ files \in Table /\ left \in [Fid -> Nat] /\ p \in run
      /\ file \in [Fid -> File] /\ pwd \in [Proc -> Node] /\ cache \in SUBSET Path /\ shared \in BOOLEAN
      /\ stale \in BOOLEAN /\ stale' = stale
      /\ EmptyInv /\ SharedInv /\ GoneInv /\ fault' = "none" /\ UNCHANGED <<run, files, file, left>>
      /\ vfs_open(x) /\ \A y \in cache : Up[y] # Root => Up[y] \in cache
      /\ \A f \in Fid : file[f].refer = Cardinality(Named(files, f)) + left[f]
  BY CountFacts DEF FilesInv, TypeInv, FreedMeansSharing, Lookup, chdir, Runs
<1>1. cache' \in SUBSET Path /\ \A y \in cache' : Up[y] # Root => Up[y] \in cache'
  BY <1>0, OpenTree
<1>2. SharedInv' /\ GoneInv' /\ shared' \in BOOLEAN /\ pwd' \in [Proc -> Node]
  <2>1. CASE Lookup(p, x)
    BY <1>0, <2>1 DEF Lookup, SharedInv, GoneInv, OpenAbove
  <2>2. CASE chdir(p, x)
    <3>1. pwd' = [pwd EXCEPT ![p] = x] /\ Note
      BY <2>2 DEF chdir
    <3>2. pwd' \in [Proc -> Node] /\ \A q \in run' : pwd'[q] = Gone => \E s \in run : pwd[s] = Gone
      BY <1>0, <3>1, FilesAssumption DEF Node
    <3> QED
      BY <1>0, <3>1, <3>2, KeepStep
  <2> QED
    BY <2>1, <2>2
<1> QED
  BY <1>0, <1>1, <1>2, InvNext DEF EmptyInv

\* The kernel stops: on a released node only when something was shared or stale.
LEMMA FailStep ==
    ASSUME FilesInv, NEW p \in Proc,
           TableFull(p) \/ FromFreed(p) \/ (\E fd \in Fd : UseFreed(p, fd)) \/ Fail("table")
    PROVE  FilesInv'
<1>1. UNCHANGED <<run, files, file, pwd, cache, left, shared, stale>>
  BY DEF TableFull, FromFreed, UseFreed, Fail
<1>2. fault' \in {"table", "freed"} /\ (fault' = "freed" => shared \/ stale)
  <2>1. CASE TableFull(p) \/ Fail("table")
    BY <2>1 DEF TableFull, Fail
  <2>2. CASE FromFreed(p)
    BY <2>2 DEF FromFreed, Fail, Runs, FilesInv, GoneInv
  <2>3. CASE \E fd \in Fd : UseFreed(p, fd)
    <3>1. PICK fd \in Fd : UseFreed(p, fd)
      BY <2>3
    <3>2. files[p][fd] \in Fid /\ file[files[p][fd]].node = Gone /\ fault' = "freed"
      BY <3>1, HeldFacts DEF UseFreed, Holds, Fail
    <3> QED
      BY <3>2 DEF FilesInv, GoneInv
  <2> QED
    BY <2>1, <2>2, <2>3
<1> QED
  BY <1>1, <1>2 DEF FilesInv, TypeInv, EmptyInv, RefersCounted, SharedInv, OpenAbove, GoneInv,
                    FreedMeansSharing

\* F_DUPFD: the kernel stops, or a descriptor is added and at most any node released.
LEMMA DupfdStep ==
    ASSUME FilesInv, NEW p \in Proc, NEW old \in Fd, NEW min \in Fd, F_DUPFD(p, old, min)
    PROVE  FilesInv'
<1> DEFINE new == fd_get(p, min)
<1>1. CASE Fail("table")
  BY <1>1, FailStep
<1>2. CASE stale' = TRUE /\ fault' = "freed" /\ UNCHANGED <<run, files, file, pwd, cache, left, shared>>
  BY <1>2 DEF FilesInv, TypeInv, EmptyInv, RefersCounted, SharedInv, OpenAbove, GoneInv,
              FreedMeansSharing
<1>3. CASE /\ FreeFds(p, min) # {}
           /\ \/ dup2(p, old, new)
              \/ stale' = TRUE /\ \E x \in cache : Dup(p, old, new, vfs_release(x))
  <2>1. FreeFds(p, min) \subseteq Nat /\ FreeFds(p, min) \subseteq Fd
    BY FilesAssumption DEF FreeFds, Fd
  <2>2. new \in Fd /\ Holds(p, old) /\ stale \in BOOLEAN /\ cache \in SUBSET Path
    BY <1>3, <2>1, LeastIn DEF fd_get, F_DUPFD, FilesInv, TypeInv
  <2> HIDE DEF new
  <2>3. CASE dup2(p, old, new)
    BY <2>2, <2>3, DupStep DEF dup2
  <2>4. CASE stale' = TRUE /\ \E x \in cache : Dup(p, old, new, vfs_release(x))
    <3>1. PICK x \in cache : Dup(p, old, new, vfs_release(x))
      BY <2>4
    <3> DEFINE nodes == vfs_release(x)
    <3>2. Dup(p, old, new, nodes) /\ x \in Path /\ nodes = vfs_release(x)
      BY <2>2, <3>1
    <3> HIDE DEF nodes
    <3> QED
      BY <2>2, <2>4, <3>2, DupStep
  <2> QED
    BY <1>3, <2>3, <2>4
<1> QED
  BY <1>1, <1>2, <1>3 DEF F_DUPFD

-----------------------------------------------------------------------------
(* The theorems                                                              *)

\* The inductive invariant holds in every reachable state.
THEOREM FilesInvHolds == Spec => []FilesInv
<1>1. Init => FilesInv
  <2> SUFFICES ASSUME Init PROVE FilesInv
    OBVIOUS
  <2>1. TypeInv /\ EmptyInv
    BY FilesAssumption DEF Init, TypeInv, EmptyInv, Table, File, Freed, Node
  <2>2. RefersCounted
    <3>1. ASSUME NEW f \in Fid PROVE Named(files, f) = {}
      BY FiniteSlots DEF Init, Named, Slot
    <3>2. \A f \in Fid : file[f].refer = 0 /\ left[f] = 0
      BY DEF Init, Freed
    <3> QED
      BY <3>1, <3>2, FS_EmptySet, CountFacts
  <2>3. SharedInv /\ GoneInv /\ FreedMeansSharing
    BY FilesAssumption DEF Init, Freed, SharedInv, OpenAbove, GoneInv, FreedMeansSharing
  <2> QED
    BY <2>1, <2>2, <2>3 DEF FilesInv
<1>2. FilesInv /\ [Next]_vars => FilesInv'
  <2> SUFFICES ASSUME FilesInv, [Next]_vars PROVE FilesInv'
    OBVIOUS
  <2>1. CASE UNCHANGED vars
    BY <2>1 DEF vars, FilesInv, TypeInv, EmptyInv, RefersCounted, SharedInv, OpenAbove, GoneInv,
                FreedMeansSharing
  <2>2. ASSUME NEW p \in Proc, NEW old \in Fd, NEW new \in Fd, dup2(p, old, new) PROVE FilesInv'
    BY <2>2, DupStep DEF dup2, FilesInv, TypeInv
  <2>3. CASE Next
    BY <2>2, <2>3, OpenStep, LookStep, PipeStep, FailStep, ExitStep, CloseStep, DupfdStep, ForkStep DEF Next
  <2> QED
    BY <2>1, <2>3
<1> QED
  BY <1>1, <1>2, PTL DEF Spec

\* Over open, pipe, close, dup2, F_DUPFD, fork_fd and task_exit the refer of every
\* file_t is the number of descriptors that name it and of those ended processes left.
THEOREM RefersCountedHolds == Spec => []RefersCounted
<1>1. FilesInv => RefersCounted
  BY DEF FilesInv
<1> QED
  BY <1>1, FilesInvHolds, PTL

\* A node that was released is touched only after some file_t was open at or above what
\* another file_t or a working directory used, or after F_DUPFD had a file_t closed that
\* nobody had filled in; and a cached node is below a cached one.
THEOREM FreedMeansSharingHolds == Spec => []FreedMeansSharing
<1>1. FilesInv => FreedMeansSharing
  BY DEF FilesInv
<1> QED
  BY <1>1, FilesInvHolds, PTL
================================================================================
