--------------------------------- MODULE Files ---------------------------------
(***************************************************************************)
(* Descriptors, file_t's and cached nodes: file.c, fork_fd of task.c and     *)
(* fs/vrt.c over a file system whose close releases the node (FAT32,        *)
(* procfs).  A file_t counts the descriptors that name it, over dup2 and     *)
(* fork; a node counts nothing, although every open of its path, every      *)
(* working directory and every node below it use the same one.              *)
(*                                                                         *)
(* A node is named by its path while it is in the cache; every pointer to a  *)
(* node that is released becomes Gone.  System calls run with interrupts     *)
(* masked, so each is a step.  Contents and offsets are left out.            *)
(***************************************************************************)
EXTENDS Integers, FiniteSets

CONSTANTS
    Proc, Boot,   \* processes, and the one that runs at first
    Path, Up,     \* paths below the root, and the directory each is in
    Root, Pipe, Gone,
    MAX_FILE,     \* descriptors of a process
    NFile,        \* bound on file_t's at a time
    MaxLeft       \* bound on the descriptors ended processes leave behind

ASSUME FilesAssumption ==
    /\ IsFiniteSet(Proc) /\ Boot \in Proc
    /\ {Root, Pipe, Gone} \cap Path = {} /\ Root # Pipe /\ Root # Gone /\ Pipe # Gone
    /\ Up \in [Path -> Path \cup {Root}]
    /\ MAX_FILE \in Nat \ {0} /\ NFile \in Nat /\ MaxLeft \in Nat

VARIABLES
    run,     \* processes that run
    files,   \* the table of each: a file_t or 0
    file,    \* refer and node of each file_t, refer 0 when it is freed
    pwd,
    cache,   \* paths that have a node
    left,    \* descriptors of each file_t that ended processes did not close
    shared,  \* some open file_t was at or above what another user had
    stale,   \* F_DUPFD had a file_t closed that nobody had filled in
    fault    \* what stopped the kernel

vars == <<run, files, file, pwd, cache, left, shared, stale, fault>>

Fd == 0..(MAX_FILE - 1)
Fid == 1..NFile
Dirs == {Up[x] : x \in Path} \ {Root}
Freed == [refer |-> 0, node |-> Root]

Init ==
    /\ run = {Boot} /\ files = [p \in Proc |-> [fd \in Fd |-> 0]]
    /\ file = [f \in Fid |-> Freed] /\ pwd = [p \in Proc |-> Root] /\ cache = {}
    /\ left = [f \in Fid |-> 0] /\ shared = FALSE /\ stale = FALSE /\ fault = "none"

Runs(p) == fault = "none" /\ p \in run
Holds(p, fd) == Runs(p) /\ files[p][fd] # 0

-----------------------------------------------------------------------------
(* Nodes                                                                     *)

\* sets of paths that hold the directory of each of their paths
UpClosed == {S \in SUBSET Path : \A z \in S : Up[z] # Root => Up[z] \in S}

\* x and the directories above it: the least such set that has x
Above(x) == {y \in Path : \A S \in UpClosed : x \in S => y \in S}

\* vfs_walkd and _vfs_open: what is not in the cache is read into it
vfs_open(x) == cache' = cache \cup Above(x)

\* vfs_release: a directory takes its cached children along
vfs_release(x) == {y \in cache : x \in Above(y)}

\* who uses nodes after the step: file_t's and working directories
Users == {<<"file", f>> : f \in {f \in Fid : file'[f].refer > 0}} \cup {<<"pwd", p>> : p \in run'}
NodeOf(u) == IF u[1] = "file" THEN file'[u[2]].node ELSE pwd'[u[2]]
Note ==
    shared' = (shared \/ \E u, v \in Users :
        /\ u # v /\ u[1] = "file" /\ {NodeOf(u), NodeOf(v)} \subseteq Path
        /\ NodeOf(u) \in Above(NodeOf(v)))

Fail(why) == fault' = why /\ UNCHANGED <<run, files, file, pwd, cache, left, shared, stale>>

\* a path is looked up from a working directory that has been released
FromFreed(p) == Runs(p) /\ pwd[p] = Gone /\ Fail("freed")

\* stat, mkdir of what exists, open with the wrong flags: nothing is opened, the
\* nodes stay in the cache
Lookup(p, x) ==
    /\ Runs(p) /\ vfs_open(x)
    /\ UNCHANGED <<run, files, file, pwd, left, shared, stale, fault>>

chdir(p, x) ==
    /\ Runs(p) /\ x \in Dirs /\ vfs_open(x)
    /\ pwd' = [pwd EXCEPT ![p] = x]
    /\ UNCHANGED <<run, files, file, left, stale, fault>> /\ Note

-----------------------------------------------------------------------------
(* Descriptors                                                               *)

Least(S) == CHOOSE x \in S : \A y \in S : x <= y
FreeFds(p, min) == {fd \in Fd : fd >= min /\ files[p][fd] = 0}
FreeFiles == {f \in Fid : file[f].refer = 0}
fd_get(p, min) == Least(FreeFds(p, min))

open(p, x) ==
    /\ Runs(p) /\ FreeFds(p, 0) # {} /\ FreeFiles # {} /\ vfs_open(x)
    /\ LET f == Least(FreeFiles) IN
       /\ file' = [file EXCEPT ![f] = [refer |-> 1, node |-> x]]
       /\ files' = [files EXCEPT ![p][fd_get(p, 0)] = f]
    /\ UNCHANGED <<run, pwd, left, stale, fault>> /\ Note

pipe(p) ==
    /\ Runs(p) /\ Cardinality(FreeFds(p, 0)) > 1 /\ Cardinality(FreeFiles) > 1
    /\ LET f == Least(FreeFiles)  g == Least(FreeFiles \ {f})
           r == fd_get(p, 0)      w == Least(FreeFds(p, 0) \ {r}) IN
       /\ file' = [file EXCEPT ![f] = [refer |-> 1, node |-> Pipe], ![g] = [refer |-> 1, node |-> Pipe]]
       /\ files' = [files EXCEPT ![p][r] = f, ![p][w] = g]
    /\ UNCHANGED <<run, pwd, cache, left, stale, fault>> /\ Note

\* file_get takes what fd_get returns for an index: when open or pipe finds no
\* free descriptor it writes in front of the table
TableFull(p) == Runs(p) /\ Cardinality(FreeFds(p, 0)) < 2 /\ Fail("table")

\* Bug: the node is closed with every descriptor
ClosedNodesAlways(p, fd) ==
    LET f == files[p][fd] IN
    IF f # 0 /\ file[f].node \in Path THEN vfs_release(file[f].node) ELSE {}

\* the last descriptor closes the node, and fat32_close releases it
ClosedNodes(p, fd) ==
    LET f == files[p][fd] IN
    IF f # 0 /\ file[f].refer = 1 /\ file[f].node \in Path THEN vfs_release(file[f].node) ELSE {}

\* --refer, and free of the file_t
Unref(r) == IF r.refer = 1 THEN Freed ELSE [r EXCEPT !.refer = @ - 1]
Dangle(r, nodes) == IF r.node \in nodes THEN [r EXCEPT !.node = Gone] ELSE r

\* the cache and the pointers into it once nodes are released
Release(F, nodes) ==
    /\ cache' = cache \ nodes
    /\ pwd' = [q \in Proc |-> IF pwd[q] \in nodes THEN Gone ELSE pwd[q]]
    /\ file' = [f \in Fid |-> Dangle(F[f], nodes)]

\* would close call the operations of a node that is gone?
ClosesFreed(p, fd) ==
    LET f == files[p][fd] IN f # 0 /\ file[f].refer = 1 /\ file[f].node = Gone

close(p, fd) ==
    /\ Holds(p, fd) /\ ~ClosesFreed(p, fd)
    /\ files' = [files EXCEPT ![p][fd] = 0]
    /\ Release([file EXCEPT ![files[p][fd]] = Unref(@)], ClosedNodes(p, fd))
    /\ UNCHANGED <<run, left, stale, fault>> /\ Note

\* the file_t's once new has been closed
Closed(p, new) == IF files[p][new] = 0 THEN file ELSE [file EXCEPT ![files[p][new]] = Unref(@)]

\* Bug: the new descriptor is not counted
DupNoRefer(p, old, new, nodes) ==
    /\ files' = [files EXCEPT ![p][new] = files[p][old]]
    /\ Release(Closed(p, new), nodes)
    /\ UNCHANGED <<run, left, fault>> /\ Note

\* new is closed, which releases nodes, and names the file_t of old
Dup(p, old, new, nodes) ==
    /\ files' = [files EXCEPT ![p][new] = files[p][old]]
    /\ Release([Closed(p, new) EXCEPT ![files[p][old]].refer = @ + 1], nodes)
    /\ UNCHANGED <<run, left, fault>> /\ Note

\* dup2, and dup, which takes the least free descriptor
dup2(p, old, new) ==
    /\ Holds(p, old) /\ old # new /\ ~ClosesFreed(p, new)
    /\ Dup(p, old, new, ClosedNodes(p, new)) /\ UNCHANGED stale

\* F_DUPFD puts a file_t that nobody has filled in into the table, and dup2 closes it.
\* Whatever was in that memory: its refer is large and nothing else happens, its node
\* is garbage or one that was released, or the node is one that is cached (again) and
\* is released under whoever uses it.  Without a free descriptor from min on, file_get
\* writes in front of the table.
F_DUPFD(p, old, min) ==
    LET new == fd_get(p, min) IN
    /\ Holds(p, old)
    /\ \/ FreeFds(p, min) = {} /\ Fail("table")
       \/ FreeFds(p, min) # {} /\ dup2(p, old, new)
       \/ /\ FreeFds(p, min) # {} /\ stale' = TRUE
          /\ \/ fault' = "freed" /\ UNCHANGED <<run, files, file, pwd, cache, left, shared>>
             \/ \E x \in cache : Dup(p, old, new, vfs_release(x))

\* read, write, lseek, ioctl and the last close, of a node that is gone
UseFreed(p, fd) == Holds(p, fd) /\ file[files[p][fd]].node = Gone /\ Fail("freed")

-----------------------------------------------------------------------------
(* Processes                                                                 *)

Count(p, f) == Cardinality({fd \in Fd : files[p][fd] = f})

fork_fd(p, q) ==
    /\ Runs(p) /\ q \notin run /\ run' = run \cup {q}
    /\ files' = [files EXCEPT ![q] = files[p]]
    /\ file' = [f \in Fid |-> [file[f] EXCEPT !.refer = @ + Count(p, f)]]
    /\ pwd' = [pwd EXCEPT ![q] = pwd[p]]
    /\ UNCHANGED <<cache, left, stale, fault>> /\ Note

\* task_exit and the wait that frees the task close nothing
Exit(p) ==
    /\ Runs(p) /\ p # Boot /\ run' = run \ {p}
    /\ files' = [files EXCEPT ![p] = [fd \in Fd |-> 0]]
    /\ left' = [f \in Fid |-> left[f] + Count(p, f)] /\ \A f \in Fid : left'[f] <= MaxLeft
    /\ pwd' = [pwd EXCEPT ![p] = Root]
    /\ UNCHANGED <<file, cache, shared, stale, fault>>

Next ==
    \E p \in Proc :
        \/ \E x \in Path : open(p, x) \/ Lookup(p, x) \/ chdir(p, x)
        \/ pipe(p) \/ TableFull(p) \/ FromFreed(p) \/ Exit(p)
        \/ \E fd \in Fd : close(p, fd) \/ UseFreed(p, fd)
        \/ \E old, new \in Fd : dup2(p, old, new) \/ F_DUPFD(p, old, new)
        \/ \E q \in Proc : fork_fd(p, q)

Spec == Init /\ [][Next]_vars

-----------------------------------------------------------------------------

\* Reference counts (open, close, dup2, fork_fd, task_exit): a file_t that a table
\* names has not been freed, and refer counts the descriptors that name it and those
\* of ended processes, which nobody gives back; so close frees with the last one.
RefersCounted ==
    \A f \in Fid : file[f].refer =
        Cardinality({d \in Proc \X Fd : files[d[1]][d[2]] = f}) + left[f]

\* Nodes have no count (vfs_release, fat32_close): the kernel touches a node that was
\* released only if some time a file_t was open at or above a place that another
\* file_t or a working directory used, or F_DUPFD had a file_t closed that nobody had
\* filled in.  And the cache stays a tree: a node is cached only below a cached one.
FreedMeansSharing ==
    /\ fault = "freed" => shared \/ stale
    /\ \A x \in cache : Up[x] # Root => Up[x] \in cache

================================================================================
