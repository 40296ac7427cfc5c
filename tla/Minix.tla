--------------------------------- MODULE Minix ---------------------------------
(***************************************************************************)
(* The minix file system (fs/phy/minix.c) on the block buffers              *)
(* (dev/disk/buffer.c).  brelse writes a dirty buffer at once, so an         *)
(* operation is a sequence of disk writes, in program order, and the machine *)
(* may lose power between any two; memory is then gone and the disk is       *)
(* mounted again.  Operations run with interrupts masked, one at a time.     *)
(*                                                                         *)
(* The disk comes from mkfs: bits 0 and 1 of both maps are set (reserved,     *)
(* and the root directory), bits past the end too.  Only the root directory  *)
(* gets entries, and they fit into one block.  Files stay within the direct  *)
(* zones; sizes are counted in blocks.  A zone is named by its bit; the last  *)
(* bit, whose zone would be past the end, is left out, and so is mknod of    *)
(* the name of a directory, which adds a second entry that no lookup finds.   *)
(* remove has no caller.                                                    *)
(*                                                                         *)
(* mknod puts the device number into zone[0].  Its node has the driver's     *)
(* operations, but the inode read again after a mount has those of minix,    *)
(* for which the number is a block of the file, whoever that block belongs   *)
(* to.  A number is named by the bit of the zone it stands for; one above    *)
(* NZone is a block outside the files: a map, the inodes, the root directory. *)
(***************************************************************************)
EXTENDS Integers, Sequences, FiniteSets

CONSTANTS
    Name,      \* names in the root directory
    NIno,      \* inodes: bits 0..NIno of the inode map
    NZone,     \* zones: bits 0..NZone of the zone map
    DirCap,    \* entries a directory block has room for
    RDev,      \* device numbers; 0 leaves zone[0] unused
    MaxBlocks, \* zones of a file
    MaxCrash   \* bound on crashes

ASSUME MinixAssumption ==
    NIno \in Nat \ {0} /\ NZone \in Nat \ {0} /\ DirCap \in Nat /\ RDev \subseteq Nat
    /\ MaxBlocks \in 1..7 /\ MaxCrash \in Nat

VARIABLES
    imap, zmap,  \* on disk: the bits that are set
    dino,        \* on disk: the inode table
    dent,        \* on disk: the root directory, 0 for no entry
    data,        \* on disk: what each zone holds, <<inode, index>>
    node,        \* in memory: the minix_inode_t of every open file
    op,          \* the operation under way
    done,        \* blocks of each name that a returned write has put there
    crashes, fault,
    lost         \* a block outside the files was overwritten; not followed further

disk == <<imap, zmap, dino, dent, data>>
vars == <<imap, zmap, dino, dent, data, node, op, done, crashes, fault, lost>>

Ino == 1..NIno
\* zone[] of an inode: the device number unless it is 0, then the zones allocated for it
NewInode(k, r) == [kind |-> k, size |-> 0, dev |-> r, zone |-> <<>>]
ZeroInode == NewInode("zero", 0)
NoNode == NewInode("none", 0)
Base(v) == IF v.dev = 0 THEN 0 ELSE 1
Slots(v) == Base(v) + Len(v.zone)
Free == <<0, 0>>
Foreign == <<0, 1>>  \* written last through a device number
Idle == [at |-> "idle"]

Init ==
    /\ imap = {0, 1} /\ zmap = {0, 1}
    /\ dino = [i \in Ino |-> ZeroInode] /\ dent = [n \in Name |-> 0]
    /\ data = [z \in 0..NZone |-> Free]
    /\ node = [n \in Name |-> NoNode] /\ op = Idle /\ done = [n \in Name |-> 0]
    /\ crashes = 0 /\ fault = FALSE /\ lost = FALSE

Up(step) == ~fault /\ ~lost /\ op.at = step

\* bitmap_find: the lowest bit that is clear, or none
Clear(map, n) == 0..n \ map
Lowest(S) == CHOOSE b \in S : \A x \in S : b <= x

-----------------------------------------------------------------------------
(* open with O_CREAT, mkdir and mknod                                        *)

\* Bug: the map is not written
minix_ialloc_lost(n, k, r) ==
    /\ Up("idle") /\ dent[n] \notin Ino /\ Clear(imap, NIno) # {}
    /\ op' = [at |-> "entry", name |-> n, ino |-> Lowest(Clear(imap, NIno)) + 1, mi |-> NewInode(k, r)]
    /\ UNCHANGED <<imap, zmap, dino, dent, data, node, done, crashes, fault, lost>>

\* the inode of bit b is b + 1
minix_ialloc(n, k, r) ==
    /\ Up("idle") /\ dent[n] \notin Ino /\ Clear(imap, NIno) # {}
    /\ LET b == Lowest(Clear(imap, NIno)) IN
       /\ imap' = imap \cup {b}
       /\ op' = [at |-> "entry", name |-> n, ino |-> b + 1, mi |-> NewInode(k, r)]
    /\ UNCHANGED <<zmap, dino, dent, data, node, done, crashes, fault, lost>>

\* The first free entry of the block.  In a full one minix_eddir allocates a zone and
\* calls itself again, without end, since the size stays: the stack overflows.
\* minix_iget knows no inode NIno + 1, which minix_ialloc can return: NULL is written to.
minix_eddir ==
    /\ Up("entry")
    /\ IF Cardinality({n \in Name : dent[n] # 0}) = DirCap
       THEN /\ \E z \in 0..NZone : zmap' = zmap \cup 0..z
            /\ fault' = TRUE /\ UNCHANGED <<dent, op>>
       ELSE /\ dent' = [dent EXCEPT ![op.name] = op.ino]
            /\ op' = [op EXCEPT !.at = IF op.mi.kind = "dir" THEN "setupdir" ELSE "isync"]
            /\ fault' = (op.ino > NIno) /\ UNCHANGED zmap
    /\ UNCHANGED <<imap, dino, data, node, done, crashes, lost>>

\* minix_setupdir up to its zalloc.  Without a zone minix_ifree clears bit ino of the
\* inode map, which is not the bit that was set, and the entry stays.
minix_setupdir ==
    /\ Up("setupdir")
    /\ IF Clear(zmap, NZone) = {}
       THEN imap' = imap \ {op.ino} /\ op' = Idle /\ UNCHANGED zmap
       ELSE LET z == Lowest(Clear(zmap, NZone)) IN
            /\ zmap' = zmap \cup {z}
            /\ op' = [op EXCEPT !.at = "dots", !.mi.zone = <<z>>, !.mi.size = 1]
            /\ UNCHANGED imap
    /\ UNCHANGED <<dino, dent, data, node, done, crashes, fault, lost>>

WriteDots ==
    /\ Up("dots")
    /\ data' = [data EXCEPT ![op.mi.zone[1]] = <<op.ino, 1>>]
    /\ op' = [op EXCEPT !.at = "isync"]
    /\ UNCHANGED <<imap, zmap, dino, dent, node, done, crashes, fault, lost>>

\* minix_isync at the end of open and mknod; the node is registered, and vfs_mknod
\* gives a device's the operations of the driver
CreateDone ==
    /\ Up("isync")
    /\ dino' = [dino EXCEPT ![op.ino] = op.mi]
    /\ node' = [node EXCEPT ![op.name] = IF op.mi.kind = "dev" THEN [op.mi EXCEPT !.kind = "drv"] ELSE op.mi]
    /\ op' = Idle
    /\ UNCHANGED <<imap, zmap, dent, data, done, crashes, fault, lost>>

\* open of what exists: minix_lookup and minix_iget
minix_open(n) ==
    /\ Up("idle") /\ dent[n] \in Ino /\ node[n] = NoNode
    /\ node' = [node EXCEPT ![n] = dino[dent[n]]]
    /\ UNCHANGED <<imap, zmap, dino, dent, data, op, done, crashes, fault, lost>>

-----------------------------------------------------------------------------
(* minix_write, blocks from..to of an open file                               *)

\* Nodes with the operations of minix: write and truncate ask for no kind.
Writable(v) == v.kind \notin {"none", "drv"}

minix_write(n, from, to) ==
    /\ Up("idle") /\ Writable(node[n]) /\ from <= to
    /\ op' = [at |-> "block", name |-> n, idx |-> from, to |-> to]
    /\ UNCHANGED <<disk, node, done, crashes, fault, lost>>

\* minix_zext fills the first unused slot, whichever block is meant, and counts a
\* failed zalloc as a success; minix_zget then finds no zone and NULL is written to
minix_zext ==
    /\ Up("block") /\ op.idx > Slots(node[op.name])
    /\ IF Clear(zmap, NZone) = {} \/ op.idx > Slots(node[op.name]) + 1
       THEN fault' = TRUE /\ UNCHANGED <<zmap, node>>
       ELSE LET z == Lowest(Clear(zmap, NZone)) IN
            /\ zmap' = zmap \cup {z}
            /\ node' = [node EXCEPT ![op.name].zone = Append(@, z)]
            /\ UNCHANGED fault
    /\ UNCHANGED <<imap, dino, dent, data, op, done, crashes, lost>>

Advance == IF op.idx < op.to THEN [op EXCEPT !.idx = @ + 1] ELSE [op EXCEPT !.at = "size"]

WriteBlock ==
    /\ Up("block") /\ op.idx <= Slots(node[op.name])
    /\ LET v == node[op.name] IN
       /\ op.idx > Base(v)
       /\ data' = [data EXCEPT ![v.zone[op.idx - Base(v)]] = <<dent[op.name], op.idx>>]
    /\ op' = Advance
    /\ UNCHANGED <<imap, zmap, dino, dent, node, done, crashes, fault, lost>>

\* the same for a block 0 that zone[0] does not have: it goes where the number points
WriteForeign ==
    /\ Up("block") /\ op.idx <= Base(node[op.name])
    /\ LET r == node[op.name].dev IN
       /\ data' = IF r <= NZone THEN [data EXCEPT ![r] = Foreign] ELSE data
       /\ lost' = (r > NZone)
    /\ op' = Advance
    /\ UNCHANGED <<imap, zmap, dino, dent, node, done, crashes, fault>>

\* Bug: a write that ends at the old size is taken for one that does not reach it
WriteDoneNoSync ==
    /\ Up("size")
    /\ node' = [node EXCEPT ![op.name].size = IF op.to > @ THEN op.to ELSE @]
    /\ done' = [done EXCEPT ![op.name] = IF op.to > @ THEN op.to ELSE @]
    /\ dino' = IF op.to > node[op.name].size + 1 THEN [dino EXCEPT ![dent[op.name]] = node'[op.name]] ELSE dino
    /\ op' = Idle
    /\ UNCHANGED <<imap, zmap, dent, data, crashes, fault, lost>>

\* the inode is written when the file has grown
WriteDone ==
    /\ Up("size")
    /\ node' = [node EXCEPT ![op.name].size = IF op.to > @ THEN op.to ELSE @]
    /\ done' = [done EXCEPT ![op.name] = IF op.to > @ THEN op.to ELSE @]
    /\ dino' = IF op.to > node[op.name].size THEN [dino EXCEPT ![dent[op.name]] = node'[op.name]] ELSE dino
    /\ op' = Idle
    /\ UNCHANGED <<imap, zmap, dent, data, crashes, fault, lost>>

\* open with O_TRUNC: minix_truncate divides by the new length
minix_truncate(n) ==
    /\ Up("idle") /\ Writable(node[n])
    /\ fault' = TRUE
    /\ UNCHANGED <<disk, node, op, done, crashes, lost>>

\* power is lost, or somebody resets a kernel that has halted
Crash ==
    /\ ~lost /\ crashes < MaxCrash /\ crashes' = crashes + 1
    /\ node' = [n \in Name |-> NoNode] /\ op' = Idle /\ fault' = FALSE
    /\ UNCHANGED <<disk, done, lost>>

Next ==
    \/ \E n \in Name : \/ \E k \in {"reg", "dir"} : minix_ialloc(n, k, 0)
                       \/ \E r \in RDev : minix_ialloc(n, "dev", r)
                       \/ minix_open(n) \/ minix_truncate(n)
                       \/ \E from, to \in 1..MaxBlocks : minix_write(n, from, to)
    \/ minix_eddir \/ minix_setupdir \/ WriteDots \/ CreateDone
    \/ minix_zext \/ WriteBlock \/ WriteForeign \/ WriteDone \/ Crash

Spec == Init /\ [][Next]_vars

-----------------------------------------------------------------------------

\* the inodes in use, on disk and as their open files have them
Views(n) == {v \in {dino[dent[n]], node[n]} : v # NoNode}
Zones(v) == {v.zone[i] : i \in DOMAIN v.zone}
Named == {n \in Name : dent[n] \in Ino}

\* Whenever power is lost (minix_ialloc, minix_zalloc, minix_eddir, minix_isync write
\* in the right order): no inode has two names, its bit is set, the zones allocated for
\* a file are marked as used, each is there once, and no two files share one.  What a
\* device number points to is not allocated, and after a write outside the files
\* (minix_write of a device's inode, mounted again) nothing is said.
OwnedOnce == ~lost =>
    /\ \A n \in Named : dent[n] - 1 \in imap
    /\ \A n, m \in Named : n # m => dent[n] # dent[m]
    /\ \A n \in Named : \A v \in Views(n) :
          /\ Zones(v) \subseteq zmap
          /\ \A i, j \in DOMAIN v.zone : v.zone[i] = v.zone[j] => i = j
    /\ \A n, m \in Named : n # m => \A v \in Views(n), w \in Views(m) : Zones(v) \cap Zones(w) = {}

\* What a write that returned has written survives every later crash and every
\* other operation: name, inode, zones and blocks on the disk lead to it.  The one
\* exception is a write through the number of a device whose inode was mounted again
\* (minix_mknod leaves it in zone[0]): the block it points to is lost to its file, and
\* nothing is said when that block is outside the files.
Durable == ~lost =>
    \A n \in Name : done[n] > 0 =>
        /\ dent[n] # 0 /\ dino[dent[n]].size >= done[n]
        /\ \A i \in 1..done[n] :
              LET d == dino[dent[n]] IN
              /\ i <= Slots(d)
              /\ i > Base(d) => data[d.zone[i - Base(d)]] \in {<<dent[n], i>>, Foreign}

================================================================================
