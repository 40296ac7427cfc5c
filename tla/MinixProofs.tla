------------------------------ MODULE MinixProofs ------------------------------
(***************************************************************************)
(* Proofs about Minix: its two properties hold for any number of names,       *)
(* inodes, zones and crashes.                                                *)
(*                                                                         *)
(* The inductive invariant Inv says which bits, entries, inodes and zones    *)
(* belong together at every point between two disk writes.                  *)
(***************************************************************************)
EXTENDS Minix, SequenceTheorems, WellFoundedInduction, TLAPS

Inode == [kind : {"reg", "dir", "dev", "drv", "zero", "none"}, size : Nat, dev : Nat, zone : Seq(0..NZone)]
CreateOp == [at : {"entry", "setupdir", "dots", "isync"}, name : Name, ino : 1..(NIno + 1), mi : Inode]
WriteOp == [at : {"block", "size"}, name : Name, idx : 1..MaxBlocks, to : 1..MaxBlocks]

TypeInv ==
    /\ imap \in SUBSET (0..NIno) /\ zmap \in SUBSET (0..NZone)
    /\ dino \in [Ino -> Inode] /\ dent \in [Name -> 0..(NIno + 1)]
    /\ data \in [0..NZone -> Nat \X Nat]
    /\ node \in [Name -> Inode] /\ op \in {Idle} \cup CreateOp \cup WriteOp
    /\ done \in [Name -> Nat] /\ fault \in BOOLEAN

\* Bits of the inode map are set from the left; the bit after the inode that is being
\* created, which minix_ifree would clear, is clear.
BitInv ==
    /\ \A b \in imap : \A c \in 0..b : c \in imap
    /\ \A n \in Name : dent[n] # 0 => dent[n] - 1 \in imap
    /\ op \in CreateOp => op.ino - 1 \in imap /\ op.ino \notin imap

\* Entries and inodes: one name each, and an inode without a name is empty.
NameInv ==
    /\ \A n, m \in Name : dent[n] # 0 /\ dent[n] = dent[m] => n = m
    /\ \A n \in Name : node[n] # NoNode => dent[n] \in Ino
    /\ \A i \in Ino : (\A n \in Name : dent[n] # i) => dino[i] = ZeroInode
    /\ op \in CreateOp => node[op.name] = NoNode
    /\ op \in CreateOp /\ op.at = "entry" => dent[op.name] \notin Ino /\ \A m \in Name : dent[m] # op.ino
    /\ op \in CreateOp /\ op.at # "entry" =>
         dent[op.name] = op.ino /\ (~fault => op.ino \in Ino /\ dino[op.ino] = ZeroInode)

Held(Z, s) == \A k \in DOMAIN s : s[k] \in Z /\ \A l \in DOMAIN s : s[k] = s[l] => k = l
Apart(s, t) == \A k \in DOMAIN s : \A l \in DOMAIN t : s[k] # t[l]

\* Zones: marked as used, and in one file only.
ZoneInv ==
    /\ \A i \in Ino : Held(zmap, dino[i].zone)
    /\ \A n \in Name : Held(zmap, node[n].zone)
    /\ \A i, j \in Ino : i # j => Apart(dino[i].zone, dino[j].zone)
    /\ \A n \in Name : \A j \in Ino : dent[n] # j => Apart(node[n].zone, dino[j].zone)
    /\ \A n, m \in Name : n # m => Apart(node[n].zone, node[m].zone)
    /\ op \in CreateOp => /\ Held(zmap, op.mi.zone)
                          /\ \A i \in Ino : Apart(op.mi.zone, dino[i].zone)
                          /\ \A n \in Name : Apart(op.mi.zone, node[n].zone)

Writes(n) == op \in WriteOp /\ op.name = n
Pending(n, k) == Writes(n) /\ op.at = "block" /\ op.idx = k
Larger(x, y) == IF x > y THEN x ELSE y

\* How many slots of zone[] an inode of this size uses, and what the kth allocated zone
\* of inode i may hold
Want(v) == Larger(v.size, Base(v))
Block(i, v, k) == {<<i, Base(v) + k>>, Foreign}

\* The inode of a file being created
NewInv ==
    op \in CreateOp =>
        /\ op.mi.kind \in {"reg", "dir", "dev"}
        /\ op.mi.kind # "dir" => op.mi.size = 0 /\ op.mi.zone = <<>>
        /\ op.mi.kind = "dir" => op.mi.dev = 0
        /\ op.at \in {"setupdir", "dots"} => op.mi.kind = "dir"
        /\ op.at = "dots" => op.mi.size = 1 /\ op.mi.zone # <<>> /\ Len(op.mi.zone) = 1
        /\ op.at = "isync" => /\ Slots(op.mi) = Want(op.mi)
                             /\ \A k \in DOMAIN op.mi.zone : data[op.mi.zone[k]] \in Block(op.ino, op.mi, k)

\* On the disk: every zone of a file has the block it should have, or what was written
\* through a device number.
DiskInv ==
    \A i \in Ino :
        /\ Slots(dino[i]) = Want(dino[i])
        /\ \A k \in DOMAIN dino[i].zone : data[dino[i].zone[k]] \in Block(i, dino[i], k)

\* In memory: an open file has the zones of its inode and those the write under way has
\* added, and only the block about to be written may still hold something else.
OpenInv ==
    /\ \A n \in Name : node[n] # NoNode =>
         /\ node[n].dev = dino[dent[n]].dev
         /\ Len(dino[dent[n]].zone) <= Len(node[n].zone)
         /\ \A k \in DOMAIN dino[dent[n]].zone : node[n].zone[k] = dino[dent[n]].zone[k]
    /\ \A n \in Name : node[n] # NoNode =>
         /\ node[n].size = dino[dent[n]].size
         /\ \A k \in DOMAIN node[n].zone : \/ data[node[n].zone[k]] \in Block(dent[n], node[n], k)
                                          \/ Pending(n, Base(node[n]) + k)
         /\ ~Writes(n) => Slots(node[n]) = Want(node[n])
    /\ op \in WriteOp =>
         /\ node[op.name] # NoNode /\ op.idx <= op.to
         /\ op.at = "block" => Slots(node[op.name]) <= Larger(Want(node[op.name]), op.idx)
         /\ op.at = "size" => Slots(node[op.name]) = Larger(Want(node[op.name]), op.to)

DoneInv ==
    \A n \in Name : done[n] > 0 => dent[n] \in Ino /\ done[n] <= dino[dent[n]].size

Inv == TypeInv /\ BitInv /\ NameInv /\ ZoneInv /\ NewInv /\ DiskInv /\ OpenInv /\ DoneInv

-----------------------------------------------------------------------------

\* CHOOSE in Lowest finds the first clear bit
LEMMA LowestClear ==
  ASSUME NEW n \in Nat, NEW map, Clear(map, n) # {}
  PROVE  /\ Lowest(Clear(map, n)) \in 0..n /\ Lowest(Clear(map, n)) \notin map
         /\ \A c \in 0..n : c < Lowest(Clear(map, n)) => c \in map
<1> DEFINE R == {ss \in Nat \X Nat : ss[1] < ss[2]}
           S == Clear(map, n)
<1>1. IsWellFoundedOn(R, Nat)
  BY NatLessThanWellFounded DEF OpToRel
<1>2. S \subseteq Nat /\ S # {}
  BY DEF Clear
<1>3. PICK s \in S : \A y \in S : ~(<<y, s>> \in R)
  <2> HIDE DEF R, S
  <2> QED BY <1>1, <1>2, WFMin
<1>4. \A x \in S : s <= x
  <2> TAKE x \in S
  <2>1. x \in Nat /\ s \in Nat /\ <<x, s>> \in Nat \X Nat
    BY <1>2
  <2>2. ~(x < s)
    BY <1>3, <2>1
  <2> QED BY <2>1, <2>2
<1>5. Lowest(S) \in S /\ \A x \in S : Lowest(S) <= x
  <2> HIDE DEF S
  <2> QED BY <1>4 DEF Lowest
<1>6. \A c \in 0..n : c < Lowest(S) => c \in map
  <2> TAKE c \in 0..n
  <2>1. c \notin map => c \in S
    BY DEF Clear
  <2>2. Lowest(S) \in Nat
    BY <1>2, <1>5
  <2> HIDE DEF S
  <2> QED BY <1>5, <2>1, <2>2
<1> QED BY <1>5, <1>6 DEF Clear

\* Which operation is under way can be told from where it is
LEMMA OpKinds ==
  /\ Idle \notin CreateOp /\ Idle \notin WriteOp
  /\ \A o \in CreateOp : o \notin WriteOp /\ o.at \in {"entry", "setupdir", "dots", "isync"}
                            /\ o.name \in Name /\ o.ino \in 1..(NIno + 1) /\ o.mi \in Inode
  /\ \A o \in WriteOp : o \notin CreateOp /\ o.at \in {"block", "size"} /\ o.name \in Name
                           /\ o.idx \in 1..MaxBlocks /\ o.to \in 1..MaxBlocks
BY DEF Idle, CreateOp, WriteOp

\* The step an operation is at tells its kind
LEMMA OpAt ==
  ASSUME NEW o \in {Idle} \cup CreateOp \cup WriteOp
  PROVE  /\ o.at = "idle" => o = Idle
         /\ o.at \in {"entry", "setupdir", "dots", "isync"} => o \in CreateOp /\ o \notin WriteOp
         /\ o.at \in {"block", "size"} => o \in WriteOp /\ o \notin CreateOp
<1>1. Idle.at = "idle"
  BY DEF Idle
<1> QED BY <1>1, OpKinds

\* Sequences of zones
LEMMA NoZones == \A Z, t : Held(Z, <<>>) /\ Apart(<<>>, t) /\ Apart(t, <<>>)
BY DEF Held, Apart

\* Apart is symmetric
LEMMA ApartSym == \A s, t : Apart(s, t) => Apart(t, s)
BY DEF Apart

\* Setting more bits takes nothing away from a file
LEMMA HeldMore == \A Z, Y, s : Z \subseteq Y /\ Held(Z, s) => Held(Y, s)
BY DEF Held

\* A zone that was clear belongs to nobody
LEMMA AddZone ==
  ASSUME NEW Z, NEW s \in Seq(0..NZone), Held(Z, s), NEW z \in 0..NZone, z \notin Z
  PROVE  /\ Append(s, z) \in Seq(0..NZone) /\ Held(Z \cup {z}, Append(s, z))
         /\ \A t : Held(Z, t) /\ Apart(s, t) => Apart(Append(s, z), t)
<1>1. /\ Append(s, z) \in Seq(0..NZone) /\ Len(s) \in Nat /\ DOMAIN s = 1..Len(s)
      /\ DOMAIN Append(s, z) = 1..(Len(s) + 1)
      /\ \A i \in 1..Len(s) : Append(s, z)[i] = s[i]
      /\ Append(s, z)[Len(s) + 1] = z
  BY AppendProperties, LenProperties
<1> DEFINE g == Append(s, z)
<1>2. \A k \in DOMAIN g : \/ k \in DOMAIN s /\ g[k] = s[k] /\ s[k] \in Z
                          \/ k = Len(s) + 1 /\ g[k] = z
  <2> TAKE k \in DOMAIN g
  <2>1. \A i \in DOMAIN s : s[i] \in Z
    BY DEF Held
  <2>2. k \in 1..Len(s) \/ k = Len(s) + 1
    BY <1>1
  <2>3. CASE k \in 1..Len(s)
    <3>1. k \in DOMAIN s /\ g[k] = s[k]
      BY <1>1, <2>3
    <3> HIDE DEF g
    <3> QED BY <3>1, <2>1
  <2>4. CASE k = Len(s) + 1
    BY <1>1, <2>4
  <2> QED BY <2>2, <2>3, <2>4
<1>3. Held(Z \cup {z}, g)
  <2> HIDE DEF g
  <2> QED BY <1>2 DEF Held
<1>4. \A t : Held(Z, t) /\ Apart(s, t) => Apart(g, t)
  <2> HIDE DEF g
  <2> QED BY <1>2 DEF Held, Apart
<1> QED BY <1>1, <1>3, <1>4

\* The zone of a new directory belongs to nobody else
LEMMA OneZone ==
  ASSUME NEW Z, NEW z \in 0..NZone, z \notin Z
  PROVE  /\ <<z>> \in Seq(0..NZone) /\ Held(Z \cup {z}, <<z>>) /\ 1 \in DOMAIN <<z>>
         /\ \A t : Held(Z, t) => Apart(<<z>>, t)
BY DEF Held, Apart

\* Every value an inode can have, and the two that are fixed
LEMMA Inodes ==
  /\ ZeroInode \in Inode /\ ZeroInode.zone = <<>> /\ ZeroInode.size = 0 /\ ZeroInode.dev = 0
  /\ Slots(ZeroInode) = Want(ZeroInode) /\ NoNode \in Inode /\ NoNode.zone = <<>>
BY DEF ZeroInode, NoNode, NewInode, Inode, Slots, Base, Want, Larger

\* The slots of any inode
LEMMA SlotsNat ==
  ASSUME NEW v \in Inode
  PROVE  /\ v.zone \in Seq(0..NZone) /\ Len(v.zone) \in Nat /\ DOMAIN v.zone = 1..Len(v.zone)
         /\ v.size \in Nat /\ v.dev \in Nat /\ Base(v) \in {0, 1} /\ Slots(v) \in Nat /\ Want(v) \in Nat
         /\ Slots(v) = Base(v) + Len(v.zone)
<1>1. v.zone \in Seq(0..NZone) /\ v.size \in Nat /\ v.dev \in Nat /\ Base(v) \in {0, 1}
  BY DEF Inode, Base
<1>2. Len(v.zone) \in Nat /\ DOMAIN v.zone = 1..Len(v.zone)
  BY <1>1, LenProperties
<1> QED BY <1>1, <1>2 DEF Slots, Want, Larger

-----------------------------------------------------------------------------
(* One lemma per step                                                        *)

\* minix_ialloc takes the first clear bit, so bits stay an initial segment and nobody has
\* a name for the new inode
LEMMA IallocKeeps ==
  ASSUME Inv, NEW n \in Name, NEW k \in {"reg", "dir", "dev"}, NEW r \in Nat,
         k = "dir" => r = 0, minix_ialloc(n, k, r)
  PROVE  Inv'
<1> DEFINE b == Lowest(Clear(imap, NIno))
<1>1. /\ op = Idle /\ dent[n] \notin Ino /\ imap' = imap \cup {b}
      /\ op' = [at |-> "entry", name |-> n, ino |-> b + 1, mi |-> NewInode(k, r)]
      /\ UNCHANGED <<zmap, dino, dent, data, node, done, crashes, fault>>
  BY OpKinds DEF Inv, TypeInv, minix_ialloc, Up, Idle
<1>2. b \in 0..NIno /\ b \notin imap /\ \A c \in 0..NIno : c < b => c \in imap
  BY LowestClear, MinixAssumption DEF minix_ialloc
<1> HIDE DEF b
<1>3. NewInode(k, r) \in Inode /\ NewInode(k, r).kind = k /\ NewInode(k, r).size = 0 /\ NewInode(k, r).zone = <<>>
      /\ NewInode(k, r).dev = r
  BY DEF NewInode, Inode
<1>4. op' \in CreateOp /\ op'.at = "entry" /\ op'.name = n /\ op'.ino = b + 1 /\ op'.mi = NewInode(k, r)
  BY <1>1, <1>2, <1>3, MinixAssumption DEF CreateOp
<1>5. TypeInv'
  BY <1>1, <1>2, <1>4 DEF Inv, TypeInv
<1>6. BitInv'
  <2>1. imap \subseteq 0..NIno /\ \A d \in imap : \A c \in 0..d : c \in imap
    BY DEF Inv, TypeInv, BitInv
  <2>2. \A d \in imap' : \A c \in 0..d : c \in imap'
    BY <1>1, <1>2, <2>1, MinixAssumption
  <2>3. op'.ino - 1 \in imap' /\ op'.ino \notin imap'
    BY <1>1, <1>2, <1>4, <2>1, MinixAssumption
  <2>4. \A m \in Name : dent[m] # 0 => dent[m] - 1 \in imap'
    BY <1>1 DEF Inv, BitInv
  <2> QED BY <1>1, <2>2, <2>3, <2>4 DEF BitInv
<1>7. NameInv'
  <2>1. node[n] = NoNode
    BY <1>1 DEF Inv, NameInv
  <2>2. \A m \in Name : dent[m] # b + 1
    <3> TAKE m \in Name
    <3>1. dent[m] \in 0..(NIno + 1) /\ (dent[m] # 0 => dent[m] - 1 \in imap)
      BY DEF Inv, TypeInv, BitInv
    <3> QED BY <1>2, <3>1, MinixAssumption
  <2> QED BY <1>1, <1>4, <2>1, <2>2 DEF Inv, NameInv
<1>8. ZoneInv'
  BY <1>1, <1>3, <1>4, NoZones DEF Inv, ZoneInv
<1>9. NewInv' /\ DiskInv' /\ DoneInv'
  BY <1>1, <1>3, <1>4 DEF Inv, NewInv, DiskInv, DoneInv
<1>10. OpenInv'
  BY <1>1, <1>4, OpKinds DEF Inv, OpenInv, Writes, Pending
<1> QED BY <1>5, <1>6, <1>7, <1>8, <1>9, <1>10 DEF Inv

\* minix_open reads an inode of which the disk has everything
LEMMA OpenKeeps ==
  ASSUME Inv, NEW n \in Name, minix_open(n)
  PROVE  Inv'
<1> DEFINE d == dino[dent[n]]
<1>1. /\ op = Idle /\ dent[n] \in Ino /\ node[n] = NoNode /\ node' = [node EXCEPT ![n] = d]
      /\ UNCHANGED <<imap, zmap, dino, dent, data, op, done, crashes, fault>>
  BY OpKinds DEF Inv, TypeInv, minix_open, Up, Idle
<1>2. /\ node'[n] = d /\ \A m \in Name : m # n => node'[m] = node[m]
      /\ d \in Inode /\ node' \in [Name -> Inode]
  BY <1>1 DEF Inv, TypeInv
<1>3. \A m \in Name : m # n => dent[m] # dent[n]
  BY <1>1 DEF Inv, NameInv, Ino
<1> HIDE DEF d
<1>4. TypeInv'
  BY <1>1, <1>2 DEF Inv, TypeInv
<1>5. BitInv' /\ NewInv' /\ DiskInv' /\ DoneInv'
  BY <1>1 DEF Inv, BitInv, NewInv, DiskInv, DoneInv
<1>6. NameInv'
  BY <1>1, <1>2, OpKinds DEF Inv, NameInv
<1>7. ZoneInv'
  <2>1. \A m \in Name : Held(zmap, node'[m].zone)
    BY <1>1, <1>2 DEF Inv, ZoneInv, d
  <2>2. \A m \in Name : \A j \in Ino : dent[m] # j => Apart(node'[m].zone, dino[j].zone)
    BY <1>1, <1>2 DEF Inv, ZoneInv, d
  <2>3. \A m \in Name : m # n => Apart(node'[m].zone, d.zone)
    BY <1>1, <1>2, <1>3 DEF Inv, ZoneInv, d
  <2>4. \A m, l \in Name : m # l => Apart(node'[m].zone, node'[l].zone)
    BY <1>2, <2>3, ApartSym DEF Inv, ZoneInv
  <2> QED BY <1>1, <2>1, <2>2, <2>4, OpKinds DEF Inv, ZoneInv
<1>8. OpenInv'
  <2>1. d.zone \in Seq(0..NZone) /\ Len(d.zone) \in Nat
    BY <1>2, LenProperties DEF Inode
  <2>2. Slots(d) = Want(d) /\ \A k \in DOMAIN d.zone : data[d.zone[k]] \in Block(dent[n], d, k)
    BY <1>1 DEF Inv, DiskInv, d
  <2>3. ASSUME NEW m \in Name, node'[m] # NoNode
        PROVE  /\ node'[m].dev = dino[dent[m]].dev
               /\ Len(dino[dent[m]].zone) <= Len(node'[m].zone)
               /\ \A k \in DOMAIN dino[dent[m]].zone : node'[m].zone[k] = dino[dent[m]].zone[k]
    <3>1. CASE m = n
      BY <3>1, <1>2, <2>1 DEF d
    <3>2. CASE m # n
      BY <3>2, <1>2, <2>3 DEF Inv, OpenInv
    <3> QED BY <3>1, <3>2
  <2>4. ASSUME NEW m \in Name, node'[m] # NoNode
        PROVE  /\ node'[m].size = dino[dent[m]].size
               /\ \A k \in DOMAIN node'[m].zone : data[node'[m].zone[k]] \in Block(dent[m], node'[m], k)
               /\ Slots(node'[m]) = Want(node'[m])
    <3>1. CASE m = n
      BY <3>1, <1>2, <2>2, <2>4 DEF d
    <3>2. CASE m # n
      BY <3>2, <1>1, <1>2, <2>4, OpKinds DEF Inv, OpenInv, Writes, Pending
    <3> QED BY <3>1, <3>2
  <2> QED BY <1>1, <2>3, <2>4, OpKinds DEF OpenInv
<1> QED BY <1>4, <1>5, <1>6, <1>7, <1>8 DEF Inv

\* minix_write begins on a file whose zones match its size
LEMMA WriteKeeps ==
  ASSUME Inv, NEW n \in Name, NEW from \in 1..MaxBlocks, NEW to \in 1..MaxBlocks, minix_write(n, from, to)
  PROVE  Inv'
<1>1. /\ op = Idle /\ node[n] # NoNode /\ from <= to
      /\ op' = [at |-> "block", name |-> n, idx |-> from, to |-> to]
      /\ UNCHANGED <<imap, zmap, dino, dent, data, node, done, crashes, fault>>
  <2>1. ~Writable(NoNode)
    BY DEF Writable, NoNode, NewInode
  <2>2. /\ op = Idle /\ Writable(node[n]) /\ from <= to
        /\ op' = [at |-> "block", name |-> n, idx |-> from, to |-> to]
        /\ UNCHANGED <<imap, zmap, dino, dent, data, node, done, crashes, fault>>
    BY OpKinds DEF Inv, TypeInv, minix_write, Up, Idle, disk
  <2> QED BY <2>1, <2>2
<1>2. op' \in WriteOp /\ op' \notin CreateOp /\ op'.at = "block" /\ op'.name = n /\ op'.idx = from /\ op'.to = to
  BY <1>1, OpKinds DEF WriteOp
<1>3. TypeInv'
  BY <1>1, <1>2 DEF Inv, TypeInv
<1>4. BitInv' /\ NameInv' /\ ZoneInv' /\ NewInv' /\ DiskInv' /\ DoneInv'
  BY <1>1, <1>2 DEF Inv, BitInv, NameInv, ZoneInv, NewInv, DiskInv, DoneInv
<1>5. OpenInv'
  <2>1. Slots(node[n]) = Want(node[n]) /\ Want(node[n]) \in Nat
    <3>1. node[n] \in Inode
      BY DEF Inv, TypeInv
    <3> QED BY <1>1, <3>1, SlotsNat, OpKinds DEF Inv, OpenInv, Writes
  <2>2. Slots(node[n]) <= Larger(Want(node[n]), from)
    BY <2>1, MinixAssumption DEF Larger
  <2> QED BY <1>1, <1>2, <2>2, OpKinds DEF Inv, OpenInv, Writes, Pending
<1> QED BY <1>3, <1>4, <1>5 DEF Inv

\* minix_truncate only faults
LEMMA TruncateKeeps ==
  ASSUME Inv, NEW n \in Name, minix_truncate(n)
  PROVE  Inv'
<1>1. fault' = TRUE /\ UNCHANGED <<imap, zmap, dino, dent, data, node, op, done, crashes>>
  BY DEF minix_truncate, disk
<1>2. TypeInv' /\ BitInv' /\ NewInv' /\ DiskInv' /\ DoneInv'
  BY <1>1 DEF Inv, TypeInv, BitInv, NewInv, DiskInv, DoneInv
<1>3. NameInv'
  BY <1>1 DEF Inv, NameInv
<1>4. ZoneInv'
  BY <1>1 DEF Inv, ZoneInv
<1>5. OpenInv'
  BY <1>1 DEF Inv, OpenInv, Writes, Pending
<1> QED BY <1>2, <1>3, <1>4, <1>5 DEF Inv

\* After a crash memory is empty and the disk is what it was
LEMMA CrashKeeps ==
  ASSUME Inv, Crash
  PROVE  Inv'
<1>1. /\ node' = [n \in Name |-> NoNode] /\ op' = Idle /\ fault' = FALSE
      /\ UNCHANGED <<imap, zmap, dino, dent, data, done>>
  BY DEF Crash, disk
<1>2. NoNode \in Inode /\ NoNode.zone = <<>>
  BY DEF NoNode, NewInode, Inode
<1>3. TypeInv'
  BY <1>1, <1>2 DEF Inv, TypeInv
<1>4. BitInv' /\ NameInv' /\ NewInv' /\ DiskInv' /\ DoneInv'
  BY <1>1, OpKinds DEF Inv, BitInv, NameInv, NewInv, DiskInv, DoneInv
<1>5. ZoneInv'
  BY <1>1, <1>2, NoZones, OpKinds DEF Inv, ZoneInv
<1>6. OpenInv'
  BY <1>1, <1>2, OpKinds DEF OpenInv
<1> QED BY <1>3, <1>4, <1>5, <1>6 DEF Inv

\* minix_eddir gives an inode without a name its first one, or only marks zones
LEMMA EddirKeeps ==
  ASSUME Inv, minix_eddir
  PROVE  Inv'
<1>1. op \in CreateOp /\ op.at = "entry" /\ op \notin WriteOp
  <2>1. op.at = "entry" /\ op \in {Idle} \cup CreateOp \cup WriteOp
    BY DEF Inv, TypeInv, minix_eddir, Up
  <2> QED BY <2>1, OpAt
<1>2. op.name \in Name /\ op.ino \in 1..(NIno + 1) /\ op.mi \in Inode
  BY <1>1, OpKinds
<1>3. CASE Cardinality({n \in Name : dent[n] # 0}) = DirCap
  <2>1. PICK z \in 0..NZone : zmap' = zmap \cup 0..z
    BY <1>3 DEF minix_eddir
  <2>2. fault' = TRUE /\ UNCHANGED <<imap, dino, dent, data, node, op, done>>
    BY <1>3 DEF minix_eddir
  <2>3. zmap' \subseteq 0..NZone
    BY <2>1, MinixAssumption DEF Inv, TypeInv
  <2>4. TypeInv' /\ BitInv' /\ NewInv' /\ DiskInv' /\ DoneInv'
    BY <2>2, <2>3 DEF Inv, TypeInv, BitInv, NewInv, DiskInv, DoneInv
  <2>5. NameInv'
    BY <2>2 DEF Inv, NameInv
  <2>6. ZoneInv'
    <3>1. zmap \subseteq zmap'
      BY <2>1
    <3> QED BY <3>1, <2>2, HeldMore DEF Inv, ZoneInv
  <2>7. OpenInv'
    BY <2>2 DEF Inv, OpenInv, Writes, Pending
  <2> QED BY <2>4, <2>5, <2>6, <2>7 DEF Inv
<1>4. CASE Cardinality({n \in Name : dent[n] # 0}) # DirCap
  <2> DEFINE at == IF op.mi.kind = "dir" THEN "setupdir" ELSE "isync"
  <2>1. /\ dent' = [dent EXCEPT ![op.name] = op.ino] /\ op' = [op EXCEPT !.at = at]
        /\ fault' = (op.ino > NIno) /\ UNCHANGED <<imap, zmap, dino, data, node, done>>
    BY <1>4 DEF minix_eddir
  <2>2. /\ op' \in CreateOp /\ op' \notin WriteOp /\ op'.at = at
        /\ op'.name = op.name /\ op'.ino = op.ino /\ op'.mi = op.mi
    <3>1. /\ op' \in CreateOp /\ op'.at = at
          /\ op'.name = op.name /\ op'.ino = op.ino /\ op'.mi = op.mi
      BY <1>1, <2>1 DEF CreateOp
    <3> QED BY <3>1, OpKinds
  <2>3. /\ dent' \in [Name -> 0..(NIno + 1)] /\ dent'[op.name] = op.ino
        /\ \A m \in Name : m # op.name => dent'[m] = dent[m]
    BY <1>2, <2>1, MinixAssumption DEF Inv, TypeInv
  <2>4. /\ node[op.name] = NoNode /\ dent[op.name] \notin Ino
        /\ \A m \in Name : dent[m] # op.ino
    BY <1>1, <1>2 DEF Inv, NameInv
  <2>5. TypeInv'
    BY <2>1, <2>2, <2>3 DEF Inv, TypeInv
  <2>6. BitInv'
    <3>1. op.ino - 1 \in imap /\ op.ino \notin imap
      BY <1>1 DEF Inv, BitInv
    <3> QED BY <2>1, <2>2, <2>3, <3>1 DEF Inv, BitInv
  <2>7. NameInv'
    <3>1. \A n, m \in Name : dent'[n] # 0 /\ dent'[n] = dent'[m] => n = m
      BY <2>3, <2>4 DEF Inv, NameInv
    <3>2. \A n \in Name : node'[n] # NoNode => dent'[n] \in Ino
      BY <2>1, <2>3, <2>4 DEF Inv, NameInv
    <3>3. \A i \in Ino : (\A n \in Name : dent'[n] # i) => dino'[i] = ZeroInode
      BY <1>2, <2>1, <2>3, <2>4 DEF Inv, NameInv
    <3>4. ~fault' => op.ino \in Ino /\ dino[op.ino] = ZeroInode
      <4>1. ~fault' => op.ino \in Ino
        <5>1. op.ino > NIno \/ op.ino \in Ino
          BY <1>2, MinixAssumption DEF Ino
        <5> QED BY <2>1, <5>1, Zenon
      <4> QED BY <4>1, <2>4 DEF Inv, NameInv
    <3> QED BY <2>1, <2>2, <2>3, <2>4, <3>1, <3>2, <3>3, <3>4 DEF NameInv
  <2>8. ZoneInv'
    <3>1. \A n \in Name : \A j \in Ino : dent'[n] # j => Apart(node[n].zone, dino[j].zone)
      BY <2>3, <2>4, Inodes, NoZones DEF Inv, ZoneInv
    <3> QED BY <1>1, <2>1, <2>2, <3>1 DEF Inv, ZoneInv
  <2>9. NewInv'
    <3>1. /\ op.mi.kind \in {"reg", "dir", "dev"} /\ (op.mi.kind = "dir" => op.mi.dev = 0)
          /\ op.mi.kind # "dir" => op.mi.size = 0 /\ op.mi.zone = <<>>
      BY <1>1 DEF Inv, NewInv
    <3>2. op.mi.kind # "dir" => Slots(op.mi) = Want(op.mi) /\ DOMAIN op.mi.zone = {}
      <4>1. Base(op.mi) \in {0, 1}
        BY DEF Base
      <4> QED BY <3>1, <4>1 DEF Slots, Want, Larger
    <3> QED BY <2>1, <2>2, <3>1, <3>2 DEF NewInv
  <2>10. DiskInv'
    BY <2>1 DEF Inv, DiskInv
  <2>11. DoneInv'
    BY <2>1, <2>3, <2>4 DEF Inv, DoneInv
  <2>12. OpenInv'
    <3>1. \A n \in Name : node[n] # NoNode \/ node[n] # NoNode => n # op.name /\ dent'[n] = dent[n]
      BY <2>3, <2>4, Inodes
    <3>2. \A n \in Name : node[n] # NoNode =>
            /\ node[n].dev = dino[dent'[n]].dev
            /\ Len(dino[dent'[n]].zone) <= Len(node[n].zone)
            /\ \A k \in DOMAIN dino[dent'[n]].zone : node[n].zone[k] = dino[dent'[n]].zone[k]
      BY <3>1 DEF Inv, OpenInv
    <3>3. \A n \in Name : node[n] # NoNode =>
            /\ node[n].size = dino[dent'[n]].size
            /\ \A k \in DOMAIN node[n].zone : data[node[n].zone[k]] \in Block(dent'[n], node[n], k)
            /\ Slots(node[n]) = Want(node[n])
      BY <1>1, <3>1 DEF Inv, OpenInv, Writes, Pending
    <3> QED BY <2>1, <2>2, <3>2, <3>3 DEF OpenInv
  <2> QED BY <2>5, <2>6, <2>7, <2>8, <2>9, <2>10, <2>11, <2>12 DEF Inv
<1> QED BY <1>3, <1>4

\* minix_setupdir takes a zone nobody has; without one, minix_ifree clears a bit that was
\* not set
LEMMA SetupdirKeeps ==
  ASSUME Inv, minix_setupdir
  PROVE  Inv'
<1>1. op \in CreateOp /\ op.at = "setupdir" /\ op \notin WriteOp
  <2>1. op.at = "setupdir" /\ op \in {Idle} \cup CreateOp \cup WriteOp
    BY DEF Inv, TypeInv, minix_setupdir, Up
  <2> QED BY <2>1, OpAt
<1>2. op.name \in Name /\ op.ino \in 1..(NIno + 1) /\ op.mi \in Inode
  BY <1>1, OpKinds
<1>3. CASE Clear(zmap, NZone) = {}
  \* the bit minix_ifree clears was not set
  <2>1. op' = Idle /\ UNCHANGED <<imap, zmap, dino, dent, data, node, done, fault>>
    <3>1. op.ino \notin imap
      BY <1>1 DEF Inv, BitInv
    <3> QED BY <1>3, <3>1 DEF minix_setupdir
  <2>2. TypeInv' /\ BitInv' /\ NameInv' /\ NewInv' /\ DiskInv' /\ DoneInv'
    BY <2>1, OpKinds DEF Inv, TypeInv, BitInv, NameInv, NewInv, DiskInv, DoneInv
  <2>3. ZoneInv'
    BY <2>1, OpKinds DEF Inv, ZoneInv
  <2>4. OpenInv'
    BY <1>1, <2>1, OpKinds DEF Inv, OpenInv, Writes, Pending
  <2> QED BY <2>2, <2>3, <2>4 DEF Inv
<1>4. CASE Clear(zmap, NZone) # {}
  <2> DEFINE z == Lowest(Clear(zmap, NZone))
             mi == [op.mi EXCEPT !.zone = <<z>>, !.size = 1]
  <2>1. z \in 0..NZone /\ z \notin zmap
    BY <1>4, LowestClear, MinixAssumption
  <2>2. /\ zmap' = zmap \cup {z} /\ op' = [op EXCEPT !.at = "dots", !.mi.zone = <<z>>, !.mi.size = 1]
        /\ UNCHANGED <<imap, dino, dent, data, node, done, fault>>
    BY <1>4 DEF minix_setupdir
  <2> HIDE DEF z
  <2>3. /\ <<z>> \in Seq(0..NZone) /\ Held(zmap', <<z>>) /\ 1 \in DOMAIN <<z>>
        /\ \A t : Held(zmap, t) => Apart(<<z>>, t)
    BY <2>1, <2>2, OneZone
  <2>4. mi \in Inode /\ mi.kind = op.mi.kind /\ mi.zone = <<z>> /\ mi.size = 1 /\ mi.dev = op.mi.dev
    BY <1>2, <2>3 DEF Inode
  <2>5. op' = [op EXCEPT !.at = "dots", !.mi = mi]
    BY <1>1, <1>2, <2>2 DEF CreateOp, Inode
  <2> HIDE DEF mi
  <2>6. /\ op' \in CreateOp /\ op' \notin WriteOp /\ op'.at = "dots"
        /\ op'.name = op.name /\ op'.ino = op.ino /\ op'.mi = mi
    <3>1. /\ op' \in CreateOp /\ op'.at = "dots"
          /\ op'.name = op.name /\ op'.ino = op.ino /\ op'.mi = mi
      BY <1>1, <2>4, <2>5 DEF CreateOp
    <3> QED BY <3>1, OpKinds
  <2>7. TypeInv'
    BY <2>1, <2>2, <2>6 DEF Inv, TypeInv
  <2>8. BitInv' /\ DiskInv' /\ DoneInv'
    BY <1>1, <2>2, <2>6 DEF Inv, BitInv, DiskInv, DoneInv
  <2>9. NameInv'
    BY <1>1, <2>2, <2>6 DEF Inv, NameInv
  <2>10. ZoneInv'
    <3>1. zmap \subseteq zmap'
      BY <2>2
    <3>2. /\ \A i \in Ino : Held(zmap', dino[i].zone) /\ Apart(<<z>>, dino[i].zone)
          /\ \A n \in Name : Held(zmap', node[n].zone) /\ Apart(<<z>>, node[n].zone)
      BY <2>3, <3>1, HeldMore DEF Inv, ZoneInv
    <3> QED BY <2>2, <2>3, <2>4, <2>6, <3>2 DEF Inv, ZoneInv
  <2>11. NewInv'
    <3>1. mi.kind = "dir" /\ mi.dev = 0
      BY <1>1, <2>4 DEF Inv, NewInv
    <3>2. mi.zone # <<>> /\ Len(mi.zone) = 1
      BY <2>4
    <3> QED BY <2>4, <2>6, <3>1, <3>2 DEF NewInv
  <2>12. OpenInv'
    BY <1>1, <2>2, <2>6 DEF Inv, OpenInv, Writes, Pending
  <2> QED BY <2>7, <2>8, <2>9, <2>10, <2>11, <2>12 DEF Inv
<1> QED BY <1>3, <1>4

\* The entries . and .. go into a zone no file has
LEMMA WriteDotsKeeps ==
  ASSUME Inv, WriteDots
  PROVE  Inv'
<1>1. op \in CreateOp /\ op.at = "dots" /\ op \notin WriteOp
  <2>1. op.at = "dots" /\ op \in {Idle} \cup CreateOp \cup WriteOp
    BY DEF Inv, TypeInv, WriteDots, Up
  <2> QED BY <2>1, OpAt
<1> DEFINE z == op.mi.zone[1]
<1>2. DOMAIN op.mi.zone = {1} /\ z \in 0..NZone
  <2>1. op.mi.zone \in Seq(0..NZone) /\ Len(op.mi.zone) = 1
    BY <1>1, OpKinds DEF Inv, NewInv, Inode
  <2>2. DOMAIN op.mi.zone = 1..1
    BY <2>1, LenProperties
  <2>3. 1..1 = {1} /\ 1 \in 1..Len(op.mi.zone)
    BY <2>1
  <2> QED BY <2>1, <2>2, <2>3, ElementOfSeq
<1>3. /\ data' = [data EXCEPT ![z] = <<op.ino, 1>>] /\ op' = [op EXCEPT !.at = "isync"]
      /\ UNCHANGED <<imap, zmap, dino, dent, node, done, fault>>
  BY DEF WriteDots
<1>4. /\ op' \in CreateOp /\ op' \notin WriteOp /\ op'.at = "isync"
      /\ op'.name = op.name /\ op'.ino = op.ino /\ op'.mi = op.mi
  <2>1. /\ op' \in CreateOp /\ op'.at = "isync"
        /\ op'.name = op.name /\ op'.ino = op.ino /\ op'.mi = op.mi
    BY <1>1, <1>3 DEF CreateOp
  <2> QED BY <2>1, OpKinds
<1>5. /\ data' \in [0..NZone -> Nat \X Nat] /\ data'[z] = <<op.ino, 1>>
      /\ \A y \in 0..NZone : y # z => data'[y] = data[y]
  <2>1. <<op.ino, 1>> \in Nat \X Nat
    BY <1>1, OpKinds, MinixAssumption
  <2> QED BY <1>2, <1>3, <2>1 DEF Inv, TypeInv
<1>6. /\ \A i \in Ino : \A k \in DOMAIN dino[i].zone : data'[dino[i].zone[k]] = data[dino[i].zone[k]]
      /\ \A n \in Name : \A k \in DOMAIN node[n].zone : data'[node[n].zone[k]] = data[node[n].zone[k]]
  <2>1. /\ \A i \in Ino : \A k \in DOMAIN dino[i].zone : dino[i].zone[k] \in 0..NZone /\ dino[i].zone[k] # z
        /\ \A n \in Name : \A k \in DOMAIN node[n].zone : node[n].zone[k] \in 0..NZone /\ node[n].zone[k] # z
    <3>1. zmap \subseteq 0..NZone
      BY DEF Inv, TypeInv
    <3>2. /\ \A i \in Ino : Held(zmap, dino[i].zone) /\ Apart(op.mi.zone, dino[i].zone)
          /\ \A n \in Name : Held(zmap, node[n].zone) /\ Apart(op.mi.zone, node[n].zone)
      BY <1>1 DEF Inv, ZoneInv
    <3> QED BY <1>2, <3>1, <3>2 DEF Held, Apart
  <2> QED BY <2>1, <1>5
<1>13. NewInv'
  <2>1. /\ op.mi.kind = "dir" /\ op.mi.dev = 0 /\ op.mi.size = 1 /\ Len(op.mi.zone) = 1
    BY <1>1 DEF Inv, NewInv
  <2>2. Base(op.mi) = 0 /\ Slots(op.mi) = 1 /\ Want(op.mi) = 1
    BY <2>1 DEF Base, Slots, Want, Larger
  <2>3. \A k \in DOMAIN op.mi.zone : data'[op.mi.zone[k]] \in Block(op.ino, op.mi, k)
    BY <1>2, <1>5, <2>2 DEF Block
  <2> QED BY <1>4, <2>1, <2>2, <2>3 DEF NewInv
<1> HIDE DEF z
<1>7. TypeInv'
  BY <1>3, <1>4, <1>5 DEF Inv, TypeInv
<1>8. BitInv' /\ DoneInv'
  BY <1>1, <1>3, <1>4 DEF Inv, BitInv, DoneInv
<1>9. NameInv'
  BY <1>1, <1>3, <1>4 DEF Inv, NameInv
<1>10. ZoneInv'
  BY <1>1, <1>3, <1>4 DEF Inv, ZoneInv
<1>11. DiskInv'
  <2>1. \A i \in Ino :
          /\ Slots(dino[i]) = Want(dino[i])
          /\ \A k \in DOMAIN dino[i].zone : data'[dino[i].zone[k]] \in Block(i, dino[i], k)
    <3> TAKE i \in Ino
    <3>1. Slots(dino[i]) = Want(dino[i]) /\ \A k \in DOMAIN dino[i].zone : data[dino[i].zone[k]] \in Block(i, dino[i], k)
      BY DEF Inv, DiskInv
    <3>2. ASSUME NEW k \in DOMAIN dino[i].zone
          PROVE  data'[dino[i].zone[k]] \in Block(i, dino[i], k)
      BY <3>1, <1>6
    <3> QED BY <3>1, <3>2
  <2> QED BY <1>3, <2>1 DEF DiskInv
<1>12. OpenInv'
  <2>1. \A n \in Name : node[n] # NoNode =>
          /\ node[n].size = dino[dent[n]].size
          /\ \A k \in DOMAIN node[n].zone : data'[node[n].zone[k]] \in Block(dent[n], node[n], k)
          /\ Slots(node[n]) = Want(node[n])
    BY <1>1, <1>6 DEF Inv, OpenInv, Writes, Pending
  <2> QED BY <1>3, <1>4, <2>1 DEF Inv, OpenInv
<1> QED BY <1>7, <1>8, <1>9, <1>10, <1>11, <1>12, <1>13 DEF Inv

\* minix_isync writes an inode whose zones are those of no other
LEMMA CreateDoneKeeps ==
  ASSUME Inv, CreateDone
  PROVE  Inv'
<1>1. op \in CreateOp /\ op.at = "isync" /\ op \notin WriteOp /\ ~fault
  <2>1. op.at = "isync" /\ ~fault /\ op \in {Idle} \cup CreateOp \cup WriteOp
    BY DEF Inv, TypeInv, CreateDone, Up
  <2> QED BY <2>1, OpAt
<1> DEFINE n == op.name
           i == op.ino
           v == op.mi
           w == IF v.kind = "dev" THEN [v EXCEPT !.kind = "drv"] ELSE v
<1>2. /\ n \in Name /\ i \in Ino /\ v \in Inode /\ dent[n] = i /\ node[n] = NoNode
      /\ dino[i] = ZeroInode
  BY <1>1, OpKinds DEF Inv, NameInv
<1>3. /\ dino' = [dino EXCEPT ![i] = v] /\ node' = [node EXCEPT ![n] = w] /\ op' = Idle
      /\ UNCHANGED <<imap, zmap, dent, data, done, fault>>
  BY DEF CreateDone
<1>4. /\ Slots(v) = Want(v) /\ \A k \in DOMAIN v.zone : data[v.zone[k]] \in Block(i, v, k)
      /\ Held(zmap, v.zone) /\ \A j \in Ino : Apart(v.zone, dino[j].zone)
      /\ \A m \in Name : Apart(v.zone, node[m].zone)
  BY <1>1 DEF Inv, NewInv, ZoneInv
<1>14. w \in Inode /\ w.size = v.size /\ w.dev = v.dev /\ w.zone = v.zone
  BY <1>2 DEF Inode
<1>15. /\ Base(w) = Base(v) /\ Slots(w) = Want(w)
       /\ \A k \in DOMAIN w.zone : data[w.zone[k]] \in Block(i, w, k)
  <2> HIDE DEF w, v, i, n
  <2>1. Base(w) = Base(v) /\ Slots(w) = Slots(v) /\ Want(w) = Want(v)
    BY <1>14 DEF Base, Slots, Want
  <2> QED BY <1>4, <1>14, <2>1 DEF Block
<1> HIDE DEF n, i, v, w
<1>5. /\ dino' \in [Ino -> Inode] /\ node' \in [Name -> Inode]
      /\ dino'[i] = v /\ \A j \in Ino : j # i => dino'[j] = dino[j]
      /\ node'[n] = w /\ \A m \in Name : m # n => node'[m] = node[m]
  BY <1>2, <1>3, <1>14 DEF Inv, TypeInv
<1>6. \A m \in Name : m # n => dent[m] # i
  BY <1>2 DEF Inv, NameInv, Ino
<1>7. TypeInv'
  BY <1>3, <1>5 DEF Inv, TypeInv
<1>8. BitInv' /\ NewInv'
  BY <1>3, OpKinds DEF Inv, BitInv, NewInv
<1>9. NameInv'
  <2>1. \A j \in Ino : (\A m \in Name : dent[m] # j) => dino'[j] = ZeroInode
    BY <1>2, <1>5 DEF Inv, NameInv
  <2>2. \A m \in Name : node'[m] # NoNode => dent[m] \in Ino
    BY <1>2, <1>5 DEF Inv, NameInv
  <2> QED BY <1>3, <2>1, <2>2, OpKinds DEF Inv, NameInv
<1>10. ZoneInv'
  <2>1. /\ \A j \in Ino : Held(zmap, dino'[j].zone)
        /\ \A m \in Name : Held(zmap, node'[m].zone)
    BY <1>4, <1>5, <1>14 DEF Inv, ZoneInv
  <2>2. \A j, l \in Ino : j # l => Apart(dino'[j].zone, dino'[l].zone)
    BY <1>4, <1>5, ApartSym DEF Inv, ZoneInv
  <2>3. \A m \in Name : \A j \in Ino : dent[m] # j => Apart(node'[m].zone, dino'[j].zone)
    BY <1>2, <1>4, <1>5, <1>6, <1>14, ApartSym DEF Inv, ZoneInv
  <2>4. \A m, l \in Name : m # l => Apart(node'[m].zone, node'[l].zone)
    BY <1>4, <1>5, <1>14, ApartSym DEF Inv, ZoneInv
  <2> QED BY <1>3, <2>1, <2>2, <2>3, <2>4, OpKinds DEF ZoneInv
<1>11. DiskInv'
  <2> QED BY <1>3, <1>4, <1>5 DEF Inv, DiskInv
<1>12. DoneInv'
  <2>1. \A m \in Name : done[m] > 0 => dent[m] # i
    BY <1>2, <1>6, Inodes DEF Inv, TypeInv, DoneInv
  <2> QED BY <1>3, <1>5, <2>1 DEF Inv, DoneInv
<1>13. OpenInv'
  <2>1. ASSUME NEW m \in Name, node'[m] # NoNode
        PROVE  /\ node'[m].dev = dino'[dent[m]].dev
               /\ Len(dino'[dent[m]].zone) <= Len(node'[m].zone)
               /\ \A k \in DOMAIN dino'[dent[m]].zone : node'[m].zone[k] = dino'[dent[m]].zone[k]
    <3>1. CASE m = n
      <4>1. Len(v.zone) \in Nat
        BY <1>2, LenProperties DEF Inode
      <4> QED BY <3>1, <4>1, <1>2, <1>5, <1>14
    <3>2. CASE m # n
      <4>1. node[m] # NoNode /\ node'[m] = node[m] /\ dino'[dent[m]] = dino[dent[m]]
        BY <3>2, <1>5, <1>6, <2>1 DEF Inv, NameInv
      <4> QED BY <4>1 DEF Inv, OpenInv
    <3> QED BY <3>1, <3>2
  <2>2. ASSUME NEW m \in Name, node'[m] # NoNode
        PROVE  /\ node'[m].size = dino'[dent[m]].size
               /\ \A k \in DOMAIN node'[m].zone : data[node'[m].zone[k]] \in Block(dent[m], node'[m], k)
               /\ Slots(node'[m]) = Want(node'[m])
    <3>1. CASE m = n
      BY <3>1, <1>2, <1>5, <1>14, <1>15
    <3>2. CASE m # n
      <4>1. node[m] # NoNode /\ node'[m] = node[m]
        BY <3>2, <1>5, <2>2, Inodes
      <4>2. dino'[dent[m]] = dino[dent[m]]
        BY <3>2, <4>1, <1>5, <1>6 DEF Inv, NameInv
      <4> QED BY <4>1, <4>2, <1>1 DEF Inv, OpenInv, Writes, Pending
    <3> QED BY <3>1, <3>2
  <2> QED BY <1>3, <2>1, <2>2, OpKinds DEF OpenInv
<1> QED BY <1>7, <1>8, <1>9, <1>10, <1>11, <1>12, <1>13 DEF Inv

\* What a write knows of its file
LEMMA Writing ==
  ASSUME Inv, op.at \in {"block", "size"}
  PROVE  /\ op \in WriteOp /\ op \notin CreateOp /\ op.name \in Name
         /\ op.idx \in 1..MaxBlocks /\ op.to \in 1..MaxBlocks /\ op.idx <= op.to
         /\ node[op.name] # NoNode /\ dent[op.name] \in Ino
         /\ node[op.name] \in Inode /\ node[op.name].zone \in Seq(0..NZone)
         /\ node[op.name].size \in Nat /\ Len(node[op.name].zone) \in Nat
         /\ DOMAIN node[op.name].zone = 1..Len(node[op.name].zone)
         /\ \A m \in Name : m # op.name => dent[m] # dent[op.name]
         /\ dino[dent[op.name]].size = node[op.name].size /\ dino[dent[op.name]].dev = node[op.name].dev
         /\ Base(node[op.name]) \in {0, 1} /\ Want(node[op.name]) \in Nat /\ Slots(node[op.name]) \in Nat
         /\ Slots(node[op.name]) = Base(node[op.name]) + Len(node[op.name].zone)
         /\ Want(node[op.name]) <= Slots(node[op.name])
<1>1. op \in WriteOp /\ op \notin CreateOp
  BY OpAt DEF Inv, TypeInv
<1>2. /\ op.name \in Name /\ op.idx \in 1..MaxBlocks /\ op.to \in 1..MaxBlocks
  BY <1>1, OpKinds
<1>3. op.idx <= op.to /\ node[op.name] # NoNode
  BY <1>1, Inodes DEF Inv, OpenInv
<1>4. dent[op.name] \in Ino /\ \A m \in Name : m # op.name => dent[m] # dent[op.name]
  BY <1>2, <1>3 DEF Inv, NameInv, Ino
<1>5. /\ node[op.name] \in Inode /\ node[op.name].zone \in Seq(0..NZone) /\ node[op.name].size \in Nat
  BY <1>2 DEF Inv, TypeInv, Inode
<1>6. Len(node[op.name].zone) \in Nat /\ DOMAIN node[op.name].zone = 1..Len(node[op.name].zone)
  BY <1>5, LenProperties
<1>7. /\ dino[dent[op.name]].size = node[op.name].size /\ dino[dent[op.name]].dev = node[op.name].dev
      /\ Len(dino[dent[op.name]].zone) <= Len(node[op.name].zone)
  BY <1>2, <1>3 DEF Inv, OpenInv
<1>8. dino[dent[op.name]] \in Inode /\ Slots(dino[dent[op.name]]) = Want(dino[dent[op.name]])
  BY <1>4 DEF Inv, TypeInv, DiskInv
<1>9. /\ Base(dino[dent[op.name]]) = Base(node[op.name]) /\ Want(dino[dent[op.name]]) = Want(node[op.name])
  BY <1>7 DEF Base, Want
<1>10. /\ Base(node[op.name]) \in {0, 1} /\ Want(node[op.name]) \in Nat /\ Slots(node[op.name]) \in Nat
       /\ Slots(node[op.name]) = Base(node[op.name]) + Len(node[op.name].zone)
  BY <1>5, SlotsNat
<1>11. Want(node[op.name]) <= Slots(node[op.name])
  <2>1. /\ Len(dino[dent[op.name]].zone) \in Nat
        /\ Slots(dino[dent[op.name]]) = Base(dino[dent[op.name]]) + Len(dino[dent[op.name]].zone)
    BY <1>8, SlotsNat
  <2> QED BY <1>6, <1>7, <1>8, <1>9, <1>10, <2>1
<1> QED BY <1>1, <1>2, <1>3, <1>4, <1>5, <1>6, <1>7, <1>10, <1>11

\* minix_zext adds a zone nobody has, for the block about to be written
LEMMA ZextKeeps ==
  ASSUME Inv, minix_zext
  PROVE  Inv'
<1> DEFINE n == op.name
           s == node[op.name].zone
           z == Lowest(Clear(zmap, NZone))
           i == dent[op.name]
<1>1. op.at = "block" /\ op.idx > Slots(node[n])
  BY DEF minix_zext, Up
<1>2. CASE Clear(zmap, NZone) = {} \/ op.idx > Slots(node[n]) + 1
  <2>1. fault' = TRUE /\ UNCHANGED <<imap, zmap, dino, dent, data, node, op, done>>
    BY <1>2 DEF minix_zext
  <2>2. TypeInv' /\ BitInv' /\ NewInv' /\ DiskInv' /\ DoneInv'
    BY <2>1 DEF Inv, TypeInv, BitInv, NewInv, DiskInv, DoneInv
  <2>3. NameInv'
    BY <2>1 DEF Inv, NameInv
  <2>4. ZoneInv'
    BY <2>1 DEF Inv, ZoneInv
  <2>5. OpenInv'
    BY <2>1 DEF Inv, OpenInv, Writes, Pending
  <2> QED BY <2>2, <2>3, <2>4, <2>5 DEF Inv
<1>3. CASE ~(Clear(zmap, NZone) = {} \/ op.idx > Slots(node[n]) + 1)
  <2>1. z \in 0..NZone /\ z \notin zmap
    BY <1>3, LowestClear, MinixAssumption
  <2>2. /\ zmap' = zmap \cup {z} /\ node' = [node EXCEPT ![n].zone = Append(@, z)]
        /\ UNCHANGED <<imap, dino, dent, data, op, done, fault>>
    BY <1>3 DEF minix_zext
  <2>3. /\ op \in WriteOp /\ op \notin CreateOp /\ n \in Name /\ op.idx \in Nat /\ node[n] # NoNode
        /\ node[n] \in Inode /\ s \in Seq(0..NZone) /\ i \in Ino /\ Len(s) \in Nat /\ DOMAIN s = 1..Len(s)
        /\ \A m \in Name : m # n => dent[m] # i
        /\ Slots(node[n]) = Base(node[n]) + Len(s) /\ Base(node[n]) \in {0, 1} /\ Want(node[n]) \in Nat
    BY <1>1, Writing, MinixAssumption
  <2>4. Held(zmap, s)
    BY <2>3 DEF Inv, ZoneInv
  <2> DEFINE g == Append(s, z)
             v == [node[n] EXCEPT !.zone = g]
  <2>5. /\ g \in Seq(0..NZone) /\ Held(zmap', g) /\ \A t : Held(zmap, t) /\ Apart(s, t) => Apart(g, t)
        /\ DOMAIN g = 1..(Len(s) + 1) /\ Len(g) = Len(s) + 1
        /\ \A k \in 1..Len(s) : g[k] = s[k]
    <3>1. s \in Seq(0..NZone) /\ z \in 0..NZone /\ z \notin zmap
      BY <2>1, <2>3
    <3> HIDE DEF s, z
    <3>2. /\ g \in Seq(0..NZone) /\ Held(zmap \cup {z}, g)
          /\ \A t : Held(zmap, t) /\ Apart(s, t) => Apart(g, t)
      BY <2>4, <3>1, AddZone
    <3>3. /\ DOMAIN g = 1..(Len(s) + 1) /\ Len(g) = Len(s) + 1
          /\ \A k \in 1..Len(s) : g[k] = s[k]
      BY <3>1, AppendProperties
    <3>4. zmap' = zmap \cup {z}
      BY <2>2 DEF z
    <3> QED BY <3>2, <3>3, <3>4
  <2> HIDE DEF z, g
  <2>6. /\ v \in Inode /\ v.zone = g /\ v.dev = node[n].dev /\ v.size = node[n].size
        /\ v.kind = node[n].kind /\ v # NoNode
    <3>1. NoNode.zone = <<>> /\ Len(g) # Len(<<>>)
      BY <2>3, <2>5, Inodes
    <3> QED BY <2>3, <2>5, <3>1 DEF Inode
  <2>14. Base(v) = Base(node[n]) /\ Want(v) = Want(node[n]) /\ Slots(v) = Slots(node[n]) + 1
    <3> HIDE DEF v, n, s
    <3>1. Base(v) = Base(node[n]) /\ Want(v) = Want(node[n]) /\ Base(v) + Len(v.zone) = Slots(v)
      BY <2>6 DEF Base, Want, Slots
    <3> QED BY <2>3, <2>5, <2>6, <3>1
  <2>7. node' = [node EXCEPT ![n] = v]
    BY <2>2 DEF g
  <2> HIDE DEF v, n, s, i
  <2>8. /\ node' \in [Name -> Inode] /\ node'[n] = v /\ \A m \in Name : m # n => node'[m] = node[m]
    BY <2>3, <2>6, <2>7 DEF Inv, TypeInv
  <2>9. TypeInv'
    BY <2>1, <2>2, <2>8 DEF Inv, TypeInv
  <2>10. BitInv' /\ NewInv' /\ DiskInv' /\ DoneInv'
    BY <2>2, <2>3 DEF Inv, BitInv, NewInv, DiskInv, DoneInv
  <2>11. NameInv'
    <3>1. \A m \in Name : node'[m] # NoNode => dent[m] \in Ino
      BY <2>3, <2>8 DEF Inv, NameInv, i, n
    <3> QED BY <2>2, <2>3, <3>1 DEF Inv, NameInv
  <2>12. ZoneInv'
    <3>1. zmap \subseteq zmap'
      BY <2>2
    <3>2. /\ \A j \in Ino : Held(zmap', dino[j].zone)
          /\ \A m \in Name : Held(zmap', node'[m].zone)
      BY <3>1, <2>5, <2>6, <2>8, HeldMore DEF Inv, ZoneInv
    <3>3. \A j \in Ino : j # i => Apart(g, dino[j].zone)
      BY <2>3, <2>5 DEF Inv, ZoneInv, n, s, i
    <3>4. \A m \in Name : m # n => Apart(g, node[m].zone)
      BY <2>3, <2>5 DEF Inv, ZoneInv, n, s
    <3>5. \A m \in Name : \A j \in Ino : dent[m] # j => Apart(node'[m].zone, dino[j].zone)
      BY <2>6, <2>8, <3>3 DEF Inv, ZoneInv, i, n
    <3>6. \A m, l \in Name : m # l => Apart(node'[m].zone, node'[l].zone)
      BY <2>6, <2>8, <3>4, ApartSym DEF Inv, ZoneInv
    <3> QED BY <2>2, <2>3, <3>2, <3>5, <3>6 DEF Inv, ZoneInv
  <2>13. OpenInv'
    <3>1. ASSUME NEW m \in Name, node'[m] # NoNode
          PROVE  /\ node'[m].dev = dino[dent[m]].dev
                 /\ Len(dino[dent[m]].zone) <= Len(node'[m].zone)
                 /\ \A k \in DOMAIN dino[dent[m]].zone : node'[m].zone[k] = dino[dent[m]].zone[k]
      <4>1. CASE m = n
        <5>1. node[n] # NoNode /\ dino[i] \in Inode
          BY <2>3, Inodes DEF Inv, TypeInv
        <5>2. dino[i].zone \in Seq(0..NZone)
          BY <5>1 DEF Inode
        <5>3. Len(dino[i].zone) \in Nat /\ DOMAIN dino[i].zone = 1..Len(dino[i].zone)
          BY <5>2, LenProperties
        <5>4. /\ node[n].dev = dino[i].dev /\ Len(dino[i].zone) <= Len(s)
              /\ \A k \in DOMAIN dino[i].zone : s[k] = dino[i].zone[k]
          BY <5>1, <2>3 DEF Inv, OpenInv, n, s, i
        <5>5. \A k \in DOMAIN dino[i].zone : g[k] = dino[i].zone[k]
          BY <5>3, <5>4, <2>3, <2>5
        <5> QED BY <4>1, <5>3, <5>4, <5>5, <2>3, <2>5, <2>6, <2>8 DEF n, i
      <4>2. CASE m # n
        BY <4>2, <2>8, <3>1 DEF Inv, OpenInv
      <4> QED BY <4>1, <4>2
    <3>2. op.idx = Slots(node[n]) + 1 /\ op.idx = Base(node[n]) + (Len(s) + 1)
      BY <1>1, <1>3, <2>3
    <3>3. ASSUME NEW m \in Name, node'[m] # NoNode
          PROVE  /\ node'[m].size = dino[dent[m]].size
                 /\ \A k \in DOMAIN node'[m].zone : data[node'[m].zone[k]] \in Block(dent[m], node'[m], k) \/ Pending(m, Base(node'[m]) + k)
                 /\ ~Writes(m) => Slots(node'[m]) = Want(node'[m])
      <4>1. CASE m = n
        <5>1. Writes(n) /\ Pending(n, Base(node[n]) + (Len(s) + 1))
          BY <1>1, <2>3, <3>2 DEF Writes, Pending, n
        <5>2. /\ node[n].size = dino[i].size
              /\ \A k \in DOMAIN s : data[s[k]] \in Block(i, node[n], k) \/ Pending(n, Base(node[n]) + k)
          BY <2>3 DEF Inv, OpenInv, n, s, i
        <5>4. \A k : Block(i, v, k) = Block(i, node[n], k)
          BY <2>14 DEF Block
        <5>3. \A k \in DOMAIN g : data[g[k]] \in Block(i, v, k) \/ Pending(n, Base(v) + k)
          <6> TAKE k \in DOMAIN g
          <6>1. k \in 1..Len(s) \/ k = Len(s) + 1
            BY <2>3, <2>5
          <6> QED BY <6>1, <5>1, <5>2, <5>4, <2>3, <2>5, <2>14
        <5> QED BY <4>1, <5>1, <5>2, <5>3, <2>6, <2>8 DEF n, i
      <4>2. CASE m # n
        BY <4>2, <2>8, <3>3 DEF Inv, OpenInv
      <4> QED BY <4>1, <4>2
    <3>4. Slots(v) <= Larger(Want(v), op.idx)
      BY <2>3, <2>14, <3>2 DEF Larger
    <3>5. /\ op' = op /\ node'[op.name] # NoNode /\ op.idx <= op.to
          /\ Slots(node'[op.name]) <= Larger(Want(node'[op.name]), op.idx)
      BY <1>1, <2>2, <2>6, <2>8, <3>4, Writing DEF n
    <3>6. \A m : Writes(m)' = Writes(m) /\ \A k : Pending(m, k)' = Pending(m, k)
      BY <2>2 DEF Writes, Pending
    <3>7. \A m \in Name : node'[m] # NoNode =>
            /\ node'[m].dev = dino'[dent'[m]].dev
            /\ Len(dino'[dent'[m]].zone) <= Len(node'[m].zone)
            /\ \A k \in DOMAIN dino'[dent'[m]].zone : node'[m].zone[k] = dino'[dent'[m]].zone[k]
      BY <2>2, <3>1
    <3>8. \A m \in Name : node'[m] # NoNode =>
            /\ node'[m].size = dino'[dent'[m]].size
            /\ \A k \in DOMAIN node'[m].zone : data'[node'[m].zone[k]] \in Block(dent'[m], node'[m], k) \/ Pending(m, Base(node[m]) + k)'
            /\ ~Writes(m)' => Slots(node'[m]) = Want(node'[m])
      BY <2>2, <3>3, <3>6
    <3> QED BY <1>1, <2>2, <3>5, <3>7, <3>8 DEF OpenInv
  <2> QED BY <2>9, <2>10, <2>11, <2>12, <2>13 DEF Inv
<1> QED BY <1>2, <1>3

\* A write goes on to its next block, or to the size
Advanced(o, p) ==
    /\ p \in WriteOp /\ p \notin CreateOp /\ p.name = o.name /\ p.to = o.to /\ p.idx <= p.to
    /\ \/ p.at = "block" /\ p.idx = o.idx + 1
       \/ p.at = "size" /\ p.idx = o.idx /\ o.idx = o.to

\* Advance does that
LEMMA AdvanceLemma ==
  ASSUME Inv, op.at = "block", op' = Advance
  PROVE  Advanced(op, op')
<1>1. /\ op \in WriteOp /\ op.idx \in 1..MaxBlocks /\ op.to \in 1..MaxBlocks /\ op.idx <= op.to
  BY Writing
<1>2. CASE op.idx < op.to
  <2>1. op' = [op EXCEPT !.idx = op.idx + 1]
    BY <1>2 DEF Advance
  <2>2. op.idx + 1 \in 1..MaxBlocks /\ op.idx + 1 <= op.to
    BY <1>1, <1>2, MinixAssumption
  <2>3. op' \in WriteOp /\ op'.name = op.name /\ op'.to = op.to /\ op'.at = "block" /\ op'.idx = op.idx + 1
    BY <1>1, <2>1, <2>2 DEF WriteOp
  <2> QED BY <2>2, <2>3, OpKinds DEF Advanced
<1>3. CASE ~(op.idx < op.to)
  <2>1. op' = [op EXCEPT !.at = "size"] /\ op.idx = op.to
    BY <1>1, <1>3, MinixAssumption DEF Advance
  <2>2. op' \in WriteOp /\ op'.name = op.name /\ op'.to = op.to /\ op'.at = "size" /\ op'.idx = op.idx
    BY <1>1, <2>1 DEF WriteOp
  <2> QED BY <1>1, <2>1, <2>2, OpKinds DEF Advanced
<1> QED BY <1>2, <1>3

\* Writing a block keeps Inv when every zone has what it may have afterwards
LEMMA BlockKeeps ==
  ASSUME Inv, op.at = "block", op.idx <= Slots(node[op.name]), Advanced(op, op'),
         UNCHANGED <<imap, zmap, dino, dent, node, done, fault>>,
         data' \in [0..NZone -> Nat \X Nat],
         \A j \in Ino : \A k \in DOMAIN dino[j].zone : data'[dino[j].zone[k]] \in Block(j, dino[j], k),
         \A m \in Name : node[m] # NoNode =>
           \A k \in DOMAIN node[m].zone : data'[node[m].zone[k]] \in Block(dent[m], node[m], k)
  PROVE  Inv'
<1> DEFINE n == op.name
<1>1. /\ op \in WriteOp /\ op \notin CreateOp /\ n \in Name /\ node[n] # NoNode
      /\ op.idx \in 1..MaxBlocks /\ Want(node[n]) \in Nat /\ Slots(node[n]) \in Nat
  BY Writing
<1>2. op' \in WriteOp /\ op' \notin CreateOp /\ op'.name = n /\ op'.idx <= op'.to
  BY DEF Advanced
<1>3. TypeInv'
  BY <1>2 DEF Inv, TypeInv
<1>4. BitInv' /\ NewInv' /\ DoneInv'
  BY <1>1, <1>2 DEF Inv, BitInv, NewInv, DoneInv
<1>5. NameInv'
  BY <1>1, <1>2 DEF Inv, NameInv
<1>6. ZoneInv'
  BY <1>1, <1>2 DEF Inv, ZoneInv
<1>7. DiskInv'
  BY DEF Inv, DiskInv
<1>8. OpenInv'
  <2>1. Slots(node[n]) <= Larger(Want(node[n]), op.idx)
    BY <1>1 DEF Inv, OpenInv
  <2>2. /\ op'.at = "block" => Slots(node[n]) <= Larger(Want(node[n]), op'.idx)
        /\ op'.at = "size" => Slots(node[n]) = Larger(Want(node[n]), op'.to)
    <3>1. op.idx \in Nat /\ Want(node[n]) <= Slots(node[n])
      BY <1>1, Writing, MinixAssumption
    <3>2. CASE op'.at = "block" /\ op'.idx = op.idx + 1
      BY <3>1, <3>2, <2>1, <1>1 DEF Larger
    <3>3. CASE op'.at = "size" /\ op'.to = op.idx
      BY <3>1, <3>3, <2>1, <1>1 DEF Larger
    <3> QED BY <3>2, <3>3 DEF Advanced
  <2>3. \A m \in Name : ~Writes(m)' => ~Writes(m)
    BY <1>2 DEF Writes
  <2>4. \A m \in Name : node[m] # NoNode =>
          /\ node[m].dev = dino[dent[m]].dev
          /\ Len(dino[dent[m]].zone) <= Len(node[m].zone)
          /\ \A k \in DOMAIN dino[dent[m]].zone : node[m].zone[k] = dino[dent[m]].zone[k]
    BY DEF Inv, OpenInv
  <2>5. \A m \in Name : node[m] # NoNode =>
          /\ node[m].size = dino[dent[m]].size
          /\ ~Writes(m)' => Slots(node[m]) = Want(node[m])
    BY <2>3 DEF Inv, OpenInv
  <2> QED BY <1>1, <1>2, <2>2, <2>4, <2>5 DEF OpenInv
<1> QED BY <1>3, <1>4, <1>5, <1>6, <1>7, <1>8 DEF Inv

\* A block goes into the zone at its index, which no other file and no other block has
LEMMA WriteBlockKeeps ==
  ASSUME Inv, WriteBlock
  PROVE  Inv'
<1> DEFINE n == op.name
           i == dent[op.name]
           s == node[op.name].zone
           b == Base(node[op.name])
           x == op.idx - b
<1>1. /\ op.at = "block" /\ op.idx <= Slots(node[n]) /\ op.idx > b /\ op' = Advance
      /\ data' = [data EXCEPT ![s[x]] = <<i, op.idx>>]
      /\ UNCHANGED <<imap, zmap, dino, dent, node, done, fault>>
  BY DEF WriteBlock, Up
<1>2. /\ op \in WriteOp /\ n \in Name /\ op.idx \in 1..MaxBlocks
      /\ op \notin CreateOp /\ node[n] # NoNode /\ i \in Ino
      /\ s \in Seq(0..NZone) /\ Len(s) \in Nat /\ DOMAIN s = 1..Len(s)
      /\ b \in {0, 1} /\ Slots(node[n]) = b + Len(s)
      /\ \A m \in Name : m # n => dent[m] # i
  BY <1>1, Writing
<1>3. op.idx \in Nat /\ x \in DOMAIN s /\ s[x] \in 0..NZone /\ b + x = op.idx
  <2>1. op.idx \in Nat /\ x \in DOMAIN s /\ b + x = op.idx
    BY <1>1, <1>2, MinixAssumption
  <2> QED BY <2>1, <1>2, ElementOfSeq
<1>4. Advanced(op, op')
  BY <1>1, AdvanceLemma
<1>5. /\ data' \in [0..NZone -> Nat \X Nat] /\ data'[s[x]] = <<i, op.idx>>
      /\ \A y \in 0..NZone : y # s[x] => data'[y] = data[y]
  <2>1. <<i, op.idx>> \in Nat \X Nat
    BY <1>2, <1>3, MinixAssumption DEF Ino
  <2> QED BY <1>1, <1>3, <2>1 DEF Inv, TypeInv
<1>6. Held(zmap, s) /\ zmap \subseteq 0..NZone
  BY <1>2 DEF Inv, TypeInv, ZoneInv
<1> HIDE DEF n, i, s, x, b
\* the file has what it had, and this block
<1>7. \A k \in DOMAIN s : data'[s[k]] \in Block(i, node[n], k)
  <2> TAKE k \in DOMAIN s
  <2>1. CASE k = x
    BY <2>1, <1>3, <1>5 DEF Block, b, n
  <2>2. CASE k # x
    <3>1. s[k] # s[x] /\ s[k] \in 0..NZone
      BY <2>2, <1>3, <1>6 DEF Held
    <3>2. b + k # op.idx
      BY <2>2, <1>2, <1>3
    <3>3. data[s[k]] \in Block(i, node[n], k)
      BY <3>2, <1>2 DEF Inv, OpenInv, Pending, n, s, i, b
    <3> QED BY <3>1, <3>3, <1>5
  <2> QED BY <2>1, <2>2
\* zones of others keep what they have
<1>8. ASSUME NEW t, Held(zmap, t), Apart(s, t), NEW k \in DOMAIN t
      PROVE  data'[t[k]] = data[t[k]]
  <2>1. t[k] # s[x] /\ t[k] \in 0..NZone
    BY <1>8, <1>3, <1>6 DEF Held, Apart
  <2> QED BY <2>1, <1>5
\* on the disk, and in memory
<1>9. ASSUME NEW j \in Ino, NEW k \in DOMAIN dino[j].zone
      PROVE  data'[dino[j].zone[k]] \in Block(j, dino[j], k)
  <2>1. data[dino[j].zone[k]] \in Block(j, dino[j], k)
    BY DEF Inv, DiskInv
  <2>2. CASE j = i
    <3>1. dino[i] \in Inode
      BY <1>2 DEF Inv, TypeInv
    <3>2. Len(dino[i].zone) \in Nat /\ DOMAIN dino[i].zone = 1..Len(dino[i].zone)
      BY <3>1, SlotsNat
    <3>3. /\ Len(dino[i].zone) <= Len(s) /\ dino[i].dev = node[n].dev
          /\ \A l \in DOMAIN dino[i].zone : s[l] = dino[i].zone[l]
      BY <1>2 DEF Inv, OpenInv, n, s, i
    <3>4. k \in DOMAIN s /\ s[k] = dino[j].zone[k]
      BY <2>2, <3>2, <3>3, <1>2
    <3>5. Block(i, node[n], k) = Block(i, dino[i], k)
      BY <3>3 DEF Block, Base
    <3> QED BY <2>2, <3>4, <3>5, <1>7
  <2>3. CASE j # i
    <3>1. Held(zmap, dino[j].zone) /\ Apart(s, dino[j].zone)
      BY <2>3, <1>2 DEF Inv, ZoneInv, n, s, i
    <3> QED BY <3>1, <2>1, <1>8
  <2> QED BY <2>2, <2>3
<1>10. ASSUME NEW m \in Name, node[m] # NoNode, NEW k \in DOMAIN node[m].zone
       PROVE  data'[node[m].zone[k]] \in Block(dent[m], node[m], k)
  <2>1. CASE m = n
    BY <2>1, <1>7 DEF n, i, s
  <2>2. CASE m # n
    <3>1. Held(zmap, node[m].zone) /\ Apart(s, node[m].zone)
      BY <2>2, <1>2 DEF Inv, ZoneInv, n, s
    <3>2. data[node[m].zone[k]] \in Block(dent[m], node[m], k)
      BY <1>10, <2>2, <1>2 DEF Inv, OpenInv, Writes, Pending, n
    <3> QED BY <3>1, <3>2, <1>8
  <2> QED BY <2>1, <2>2
<1>11. op.idx <= Slots(node[op.name])
  BY <1>1 DEF n
<1>12. op.at = "block" /\ UNCHANGED <<imap, zmap, dino, dent, node, done, fault>>
  BY <1>1
<1> QED BY <1>4, <1>5, <1>9, <1>10, <1>11, <1>12, BlockKeeps

\* A block of a device's inode goes where its number points, to a zone of a file or not
LEMMA WriteForeignKeeps ==
  ASSUME Inv, WriteForeign
  PROVE  Inv'
<1> DEFINE r == node[op.name].dev
<1>1. /\ op.at = "block" /\ op.idx <= Base(node[op.name]) /\ op' = Advance
      /\ data' = IF r <= NZone THEN [data EXCEPT ![r] = Foreign] ELSE data
      /\ UNCHANGED <<imap, zmap, dino, dent, node, done, fault>>
  BY DEF WriteForeign, Up
<1>2. /\ op.idx \in 1..MaxBlocks /\ node[op.name] \in Inode /\ Len(node[op.name].zone) \in Nat
      /\ Slots(node[op.name]) = Base(node[op.name]) + Len(node[op.name].zone)
      /\ Base(node[op.name]) \in {0, 1}
  BY <1>1, Writing
<1>3. r \in Nat /\ op.idx <= Slots(node[op.name])
  BY <1>1, <1>2, SlotsNat, MinixAssumption
<1>4. Advanced(op, op')
  BY <1>1, AdvanceLemma
<1>5. /\ data' \in [0..NZone -> Nat \X Nat]
      /\ \A y \in 0..NZone : data'[y] \in {data[y], Foreign}
  <2>1. Foreign \in Nat \X Nat
    BY DEF Foreign
  <2>2. data \in [0..NZone -> Nat \X Nat]
    BY DEF Inv, TypeInv
  <2> QED BY <1>1, <1>3, <2>1, <2>2, MinixAssumption
<1> HIDE DEF r
<1>6. \A i, v, k : Foreign \in Block(i, v, k)
  BY DEF Block
<1>7. zmap \subseteq 0..NZone
  BY DEF Inv, TypeInv
<1>8. ASSUME NEW j \in Ino, NEW k \in DOMAIN dino[j].zone
      PROVE  data'[dino[j].zone[k]] \in Block(j, dino[j], k)
  <2>1. data[dino[j].zone[k]] \in Block(j, dino[j], k)
    BY DEF Inv, DiskInv
  <2>2. dino[j].zone[k] \in 0..NZone
    BY <1>7 DEF Inv, ZoneInv, Held
  <2> QED BY <2>1, <2>2, <1>5, <1>6
<1>9. ASSUME NEW m \in Name, node[m] # NoNode, NEW k \in DOMAIN node[m].zone
      PROVE  data'[node[m].zone[k]] \in Block(dent[m], node[m], k)
  <2>1. node[m].zone[k] \in 0..NZone
    BY <1>7 DEF Inv, ZoneInv, Held
  <2>2. ~Pending(m, Base(node[m]) + k)
    <3>1. node[m] \in Inode
      BY DEF Inv, TypeInv
    <3>2. k \in Nat /\ k >= 1 /\ Base(node[m]) \in {0, 1}
      BY <3>1, SlotsNat
    <3> QED BY <3>2, <1>1, <1>2, MinixAssumption DEF Pending, Writes
  <2>3. data[node[m].zone[k]] \in Block(dent[m], node[m], k)
    BY <1>9, <2>2 DEF Inv, OpenInv
  <2> QED BY <2>1, <2>3, <1>5, <1>6
<1> QED BY <1>1, <1>3, <1>4, <1>5, <1>8, <1>9, BlockKeeps

\* The inode reaches the disk after all its blocks
LEMMA WriteDoneKeeps ==
  ASSUME Inv, WriteDone
  PROVE  Inv'
<1> DEFINE n == op.name
           i == dent[op.name]
           old == node[op.name]
           v == [old EXCEPT !.size = Larger(@, op.to)]
<1>1. op.at = "size"
  BY DEF WriteDone, Up
<1>2. /\ op \in WriteOp /\ op \notin CreateOp /\ n \in Name /\ op.to \in 1..MaxBlocks
      /\ old # NoNode /\ i \in Ino /\ old \in Inode
      /\ old.zone \in Seq(0..NZone) /\ old.size \in Nat /\ Len(old.zone) \in Nat
      /\ dino[i].size = old.size /\ dino[i].dev = old.dev
      /\ \A m \in Name : m # n => dent[m] # i
  BY <1>1, Writing
<1>3. op.to \in Nat /\ Larger(old.size, op.to) \in Nat /\ (~(op.to > old.size) => Larger(old.size, op.to) = old.size)
  BY <1>2, MinixAssumption DEF Larger
<1>4. /\ v \in Inode /\ v.dev = old.dev /\ v.zone = old.zone /\ v.size = Larger(old.size, op.to)
      /\ Base(v) = Base(old) /\ Slots(v) = Slots(old) /\ Base(old) \in {0, 1}
  BY <1>2, <1>3 DEF Inode, Base, Slots
<1>5. ~(op.to > old.size) => v = old
  BY <1>2, <1>3 DEF Inode
<1>6. /\ node' = [node EXCEPT ![n] = v] /\ op' = Idle
      /\ done' = [done EXCEPT ![n] = Larger(@, op.to)]
      /\ UNCHANGED <<imap, zmap, dent, data, fault>>
  <2>1. \A x, y \in Nat : (IF y > x THEN y ELSE x) = Larger(x, y)
    BY DEF Larger
  <2>2. (IF op.to > old.size THEN op.to ELSE old.size) = Larger(old.size, op.to)
    BY <1>2, <1>3, <2>1
  <2>3. done[n] \in Nat
    BY <1>2 DEF Inv, TypeInv
  <2>4. (IF op.to > done[n] THEN op.to ELSE done[n]) = Larger(done[n], op.to)
    BY <1>3, <2>1, <2>3
  <2>5. /\ node' = [node EXCEPT ![n] = [old EXCEPT !.size = IF op.to > old.size THEN op.to ELSE old.size]]
        /\ done' = [done EXCEPT ![n] = IF op.to > done[n] THEN op.to ELSE done[n]]
        /\ op' = Idle /\ UNCHANGED <<imap, zmap, dent, data, fault>>
    BY DEF WriteDone
  <2> QED BY <2>2, <2>4, <2>5
<1> HIDE DEF v
<1>7. node' \in [Name -> Inode] /\ node'[n] = v /\ \A m \in Name : m # n => node'[m] = node[m]
  BY <1>2, <1>4, <1>6 DEF Inv, TypeInv
<1>8. dino' = IF op.to > old.size THEN [dino EXCEPT ![i] = v] ELSE dino
  <2>1. dino' = IF op.to > old.size THEN [dino EXCEPT ![i] = node'[n]] ELSE dino
    BY DEF WriteDone
  <2> QED BY <2>1, <1>7
<1>9. Slots(old) = Larger(Want(old), op.to)
  BY <1>1, <1>2 DEF Inv, OpenInv
<1>10. \A k \in DOMAIN old.zone : data[old.zone[k]] \in Block(i, old, k)
  BY <1>1, <1>2 DEF Inv, OpenInv, Pending
<1> HIDE DEF n, i, old
\* The inode on disk is that in memory, or the file has not grown and it is as it was
<1>11. /\ dino' \in [Ino -> Inode] /\ dino'[i].dev = v.dev /\ dino'[i].size = v.size
       /\ dino'[i] = v \/ (dino'[i] = dino[i] /\ v = old)
       /\ \A j \in Ino : j # i => dino'[j] = dino[j]
  <2>1. CASE op.to > old.size
    BY <2>1, <1>2, <1>4, <1>8 DEF Inv, TypeInv
  <2>2. CASE ~(op.to > old.size)
    BY <2>2, <1>2, <1>5, <1>8 DEF Inv, TypeInv
  <2> QED BY <2>1, <2>2
<1>12. TypeInv'
  <2>1. done' \in [Name -> Nat]
    BY <1>3, <1>6 DEF Inv, TypeInv, Larger
  <2> QED BY <1>6, <1>7, <1>11, <2>1 DEF Inv, TypeInv
<1>13. BitInv' /\ NewInv'
  BY <1>6, OpKinds DEF Inv, BitInv, NewInv
<1>14. NameInv'
  <2>1. \A m \in Name : node'[m] # NoNode => dent[m] \in Ino
    BY <1>2, <1>7 DEF Inv, NameInv, n, i
  <2>2. \A j \in Ino : (\A m \in Name : dent[m] # j) => dino'[j] = ZeroInode
    BY <1>2, <1>11 DEF Inv, NameInv, n, i
  <2> QED BY <1>6, <2>1, <2>2, OpKinds DEF Inv, NameInv
<1>15. ZoneInv'
  <2>1. /\ Held(zmap, old.zone) /\ Held(zmap, dino[i].zone)
        /\ \A j \in Ino : j # i => Apart(old.zone, dino[j].zone) /\ Apart(dino[i].zone, dino[j].zone)
        /\ \A m \in Name : m # n => Apart(old.zone, node[m].zone) /\ Apart(node[m].zone, dino[i].zone)
    BY <1>2 DEF Inv, ZoneInv, n, i, old
  <2>2. /\ node'[n].zone = old.zone /\ dino'[i].zone \in {old.zone, dino[i].zone}
    BY <1>4, <1>7, <1>11
  <2>3. /\ \A j \in Ino : Held(zmap, dino'[j].zone)
        /\ \A m \in Name : Held(zmap, node'[m].zone)
    BY <1>7, <1>11, <2>1, <2>2 DEF Inv, ZoneInv
  <2>4. \A j \in Ino : j # i => Apart(dino'[i].zone, dino'[j].zone)
    BY <1>11, <2>1, <2>2
  <2>5. \A j, l \in Ino : j # l => Apart(dino'[j].zone, dino'[l].zone)
    BY <1>11, <2>4, ApartSym DEF Inv, ZoneInv
  <2>6. \A m \in Name : m # n => Apart(node'[n].zone, node'[m].zone) /\ Apart(node'[m].zone, dino'[i].zone)
    BY <1>7, <2>1, <2>2, ApartSym
  <2>7. \A m, l \in Name : m # l => Apart(node'[m].zone, node'[l].zone)
    BY <1>7, <2>6, ApartSym DEF Inv, ZoneInv
  <2>8. ASSUME NEW m \in Name, NEW j \in Ino, dent[m] # j
        PROVE  Apart(node'[m].zone, dino'[j].zone)
    <3>1. CASE m = n
      BY <3>1, <2>8, <1>11, <2>1, <2>2 DEF n, i
    <3>2. CASE m # n /\ j = i
      BY <3>2, <2>6
    <3>3. CASE m # n /\ j # i
      BY <3>3, <2>8, <1>7, <1>11 DEF Inv, ZoneInv
    <3> QED BY <3>1, <3>2, <3>3
  <2> QED BY <1>6, <2>3, <2>5, <2>7, <2>8, OpKinds DEF ZoneInv
<1>16. Slots(v) = Want(v) /\ \A k \in DOMAIN v.zone : data[v.zone[k]] \in Block(i, v, k)
  <2>1. Larger(Larger(old.size, Base(old)), op.to) = Larger(Larger(old.size, op.to), Base(old))
    BY <1>2, <1>3, <1>4 DEF Larger
  <2>2. Slots(v) = Want(v)
    BY <1>4, <1>9, <2>1 DEF Want
  <2> QED BY <1>4, <1>10, <2>2 DEF Block
<1>17. DiskInv'
  <2>1. ASSUME NEW j \in Ino
        PROVE  /\ Slots(dino'[j]) = Want(dino'[j])
               /\ \A k \in DOMAIN dino'[j].zone : data[dino'[j].zone[k]] \in Block(j, dino'[j], k)
    <3>1. CASE j = i /\ dino'[i] = v
      BY <3>1, <1>16
    <3>2. CASE dino'[j] = dino[j]
      BY <3>2, <2>1 DEF Inv, DiskInv
    <3> QED BY <3>1, <3>2, <1>11
  <2> QED BY <1>6, <2>1 DEF DiskInv
<1>18. DoneInv'
  <2>1. ASSUME NEW m \in Name, done'[m] > 0
        PROVE  dent[m] \in Ino /\ done'[m] <= dino'[dent[m]].size
    <3>1. CASE m = n
      <4>1. done'[n] = Larger(done[n], op.to) /\ done[n] \in Nat
        BY <1>2, <1>6 DEF Inv, TypeInv
      <4>2. done[n] > 0 => done[n] <= old.size
        BY <1>2 DEF Inv, DoneInv, n, i
      <4>3. done'[n] <= v.size
        BY <4>1, <4>2, <1>2, <1>3, <1>4 DEF Larger
      <4> QED BY <3>1, <4>3, <1>2, <1>11 DEF n, i
    <3>2. CASE m # n
      <4>1. done'[m] = done[m] /\ done[m] > 0
        BY <3>2, <2>1, <1>6 DEF Inv, TypeInv
      <4> QED BY <3>2, <4>1, <1>2, <1>11 DEF Inv, DoneInv
    <3> QED BY <3>1, <3>2
  <2> QED BY <1>6, <2>1 DEF DoneInv
<1>19. OpenInv'
  <2>1. ASSUME NEW m \in Name, node'[m] # NoNode
        PROVE  /\ node'[m].dev = dino'[dent[m]].dev
               /\ Len(dino'[dent[m]].zone) <= Len(node'[m].zone)
               /\ \A k \in DOMAIN dino'[dent[m]].zone : node'[m].zone[k] = dino'[dent[m]].zone[k]
    <3>1. CASE m = n /\ dino'[i] = v
      <4>1. Len(v.zone) <= Len(v.zone)
        BY <1>2, <1>4
      <4> QED BY <3>1, <4>1, <1>7 DEF n, i
    <3>2. CASE m = n /\ dino'[i] = dino[i] /\ v = old
      BY <3>2, <1>2, <1>7 DEF Inv, OpenInv, n, i, old
    <3>3. CASE m # n
      <4>1. node'[m] = node[m] /\ dent[m] \in Ino /\ dent[m] # i
        BY <3>3, <2>1, <1>2, <1>7 DEF Inv, NameInv
      <4> QED BY <4>1, <2>1, <1>11 DEF Inv, OpenInv
    <3> QED BY <3>1, <3>2, <3>3, <1>11
  <2>2. ASSUME NEW m \in Name, node'[m] # NoNode
        PROVE  /\ node'[m].size = dino'[dent[m]].size
               /\ \A k \in DOMAIN node'[m].zone : data[node'[m].zone[k]] \in Block(dent[m], node'[m], k)
               /\ Slots(node'[m]) = Want(node'[m])
    <3>1. CASE m = n
      BY <3>1, <1>7, <1>11, <1>16 DEF n, i
    <3>2. CASE m # n
      <4>1. node'[m] = node[m] /\ node[m] # NoNode
        BY <3>2, <2>2, <1>7, Inodes
      <4>2. dent[m] \in Ino /\ dino'[dent[m]] = dino[dent[m]]
        BY <3>2, <4>1, <1>2, <1>11 DEF Inv, NameInv
      <4> QED BY <3>2, <4>1, <4>2, <1>2 DEF Inv, OpenInv, Writes, Pending, n
    <3> QED BY <3>1, <3>2
  <2> QED BY <1>6, <2>1, <2>2, OpKinds DEF OpenInv
<1> QED BY <1>12, <1>13, <1>14, <1>15, <1>17, <1>18, <1>19 DEF Inv

\* A fresh file system satisfies Inv
LEMMA InitKeeps == Init => Inv
<1> SUFFICES ASSUME Init PROVE Inv
  OBVIOUS
<1>1. /\ imap = {0, 1} /\ zmap = {0, 1} /\ dino = [i \in Ino |-> ZeroInode]
      /\ dent = [n \in Name |-> 0] /\ data = [z \in 0..NZone |-> Free] /\ node = [n \in Name |-> NoNode]
      /\ op = Idle /\ done = [n \in Name |-> 0] /\ fault = FALSE
  BY DEF Init
<1>2. TypeInv
  <2>1. imap \in SUBSET (0..NIno) /\ zmap \in SUBSET (0..NZone) /\ dent \in [Name -> 0..(NIno + 1)]
    BY <1>1, MinixAssumption
  <2>2. dino \in [Ino -> Inode] /\ node \in [Name -> Inode] /\ data \in [0..NZone -> Nat \X Nat]
    BY <1>1, Inodes DEF Free
  <2> QED BY <1>1, <2>1, <2>2 DEF TypeInv
<1>3. BitInv /\ NameInv /\ NewInv /\ DoneInv
  BY <1>1, OpKinds, MinixAssumption DEF BitInv, NameInv, NewInv, DoneInv
<1>4. ZoneInv
  BY <1>1, Inodes, NoZones, OpKinds DEF ZoneInv
<1>5. DiskInv /\ OpenInv
  BY <1>1, Inodes, OpKinds DEF DiskInv, OpenInv
<1> QED BY <1>2, <1>3, <1>4, <1>5 DEF Inv

\* Inv is inductive
LEMMA StepKeeps == Inv /\ [Next]_vars => Inv'
<1> SUFFICES ASSUME Inv, [Next]_vars PROVE Inv'
  OBVIOUS
<1>1. CASE UNCHANGED vars
  <2>1. TypeInv' /\ BitInv' /\ NameInv' /\ NewInv' /\ DiskInv' /\ DoneInv'
    BY <1>1 DEF vars, Inv, TypeInv, BitInv, NameInv, NewInv, DiskInv, DoneInv
  <2>2. ZoneInv'
    BY <1>1 DEF vars, Inv, ZoneInv
  <2>3. OpenInv'
    BY <1>1 DEF vars, Inv, OpenInv, Writes, Pending
  <2> QED BY <2>1, <2>2, <2>3 DEF Inv
<1>2. ASSUME NEW n \in Name, NEW k \in {"reg", "dir"}, minix_ialloc(n, k, 0)
      PROVE  Inv'
  BY <1>2, IallocKeeps
<1>7. ASSUME NEW n \in Name, NEW r \in RDev, minix_ialloc(n, "dev", r)
      PROVE  Inv'
  BY <1>7, IallocKeeps, MinixAssumption
<1>3. ASSUME NEW n \in Name, minix_open(n) \/ minix_truncate(n)
      PROVE  Inv'
  BY <1>3, OpenKeeps, TruncateKeeps
<1>4. ASSUME NEW n \in Name, NEW from \in 1..MaxBlocks, NEW to \in 1..MaxBlocks, minix_write(n, from, to)
      PROVE  Inv'
  BY <1>4, WriteKeeps
<1>5. CASE minix_eddir \/ minix_setupdir \/ WriteDots \/ CreateDone
  BY <1>5, EddirKeeps, SetupdirKeeps, WriteDotsKeeps, CreateDoneKeeps
<1>6. CASE minix_zext \/ WriteBlock \/ WriteForeign \/ WriteDone \/ Crash
  BY <1>6, ZextKeeps, WriteBlockKeeps, WriteForeignKeeps, WriteDoneKeeps, CrashKeeps
<1> QED BY <1>1, <1>2, <1>3, <1>4, <1>5, <1>6, <1>7 DEF Next

\* At every moment, crashes included, Inv holds of disk and memory.
THEOREM InvHolds == Spec => []Inv
BY InitKeeps, StepKeeps, PTL DEF Spec

\* No inode has two names and no zone two owners, whenever power is lost
\* (minix_ialloc, minix_zalloc, minix_eddir and minix_isync in their order).
THEOREM OwnedOnceHolds == Spec => []OwnedOnce
<1>1. Inv => OwnedOnce
  <2> SUFFICES ASSUME Inv PROVE OwnedOnce
    OBVIOUS
  <2>1. \A n \in Named : n \in Name /\ dent[n] \in Ino /\ dent[n] # 0
    BY MinixAssumption DEF Named, Ino
  <2>2. \A n \in Named : dent[n] - 1 \in imap
    BY <2>1 DEF Inv, BitInv
  <2>3. \A n, m \in Named : n # m => dent[n] # dent[m]
    BY <2>1 DEF Inv, NameInv
  <2>4. \A n \in Named : \A v \in Views(n) : Held(zmap, v.zone)
    BY <2>1 DEF Inv, ZoneInv, Views
  <2>5. \A n, m \in Named : n # m => \A v \in Views(n), w \in Views(m) : Apart(v.zone, w.zone)
    BY <2>1, <2>3, ApartSym DEF Inv, ZoneInv, Views
  <2>6. \A n \in Named : \A v \in Views(n) :
          /\ Zones(v) \subseteq zmap
          /\ \A i, j \in DOMAIN v.zone : v.zone[i] = v.zone[j] => i = j
    BY <2>4 DEF Held, Zones
  <2>7. \A n, m \in Named : n # m => \A v \in Views(n), w \in Views(m) : Zones(v) \cap Zones(w) = {}
    BY <2>5 DEF Apart, Zones
  <2> QED BY <2>2, <2>3, <2>6, <2>7 DEF OwnedOnce
<1> QED BY <1>1, InvHolds, PTL

\* What a returned minix_write has written survives every crash, unless somebody wrote
\* through the number of a device to its block.
THEOREM DurableHolds == Spec => []Durable
<1>1. Inv => Durable
  <2> SUFFICES ASSUME Inv, NEW n \in Name, done[n] > 0
               PROVE  /\ dent[n] # 0 /\ dino[dent[n]].size >= done[n]
                      /\ \A i \in 1..done[n] :
                           LET d == dino[dent[n]] IN
                           /\ i <= Slots(d)
                           /\ i > Base(d) => data[d.zone[i - Base(d)]] \in {<<dent[n], i>>, Foreign}
    BY DEF Durable
  <2> DEFINE d == dino[dent[n]]
  <2>1. dent[n] \in Ino /\ done[n] <= d.size /\ done[n] \in Nat
    BY DEF Inv, TypeInv, DoneInv
  <2>2. Slots(d) = Want(d) /\ \A k \in DOMAIN d.zone : data[d.zone[k]] \in Block(dent[n], d, k)
    BY <2>1 DEF Inv, DiskInv
  <2>3. d \in Inode
    BY <2>1 DEF Inv, TypeInv
  <2>4. /\ DOMAIN d.zone = 1..Len(d.zone) /\ Len(d.zone) \in Nat /\ d.size \in Nat
        /\ Base(d) \in {0, 1} /\ Slots(d) = Base(d) + Len(d.zone)
    BY <2>3, SlotsNat
  <2>5. dent[n] # 0
    BY <2>1, MinixAssumption DEF Ino
  <2>6. d.size <= Slots(d)
    BY <2>2, <2>4 DEF Want, Larger
  <2> HIDE DEF d
  <2>7. ASSUME NEW i \in 1..done[n]
        PROVE  /\ i <= Slots(d)
               /\ i > Base(d) => data[d.zone[i - Base(d)]] \in {<<dent[n], i>>, Foreign}
    <3>1. i <= Slots(d)
      BY <2>1, <2>4, <2>6
    <3>2. CASE i > Base(d)
      <4>1. i - Base(d) \in DOMAIN d.zone /\ Base(d) + (i - Base(d)) = i
        BY <2>1, <2>4, <3>1, <3>2
      <4>2. data[d.zone[i - Base(d)]] \in Block(dent[n], d, i - Base(d))
        BY <2>2, <4>1
      <4> QED BY <3>1, <4>1, <4>2 DEF Block
    <3> QED BY <3>1, <3>2
  <2> QED BY <2>1, <2>4, <2>5, <2>7 DEF d
<1> QED BY <1>1, InvHolds, PTL

================================================================================
