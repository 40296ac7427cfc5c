------------------------------- MODULE MemProofs -------------------------------
(***************************************************************************)
(* Proofs about Mem: the heap keeps its boundary tags and every page is     *)
(* accounted for, for all ranges, page sizes and requests, until memory has  *)
(* two uses (aliased) or malloc takes a word that is no tag for one          *)
(* (swallowed).                                                             *)
(*                                                                         *)
(* Walk, the recursive function by which malloc and the invariants go over   *)
(* the blocks, is dealt with once: a function with its equation exists       *)
(* (StepExists), and on a tiled heap its value is the set of blocks from     *)
(* where it starts (WalkIs).  Each operation then has a lemma that turns a   *)
(* tiled heap into a tiled heap and says which blocks are in use in it.      *)
(***************************************************************************)
EXTENDS Mem, FiniteSetTheorems, WellFoundedInduction, TLAPS

-----------------------------------------------------------------------------
(* Sets of natural numbers.                                                  *)

\* A set of numbers that is not empty has a least one, which Min returns.
LEMMA MinIs ==
  ASSUME NEW S \in SUBSET Nat, S # {}
  PROVE  /\ Min(S) \in S
         /\ \A y \in S : Min(S) <= y
<1>1. PICK x \in S : \A y \in S : ~(<<y, x>> \in OpToRel(<, Nat))
  BY WFMin, NatLessThanWellFounded
<1>2. ASSUME NEW y \in S
      PROVE  x <= y
  <2>1. x \in Nat /\ y \in Nat /\ <<y, x>> \in Nat \X Nat
    OBVIOUS
  <2>2. ~(y < x)
    BY <1>1, <2>1 DEF OpToRel
  <2> QED
    BY <2>1, <2>2
<1> QED
  BY <1>2 DEF Min

\* The greatest element, where there is one.
LEMMA MaxIs ==
  ASSUME NEW S \in SUBSET Nat, NEW m \in S, \A y \in S : y <= m
  PROVE  Max(S) = m
<1>1. Max(S) \in S /\ \A y \in S : Max(S) >= y
  <2>1. \A y \in S : m >= y
    OBVIOUS
  <2> QED
    BY <2>1 DEF Max
<1>2. Max(S) \in Nat /\ m \in Nat /\ Max(S) <= m /\ Max(S) >= m
  BY <1>1
<1> QED
  BY <1>2

\* Lists of ranges have finitely many pages.
LEMMA PagesFinite ==
  ASSUME NEW n \in Nat, NEW l, DOMAIN l = 1..n,
         \A i \in 1..n : l[i].addr \in Nat /\ l[i].pages \in Nat
  PROVE  IsFiniteSet(Pages(l))
<1> DEFINE Row == {l[i].addr .. l[i].addr + l[i].pages - 1 : i \in 1..n}
           f == [i \in 1..n |-> l[i].addr .. l[i].addr + l[i].pages - 1]
<1>1. ASSUME NEW T \in Row
      PROVE  IsFiniteSet(T)
  <2>1. PICK i \in 1..n : T = l[i].addr .. l[i].addr + l[i].pages - 1
    OBVIOUS
  <2>2. l[i].addr \in Int /\ l[i].addr + l[i].pages - 1 \in Int
    OBVIOUS
  <2> QED
    BY <2>1, <2>2, FS_Interval
<1>2. IsFiniteSet(Row)
  <2>1. f \in Surjection(1..n, Row)
    BY DEF Surjection
  <2>2. IsFiniteSet(1..n)
    BY FS_Interval
  <2> QED
    BY <2>1, <2>2, FS_Surjection
<1>3. Pages(l) = UNION Row
  BY DEF Pages
<1> QED
  BY <1>1, <1>2, <1>3, FS_UNION

\* The heap has finitely many units, so Walk ends.
LEMMA CapType == Cap \in Nat /\ Cardinality(Pages(Ranges)) \in Nat
<1>1. IsFiniteSet(Pages(Ranges))
  <2>1. Len(Ranges) \in Nat /\ DOMAIN Ranges = 1..Len(Ranges)
    BY MemAssumption
  <2>2. \A i \in 1..Len(Ranges) : Ranges[i].addr \in Nat /\ Ranges[i].pages \in Nat
    <3> DEFINE R == [addr : Nat \ {0}, pages : Nat \ {0}]
    <3>1. Ranges \in Seq(R)
      BY MemAssumption
    <3>2. \A r \in R : r.addr \in Nat /\ r.pages \in Nat
      OBVIOUS
    <3> HIDE DEF R
    <3>3. \A i \in 1..Len(Ranges) : Ranges[i] \in R
      BY <3>1
    <3> QED
      BY <3>2, <3>3
  <2> QED
    BY <2>1, <2>2, PagesFinite
<1>2. Cardinality(Pages(Ranges)) \in Nat
  BY <1>1, FS_CardinalityType
<1> QED
  BY <1>2, MemAssumption

-----------------------------------------------------------------------------
(* What Walk finds.                                                          *)

\* The equation of the recursive function in Walk.
Step(H, f, b) ==
    IF b >= H.brk THEN {}
    ELSE {b} \cup IF H.hdr[b].siz \in 1..(Cap - b) THEN f[b + H.hdr[b].siz] ELSE {}

IsStep(H, f) == f = [b \in 0..Cap |-> Step(H, f, b)]

\* Walk reads a function that satisfies its equation, if there is one.
LEMMA WalkStep ==
  ASSUME NEW H, NEW f, IsStep(H, f), NEW u
  PROVE  \E g : IsStep(H, g) /\ Walk(H, u) = g[u]
BY DEF Walk, IsStep, Step

\* The heaps of the model.
Word == [siz : Nat, aloc : BOOLEAN]
Heap == [hdr : [0..Cap -> Word], ftr : [-1..Cap -> Word], brk : 0..Cap, pages : Nat, ok : BOOLEAN]

\* Walk goes on from b; From(H, b) is what it can reach, without recursion.
GoesOn(H, b) == b < H.brk /\ H.hdr[b].siz \in 1..(Cap - b)
Closed(H) == {S \in SUBSET (0..Cap) : \A b \in S : GoesOn(H, b) => b + H.hdr[b].siz \in S}
From(H, b) == {c \in 0..Cap : \A S \in Closed(H) : b \in S => c \in S}

\* The three cases of the equation.
LEMMA StepCases ==
  ASSUME NEW H \in Heap, NEW f, NEW b \in 0..Cap
  PROVE  /\ b >= H.brk => Step(H, f, b) = {}
         /\ b < H.brk /\ ~GoesOn(H, b) => Step(H, f, b) = {b}
         /\ GoesOn(H, b) => Step(H, f, b) = {b} \cup f[b + H.hdr[b].siz]
<1>0. Cap \in Nat /\ H.brk \in 0..Cap
  BY CapType DEF Heap
<1>1. b < H.brk => ~(b >= H.brk)
  BY <1>0
<1>2. b < H.brk /\ ~GoesOn(H, b) => Step(H, f, b) = {b} \cup {}
  BY <1>1, Zenon DEF Step, GoesOn
<1> QED
  BY <1>1, <1>2, Zenon DEF Step, GoesOn

\* There is one: the blocks found from b on, as the least set that holds b and is
\* closed under going on.
LEMMA StepExists ==
  ASSUME NEW H \in Heap
  PROVE  \E f : IsStep(H, f)
<1> DEFINE f == [b \in 0..Cap |-> {c \in From(H, b) : c < H.brk}]
<1>0. Cap \in Nat /\ H.brk \in 0..Cap /\ \A b \in 0..Cap : H.hdr[b].siz \in Nat
  BY CapType DEF Heap, Word
<1>1. \A b \in 0..Cap : f[b] = {c \in From(H, b) : c < H.brk}
  OBVIOUS
<1> HIDE DEF f
<1>2. ASSUME NEW b \in 0..Cap
      PROVE  f[b] = Step(H, f, b)
  <2>0. b \in From(H, b) /\ From(H, b) \subseteq 0..Cap
    BY DEF From
  <2>1. CASE ~GoesOn(H, b)
    <3>1. {b} \in Closed(H)
      BY <2>1 DEF Closed
    <3>2. From(H, b) = {b}
      BY <2>0, <3>1 DEF From
    <3>3. CASE b >= H.brk
      <4>1. f[b] = {}
        BY <1>0, <1>1, <3>2, <3>3
      <4> QED
        BY <3>3, <4>1, StepCases
    <3>4. CASE b < H.brk
      <4>1. f[b] = {b}
        BY <1>0, <1>1, <3>2, <3>4
      <4> QED
        BY <1>0, <2>1, <3>4, <4>1, StepCases
    <3> QED
      BY <1>0, <3>3, <3>4
  <2>2. CASE GoesOn(H, b)
    <3> DEFINE n == b + H.hdr[b].siz
    <3>1. n \in 0..Cap
      BY <1>0, <2>2 DEF GoesOn
    <3> HIDE DEF n
    <3>2. n \in From(H, n) /\ From(H, n) \subseteq 0..Cap
      BY <3>1 DEF From
    <3>3. From(H, n) \in Closed(H)
      <4>1. ASSUME NEW c \in From(H, n), GoesOn(H, c), NEW S \in Closed(H), n \in S
            PROVE  c + H.hdr[c].siz \in S
        BY <4>1 DEF From, Closed
      <4>2. ASSUME NEW c \in From(H, n), GoesOn(H, c)
            PROVE  c + H.hdr[c].siz \in 0..Cap
        BY <1>0, <3>2, <4>2 DEF GoesOn
      <4> QED
        BY <3>2, <4>1, <4>2 DEF From, Closed
    <3>4. {b} \cup From(H, n) \in Closed(H)
      BY <3>2, <3>3 DEF Closed, n
    <3>5. From(H, b) = {b} \cup From(H, n)
      <4>1. From(H, b) \subseteq {b} \cup From(H, n)
        BY <3>4 DEF From
      <4>2. ASSUME NEW S \in Closed(H), b \in S
            PROVE  n \in S
        BY <2>2, <4>2 DEF Closed, n
      <4>3. From(H, n) \subseteq From(H, b)
        BY <4>2 DEF From
      <4> QED
        BY <2>0, <4>1, <4>3
    <3>6. f[b] = {b} \cup f[n]
      BY <1>0, <1>1, <2>2, <3>1, <3>5 DEF GoesOn
    <3> QED
      BY <2>2, <3>6, StepCases DEF n
  <2> QED
    BY <2>1, <2>2
<1>3. f = [b \in 0..Cap |-> Step(H, f, b)]
  <2>1. f = [b \in 0..Cap |-> f[b]]
    BY DEF f
  <2> QED
    BY <1>2, <2>1, Zenon
<1> QED
  BY <1>3 DEF IsStep

-----------------------------------------------------------------------------
(* Heaps that are tiled by blocks.                                           *)

\* The sizes in the headers.
Size(H) == [b \in 0..Cap |-> H.hdr[b].siz]

\* Blocks B of sizes s cover the units from 0 to e, one after the other.
Cover(s, B, e) ==
    /\ B \subseteq 0..Cap /\ e \in 0..Cap /\ 0 \in B \cup {e}
    /\ \A b \in B : b < e /\ s[b] \in Nat \ {0} /\ b + s[b] \in B \cup {e}
    /\ \A b, c \in B : b < c => b + s[b] <= c
    /\ \A c \in B \cup {e} : c = 0 \/ \E b \in B : b + s[b] = c

\* The blocks B cover the heap and the two tags of each agree.
Tiled(H, B) ==
    /\ H \in Heap /\ H.ok = TRUE
    /\ Cover(Size(H), B, H.brk)
    /\ \A b \in B : H.ftr[b + H.hdr[b].siz - 1] = H.hdr[b]
    /\ H.hdr[H.brk] = Tag(0, TRUE) /\ H.ftr[-1] = Tag(1, TRUE)

\* What a tiled heap is made of.
LEMMA TiledFacts ==
  ASSUME NEW H, NEW B, Tiled(H, B)
  PROVE  /\ Cap \in Nat /\ H \in Heap /\ H.brk \in 0..Cap /\ H.pages \in Nat /\ H.ok = TRUE
         /\ \A b \in 0..Cap : H.hdr[b] \in Word /\ H.hdr[b].siz \in Nat /\ H.hdr[b].aloc \in BOOLEAN
         /\ \A b \in -1..Cap : H.ftr[b] \in Word
         /\ \A b \in B : b \in 0..Cap /\ b < H.brk /\ H.hdr[b].siz > 0
         /\ \A b \in B : b + H.hdr[b].siz \in B \cup {H.brk} /\ b + H.hdr[b].siz <= H.brk
         /\ \A b, c \in B : b < c => b + H.hdr[b].siz <= c
         /\ \A c \in B \cup {H.brk} : c = 0 \/ \E b \in B : b + H.hdr[b].siz = c
<1> DEFINE s == Size(H)
<1>1. H \in Heap /\ H.ok = TRUE /\ Cover(s, B, H.brk)
  BY DEF Tiled
<1>2. Cap \in Nat /\ H.brk \in 0..Cap /\ H.pages \in Nat
  BY <1>1, CapType DEF Heap
<1>3. \A b \in 0..Cap : H.hdr[b] \in Word
  BY <1>1 DEF Heap
<1>4. \A b \in -1..Cap : H.ftr[b] \in Word
  BY <1>1 DEF Heap
<1>5. \A w \in Word : w.siz \in Nat /\ w.aloc \in BOOLEAN
  BY DEF Word
<1>6. \A b \in 0..Cap : s[b] = H.hdr[b].siz
  BY DEF Size
<1> HIDE DEF s
<1>7. \A b \in B : b \in 0..Cap /\ b < H.brk /\ s[b] \in Nat /\ s[b] > 0 /\ s[b] = H.hdr[b].siz
  BY <1>1, <1>6 DEF Cover
<1>8. \A b \in B : b + s[b] \in B \cup {H.brk}
  BY <1>1 DEF Cover
<1>9. \A b \in B : b + s[b] <= H.brk
  BY <1>2, <1>7, <1>8
<1>10. \A b, c \in B : b < c => b + s[b] <= c
  BY <1>1 DEF Cover
<1>11. \A c \in B \cup {H.brk} : c = 0 \/ \E b \in B : b + s[b] = c
  BY <1>1 DEF Cover
<1>12. \A b \in B : b + s[b] = b + H.hdr[b].siz
  BY <1>7
<1> QED
  BY <1>1, <1>2, <1>3, <1>4, <1>5, <1>7, <1>8, <1>9, <1>10, <1>11, <1>12

\* From a block on, Walk finds the blocks of the tiling.
LEMMA WalkIs ==
  ASSUME NEW H, NEW B, Tiled(H, B), NEW u \in B \cup {H.brk}
  PROVE  Walk(H, u) = {b \in B : b >= u}
<1>0. /\ Cap \in Nat /\ H \in Heap /\ H.brk \in 0..Cap
      /\ \A b \in B : b \in 0..Cap /\ b < H.brk /\ H.hdr[b].siz \in Nat /\ H.hdr[b].siz > 0
      /\ \A b \in B : b + H.hdr[b].siz \in B \cup {H.brk} /\ b + H.hdr[b].siz <= H.brk
      /\ \A b, c \in B : b < c => b + H.hdr[b].siz <= c
  BY TiledFacts
<1>1. PICK g : IsStep(H, g) /\ Walk(H, u) = g[u]
  BY <1>0, StepExists, WalkStep
<1>2. \A b \in 0..Cap : g[b] = Step(H, g, b)
  BY <1>1, Zenon DEF IsStep
<1> DEFINE Bad == {k \in Nat : Cap - k \in B \cup {H.brk} /\ g[Cap - k] # {b \in B : b >= Cap - k}}
<1>3. Bad = {}
  <2>1. SUFFICES ASSUME Bad # {} PROVE FALSE
    OBVIOUS
  <2>2. Min(Bad) \in Bad /\ \A y \in Bad : Min(Bad) <= y
    BY <2>1, MinIs
  <2> DEFINE m == Min(Bad)
             v == Cap - m
             n == v + H.hdr[v].siz
  <2>3. m \in Nat /\ v \in B \cup {H.brk} /\ v \in 0..Cap /\ g[v] # {b \in B : b >= v} /\ \A y \in Bad : m <= y
    BY <1>0, <2>2
  <2> HIDE DEF m, v
  <2>4. v # H.brk
    <3>1. SUFFICES ASSUME v = H.brk PROVE FALSE
      OBVIOUS
    <3>2. g[v] = {}
      BY <1>0, <1>2, <2>3, <3>1, StepCases
    <3>3. {b \in B : b >= v} = {}
      BY <1>0, <3>1
    <3> QED
      BY <2>3, <3>2, <3>3
  <2>5. v \in B /\ n \in B \cup {H.brk} /\ n > v /\ n <= H.brk /\ v < H.brk /\ n \in Nat /\ v \in Nat
    BY <1>0, <2>3, <2>4
  <2>6. g[v] = {v} \cup g[n]
    <3>1. GoesOn(H, v)
      BY <1>0, <2>5 DEF GoesOn
    <3> QED
      BY <1>0, <1>2, <2>3, <3>1, StepCases
  <2>7. g[n] = {b \in B : b >= n}
    <3>1. Cap - n \in Nat /\ Cap - n < m /\ Cap - (Cap - n) = n
      BY <1>0, <2>3, <2>5 DEF v
    <3>2. Cap - n \notin Bad
      BY <2>3, <3>1
    <3> QED
      BY <2>5, <3>1, <3>2
  <2>8. {b \in B : b >= v} = {v} \cup {b \in B : b >= n}
    <3>1. ASSUME NEW b \in B
          PROVE  b >= v <=> b = v \/ b >= n
      <4>1. b \in Nat /\ (v < b => n <= b)
        BY <1>0, <2>5
      <4> HIDE DEF n
      <4> QED
        BY <2>5, <4>1
    <3> QED
      BY <2>5, <3>1
  <2> QED
    BY <2>3, <2>6, <2>7, <2>8
<1>4. u \in 0..Cap /\ Cap - u \in Nat /\ Cap - (Cap - u) = u
  BY <1>0
<1>5. g[u] = {b \in B : b >= u}
  BY <1>3, <1>4
<1> QED
  BY <1>1, <1>5

-----------------------------------------------------------------------------
(* Writing tags.                                                             *)

\* A tag holds what it was made of.
LEMMA TagType ==
  ASSUME NEW siz \in Nat, NEW a \in BOOLEAN
  PROVE  Tag(siz, a) \in Word /\ Tag(siz, a).siz = siz /\ Tag(siz, a).aloc = a
BY DEF Tag, Word

\* A block of siz units at u lies in the heap.
Fit(u, siz) == u \in 0..Cap /\ siz \in Nat \ {0} /\ u + siz - 1 \in 0..Cap

\* P is H with the tags of a block of this size at u.
IsPut(P, H, u, siz, a) ==
    /\ P \in Heap /\ P.brk = H.brk /\ P.pages = H.pages /\ P.ok = H.ok
    /\ P.hdr[u] = Tag(siz, a) /\ \A v \in 0..Cap : v # u => P.hdr[v] = H.hdr[v]
    /\ P.ftr[u + siz - 1] = Tag(siz, a) /\ \A v \in -1..Cap : v # u + siz - 1 => P.ftr[v] = H.ftr[v]

\* Put writes a header and a footer and leaves the rest alone.
LEMMA PutIs ==
  ASSUME NEW H \in Heap, NEW u, NEW siz, Fit(u, siz), NEW a \in BOOLEAN
  PROVE  IsPut(Put(H, u, siz, a), H, u, siz, a)
<1> DEFINE P == Put(H, u, siz, a)
<1> USE DEF Fit
<1> DEFINE e == u + siz - 1
           w == Tag(siz, a)
<1>1. w \in Word /\ e \in -1..Cap
  BY TagType, CapType
<1> HIDE DEF e, w, P
<1>2. P = [H EXCEPT !.hdr[u] = w, !.ftr[e] = w]
  BY DEF Put, P, e, w
<1>3. H = [hdr |-> H.hdr, ftr |-> H.ftr, brk |-> H.brk, pages |-> H.pages, ok |-> H.ok]
  BY DEF Heap
<1>4. H.hdr \in [0..Cap -> Word] /\ H.ftr \in [-1..Cap -> Word] /\ H.brk \in 0..Cap /\ H.pages \in Nat /\ H.ok \in BOOLEAN
  BY DEF Heap
<1>5. P = [hdr |-> [H.hdr EXCEPT ![u] = w], ftr |-> [H.ftr EXCEPT ![e] = w], brk |-> H.brk, pages |-> H.pages, ok |-> H.ok]
  BY <1>2, <1>3
<1>6. P \in Heap
  BY <1>1, <1>4, <1>5 DEF Heap
<1>7. P.hdr[u] = w /\ P.ftr[e] = w
  <2>1. P.hdr = [H.hdr EXCEPT ![u] = w] /\ P.ftr = [H.ftr EXCEPT ![e] = w]
    BY <1>5
  <2>2. u \in DOMAIN H.hdr /\ e \in DOMAIN H.ftr
    BY <1>1, <1>4
  <2> QED
    BY <2>1, <2>2, Zenon
<1>8. \A v \in 0..Cap : v # u => P.hdr[v] = H.hdr[v]
  BY <1>4, <1>5
<1>9. \A v \in -1..Cap : v # e => P.ftr[v] = H.ftr[v]
  BY <1>4, <1>5
<1> QED
  BY <1>5, <1>6, <1>7, <1>8, <1>9 DEF IsPut, P, e, w

\* The tags of the blocks B say that their sizes are s.
Tagged(P, s, B) ==
    /\ \A b \in B : P.hdr[b].siz = s[b] /\ P.ftr[b + s[b] - 1] = P.hdr[b]
    /\ P.hdr[P.brk] = Tag(0, TRUE) /\ P.ftr[-1] = Tag(1, TRUE)

\* A heap is tiled by blocks whose sizes cover it and whose tags agree.
LEMMA BuildTiled ==
  ASSUME NEW P \in Heap, P.ok = TRUE, NEW s, NEW B, Cover(s, B, P.brk), Tagged(P, s, B)
  PROVE  Tiled(P, B)
<1> DEFINE z == Size(P)
<1>1. \A b \in B : b \in 0..Cap /\ z[b] = s[b] /\ P.hdr[b].siz = s[b]
  BY DEF Size, Cover, Tagged
<1> HIDE DEF z
<1>2. Cover(z, B, P.brk)
  BY <1>1 DEF Cover
<1> QED
  BY <1>1, <1>2 DEF Tiled, Tagged, z

\* A tiled heap, as a cover and the tags on it.
LEMMA TiledTagged ==
  ASSUME NEW H, NEW B, Tiled(H, B)
  PROVE  /\ H \in Heap /\ H.ok = TRUE /\ Cover(Size(H), B, H.brk) /\ Tagged(H, Size(H), B)
         /\ B \subseteq 0..Cap /\ \A c \in 0..Cap : Size(H)[c] = H.hdr[c].siz
<1>1. \A c \in 0..Cap : Size(H)[c] = H.hdr[c].siz
  BY DEF Size
<1>2. B \subseteq 0..Cap
  BY DEF Tiled, Cover
<1> QED
  BY <1>1, <1>2 DEF Tiled, Tagged

-----------------------------------------------------------------------------
(* Coverings.                                                                *)

\* Blocks end where the next begins, and no two end at the same unit.
LEMMA CoverFacts ==
  ASSUME NEW s, NEW B, NEW e, Cover(s, B, e)
  PROVE  /\ Cap \in Nat /\ e \in Nat /\ e \in 0..Cap
         /\ \A c \in B : c \in Nat /\ c \in 0..Cap /\ c < e /\ s[c] \in Nat /\ s[c] > 0
         /\ \A c \in B : c + s[c] \in B \cup {e} /\ c + s[c] <= e
         /\ \A c, d \in B : c < d => c + s[c] <= d
         /\ \A c, d \in B : c + s[c] = d + s[d] => c = d
<1>1. Cap \in Nat /\ e \in Nat /\ e \in 0..Cap
  BY CapType DEF Cover
<1>2. \A c \in B : c \in Nat /\ c \in 0..Cap /\ c < e /\ s[c] \in Nat /\ s[c] > 0
  BY <1>1 DEF Cover
<1>3. \A c \in B : c + s[c] \in B \cup {e}
  BY DEF Cover
<1>4. \A c \in B : c + s[c] <= e
  BY <1>1, <1>2, <1>3
<1>5. \A c, d \in B : c < d => c + s[c] <= d
  BY DEF Cover
<1>6. \A c, d \in B : c + s[c] = d + s[d] => c = d
  BY <1>2, <1>5
<1> QED
  BY <1>1, <1>2, <1>3, <1>4, <1>5, <1>6

\* The sizes t are s with the blocks b and n, its neighbour, made one.
Joined(s, t, B, b, n) ==
    /\ b \in B /\ n \in B /\ n = b + s[b]
    /\ t[b] = s[b] + s[n] /\ \A c \in B \ {b, n} : t[c] = s[c]

\* Two neighbours become one block.
LEMMA CoverJoin ==
  ASSUME NEW s, NEW B, NEW e, Cover(s, B, e), NEW b, NEW n, NEW t, Joined(s, t, B, b, n)
  PROVE  Cover(t, B \ {n}, e)
<1> USE DEF Joined
<1>0. /\ e \in Nat
      /\ \A c \in B : c \in Nat /\ c \in 0..Cap /\ c < e /\ s[c] \in Nat /\ s[c] > 0
      /\ \A c \in B : c + s[c] \in B \cup {e} /\ c + s[c] <= e
      /\ \A c, d \in B : c < d => c + s[c] <= d
      /\ \A c, d \in B : c + s[c] = d + s[d] => c = d
  BY CoverFacts
<1>1. b < n /\ b + t[b] = n + s[n] /\ t[b] \in Nat /\ t[b] > 0
  BY <1>0
<1>2. ASSUME NEW c \in B \ {n}
      PROVE  c < e /\ t[c] \in Nat \ {0} /\ c + t[c] \in (B \ {n}) \cup {e}
  <2>1. CASE c = b
    <3>1. n + s[n] \in B \cup {e} /\ n + s[n] # n
      BY <1>0
    <3> QED
      BY <1>0, <1>1, <2>1, <3>1
  <2>2. CASE c # b
    <3>1. t[c] = s[c] /\ c + s[c] # n /\ c + s[c] \in B \cup {e}
      BY <1>0, <2>2
    <3> QED
      BY <1>0, <3>1
  <2> QED
    BY <2>1, <2>2
<1>3. ASSUME NEW c \in B \ {n}, NEW d \in B \ {n}, c < d
      PROVE  c + t[c] <= d
  <2>1. CASE c = b
    <3>1. n <= d /\ d \in Nat /\ n \in Nat /\ n # d
      BY <1>0, <1>3, <2>1
    <3>2. n < d
      BY <3>1
    <3> QED
      BY <1>0, <1>1, <2>1, <3>2
  <2>2. CASE c # b
    BY <1>0, <1>3, <2>2
  <2> QED
    BY <2>1, <2>2
<1>4. ASSUME NEW d \in (B \ {n}) \cup {e}, d # 0
      PROVE  \E c \in B \ {n} : c + t[c] = d
  <2>1. PICK c \in B : c + s[c] = d
    BY <1>4 DEF Cover
  <2>2. CASE c = n
    BY <1>0, <1>1, <2>1, <2>2
  <2>3. CASE c # n
    <3>1. c # b
      BY <1>0, <2>1, <2>3
    <3> QED
      BY <2>1, <2>3, <3>1
  <2> QED
    BY <2>2, <2>3
<1>5. 0 \in (B \ {n}) \cup {e} /\ n # 0
  BY <1>0, <1>1 DEF Cover
<1> QED
  BY <1>2, <1>3, <1>4, <1>5 DEF Cover

\* A block is split in two.
LEMMA CoverSplit ==
  ASSUME NEW s, NEW B, NEW e, Cover(s, B, e), NEW b \in B, NEW k \in Nat, 0 < k, k < s[b],
         NEW t, t[b] = k, t[b + k] = s[b] - k, \A c \in B \ {b} : t[c] = s[c]
  PROVE  Cover(t, B \cup {b + k}, e) /\ b + k \notin B
<1> DEFINE n == b + k
<1>0. /\ e \in Nat /\ e \in 0..Cap /\ Cap \in Nat
      /\ \A c \in B : c \in Nat /\ c \in 0..Cap /\ c < e /\ s[c] \in Nat /\ s[c] > 0
      /\ \A c \in B : c + s[c] \in B \cup {e} /\ c + s[c] <= e
      /\ \A c, d \in B : c < d => c + s[c] <= d
      /\ \A c, d \in B : c + s[c] = d + s[d] => c = d
  BY CoverFacts
<1>1. /\ b < n /\ n < b + s[b] /\ n + t[n] = b + s[b] /\ b + t[b] = n
      /\ t[n] \in Nat \ {0} /\ t[b] \in Nat \ {0} /\ n < e /\ n \in 0..Cap /\ n \in Nat
  BY <1>0
<1>2. n \notin B
  BY <1>0, <1>1
<1> HIDE DEF n
<1>3. ASSUME NEW c \in B \cup {n}
      PROVE  c < e /\ t[c] \in Nat \ {0} /\ c + t[c] \in (B \cup {n}) \cup {e}
  <2>1. CASE c = b
    BY <1>0, <1>1, <2>1
  <2>2. CASE c = n
    BY <1>0, <1>1, <2>2
  <2>3. CASE c # b /\ c # n
    BY <1>0, <2>3
  <2> QED
    BY <2>1, <2>2, <2>3
<1>4. ASSUME NEW c \in B \cup {n}, NEW d \in B \cup {n}, c < d
      PROVE  c + t[c] <= d
  <2>1. CASE c = b /\ d = n
    BY <1>1, <2>1
  <2>2. CASE c = b /\ d # n
    <3>1. d \in Nat /\ b + s[b] <= d
      BY <1>0, <1>4, <2>2
    <3> QED
      BY <1>0, <1>1, <2>2, <3>1
  <2>3. CASE c = n
    <3>1. d \in B /\ d \in Nat /\ b < d
      BY <1>0, <1>1, <1>4, <2>3
    <3> QED
      BY <1>0, <1>1, <2>3, <3>1
  <2>4. CASE c # b /\ c # n /\ d = n
    <3>1. c \in B /\ c \in Nat /\ t[c] = s[c] /\ c + s[c] \in Nat
      BY <1>0, <2>4
    <3>2. c < b
      <4>1. ~(b < c)
        BY <1>0, <1>1, <1>4, <2>4, <3>1
      <4> QED
        BY <1>0, <2>4, <3>1, <4>1
    <3> QED
      BY <1>0, <1>1, <2>4, <3>1, <3>2
  <2>5. CASE c # b /\ c # n /\ d # n
    BY <1>0, <1>4, <2>5
  <2> QED
    BY <2>1, <2>2, <2>3, <2>4, <2>5
<1>5. ASSUME NEW d \in (B \cup {n}) \cup {e}, d # 0
      PROVE  \E c \in B \cup {n} : c + t[c] = d
  <2>1. CASE d = n
    BY <1>1, <2>1
  <2>2. CASE d # n
    <3>1. PICK c \in B : c + s[c] = d
      BY <1>5, <2>2 DEF Cover
    <3>2. CASE c = b
      BY <1>1, <3>1, <3>2
    <3>3. CASE c # b
      BY <3>1, <3>3
    <3> QED
      BY <3>2, <3>3
  <2> QED
    BY <2>1, <2>2
<1>6. 0 \in (B \cup {n}) \cup {e} /\ B \cup {n} \subseteq 0..Cap
  BY <1>0, <1>1 DEF Cover
<1>7. Cover(t, B \cup {n}, e)
  BY <1>0, <1>3, <1>4, <1>5, <1>6 DEF Cover
<1> QED
  BY <1>2, <1>7 DEF n

\* A block is put at the end.
LEMMA CoverAppend ==
  ASSUME NEW s, NEW B, NEW e, Cover(s, B, e), NEW k \in Nat, 0 < k, e + k \in 0..Cap,
         NEW t, t[e] = k, \A c \in B : t[c] = s[c]
  PROVE  Cover(t, B \cup {e}, e + k) /\ e \notin B
<1>0. /\ e \in Nat /\ e \in 0..Cap /\ Cap \in Nat
      /\ \A c \in B : c \in Nat /\ c \in 0..Cap /\ c < e /\ s[c] \in Nat /\ s[c] > 0
      /\ \A c \in B : c + s[c] \in B \cup {e} /\ c + s[c] <= e
      /\ \A c, d \in B : c < d => c + s[c] <= d
  BY CoverFacts
<1>1. e \notin B /\ 0 \in B \cup {e} /\ B \cup {e} \subseteq 0..Cap
  BY <1>0 DEF Cover
<1>2. ASSUME NEW c \in B \cup {e}
      PROVE  c < e + k /\ t[c] \in Nat \ {0} /\ c + t[c] \in (B \cup {e}) \cup {e + k}
  BY <1>0
<1>3. ASSUME NEW c \in B \cup {e}, NEW d \in B \cup {e}, c < d
      PROVE  c + t[c] <= d
  BY <1>0, <1>3
<1>4. ASSUME NEW d \in (B \cup {e}) \cup {e + k}, d # 0
      PROVE  \E c \in B \cup {e} : c + t[c] = d
  <2>1. CASE d = e + k
    BY <2>1
  <2>2. CASE d # e + k
    <3>1. PICK c \in B : c + s[c] = d
      BY <1>4, <2>2 DEF Cover
    <3> QED
      BY <3>1
  <2> QED
    BY <2>1, <2>2
<1> QED
  BY <1>1, <1>2, <1>3, <1>4 DEF Cover

-----------------------------------------------------------------------------
(* The same for heaps.                                                       *)

\* The tags of a block of another size are written.
LEMMA PutTiled ==
  ASSUME NEW H, NEW B, Tiled(H, B), NEW C \in SUBSET B, NEW b \in C, NEW t, Cover(t, C, H.brk),
         \A c \in C \ {b} : t[c] = Size(H)[c], NEW a \in BOOLEAN
  PROVE  Tiled(Put(H, b, t[b], a), C) /\ IsPut(Put(H, b, t[b], a), H, b, t[b], a)
<1> DEFINE s == Size(H)
           k == t[b]
           P == Put(H, b, k, a)
<1>1. Cover(s, B, H.brk) /\ H \in Heap /\ H.ok = TRUE /\ Tagged(H, s, B)
  BY TiledTagged
<1>2. \A c \in B : c \in 0..Cap /\ H.hdr[c].siz = s[c] /\ H.ftr[c + s[c] - 1] = H.hdr[c]
  BY <1>1, TiledTagged DEF Tagged
<1> HIDE DEF s
<1>3. /\ Cap \in Nat /\ H.brk \in Nat /\ H.brk \in 0..Cap
      /\ \A c \in C : c \in Nat /\ c \in 0..Cap /\ c < H.brk /\ t[c] \in Nat /\ t[c] > 0 /\ c + t[c] <= H.brk
      /\ \A c, d \in C : c + t[c] = d + t[d] => c = d
  BY CoverFacts
<1>4. Fit(b, k) /\ k \in Nat
  BY <1>3 DEF Fit
<1> HIDE DEF k
<1>5. IsPut(P, H, b, k, a)
  BY <1>1, <1>4, PutIs
<1> HIDE DEF P
<1>6. ASSUME NEW c \in C
      PROVE  P.hdr[c].siz = t[c] /\ P.ftr[c + t[c] - 1] = P.hdr[c]
  <2>1. CASE c = b
    <3>1. Tag(k, a).siz = k
      BY <1>4, TagType
    <3>2. t[c] = k
      BY <2>1 DEF k
    <3> QED
      BY <1>5, <2>1, <3>1, <3>2 DEF IsPut
  <2>2. CASE c # b
    <3>1. c + t[c] - 1 # b + k - 1 /\ c + t[c] - 1 \in -1..Cap
      BY <1>3, <2>2 DEF k
    <3>2. t[c] = s[c] /\ c \in B
      BY <2>2 DEF s
    <3>3. P.hdr[c] = H.hdr[c] /\ P.ftr[c + t[c] - 1] = H.ftr[c + t[c] - 1]
      BY <1>2, <1>5, <2>2, <3>1, <3>2 DEF IsPut
    <3> QED
      BY <1>2, <3>2, <3>3
  <2> QED
    BY <2>1, <2>2
<1>7. P.hdr[P.brk] = Tag(0, TRUE) /\ P.ftr[-1] = Tag(1, TRUE)
  <2>1. H.brk # b /\ -1 # b + k - 1 /\ -1 \in -1..Cap
    BY <1>3, <1>4 DEF Fit
  <2> QED
    BY <1>1, <1>3, <1>5, <2>1 DEF IsPut, Tagged
<1>8. Cover(t, C, P.brk) /\ P.ok = TRUE /\ P \in Heap
  BY <1>1, <1>5 DEF IsPut
<1>9. Tagged(P, t, C)
  BY <1>6, <1>7 DEF Tagged
<1>10. Tiled(P, C)
  BY <1>8, <1>9, BuildTiled
<1> QED
  BY <1>5, <1>10 DEF k, P

\* The tags of a block are written again: only its bit changes.
LEMMA PutSame ==
  ASSUME NEW H, NEW B, Tiled(H, B), NEW b \in B, NEW a \in BOOLEAN
  PROVE  /\ Tiled(Put(H, b, H.hdr[b].siz, a), B)
         /\ IsPut(Put(H, b, H.hdr[b].siz, a), H, b, H.hdr[b].siz, a)
<1> DEFINE t == Size(H)
<1>1. Cover(t, B, H.brk) /\ t[b] = H.hdr[b].siz /\ \A c \in B \ {b} : t[c] = Size(H)[c]
  BY TiledTagged
<1> HIDE DEF t
<1>2. Tiled(Put(H, b, t[b], a), B) /\ IsPut(Put(H, b, t[b], a), H, b, t[b], a)
  BY <1>1, PutTiled
<1> QED
  BY <1>1, <1>2

\* A block takes in the one behind it.
LEMMA PutJoin ==
  ASSUME NEW H, NEW B, Tiled(H, B), NEW b \in B, NEW n \in B, n = b + H.hdr[b].siz, NEW a \in BOOLEAN,
         NEW k, k = H.hdr[b].siz + H.hdr[n].siz
  PROVE  Tiled(Put(H, b, k, a), B \ {n}) /\ IsPut(Put(H, b, k, a), H, b, k, a)
<1> DEFINE s == Size(H)
           t == [s EXCEPT ![b] = k]
<1>1. /\ Cover(s, B, H.brk) /\ b \in 0..Cap /\ B \subseteq 0..Cap
      /\ s[b] = H.hdr[b].siz /\ s[n] = H.hdr[n].siz
  BY TiledTagged
<1>2. s[b] \in Nat /\ s[b] > 0 /\ b \in Nat
  BY <1>1, CoverFacts
<1>3. b # n
  BY <1>1, <1>2
<1>4. t[b] = k /\ \A c \in B : c # b => t[c] = s[c]
  BY <1>1 DEF Size
<1> HIDE DEF t
<1>5. Joined(s, t, B, b, n)
  BY <1>1, <1>4 DEF Joined
<1>6. Cover(t, B \ {n}, H.brk)
  BY <1>1, <1>5, CoverJoin
<1> DEFINE C == B \ {n}
<1>7. C \in SUBSET B /\ b \in C /\ Cover(t, C, H.brk) /\ \A c \in C \ {b} : t[c] = Size(H)[c]
  BY <1>3, <1>4, <1>6
<1> HIDE DEF C
<1>8. Tiled(Put(H, b, t[b], a), C) /\ IsPut(Put(H, b, t[b], a), H, b, t[b], a)
  BY <1>7, PutTiled
<1> QED
  BY <1>4, <1>8 DEF C

-----------------------------------------------------------------------------
(* _merge and free.                                                          *)

\* The blocks in use, and the rule that a free block is followed by one in use.
Aloc(H, B) == {b \in B : H.hdr[b].aloc}
NoTwoFree(H, B) == \A b \in B : ~H.hdr[b].aloc => H.hdr[b + H.hdr[b].siz].aloc

\* u is a free block, which may have free neighbours; nobody else has.
OnlyAround(H, B, u) ==
    /\ u \in B /\ ~H.hdr[u].aloc
    /\ \A b \in B \ {u} : ~H.hdr[b].aloc => H.hdr[b + H.hdr[b].siz].aloc \/ b + H.hdr[b].siz = u

\* H1 and C result from H and B by joining u with the block behind it, if that is free.
NextJoined(H, B, u, H1, C) ==
    /\ Tiled(H1, C) /\ OnlyAround(H1, C, u) /\ H1.hdr[u + H1.hdr[u].siz].aloc
    /\ Aloc(H1, C) = Aloc(H, B) /\ H1.brk = H.brk /\ H1.pages = H.pages
    /\ C \subseteq B /\ \A c \in B : c \notin C => c = u + H.hdr[u].siz
    /\ H1.hdr[u].siz >= H.hdr[u].siz
    /\ \A c \in 0..Cap : c # u => H1.hdr[c] = H.hdr[c]

\* The first half of _merge: the block behind u, if it is free, becomes part of u.
LEMMA MergeNextIs ==
  ASSUME NEW H, NEW B, Tiled(H, B), NEW u, OnlyAround(H, B, u)
  PROVE  \E C : NextJoined(H, B, u, MergeNext(H, u), C)
<1> DEFINE n == u + H.hdr[u].siz
           k == H.hdr[n].siz
           j == H.hdr[u].siz + k
           P == Put(H, u, j, FALSE)
<1>0. /\ Cap \in Nat /\ H.brk \in 0..Cap /\ H.ok = TRUE
      /\ \A b \in 0..Cap : H.hdr[b] \in Word /\ H.hdr[b].siz \in Nat /\ H.hdr[b].aloc \in BOOLEAN
      /\ \A b \in B : b \in 0..Cap /\ b < H.brk /\ H.hdr[b].siz > 0
      /\ \A b \in B : b + H.hdr[b].siz \in B \cup {H.brk} /\ b + H.hdr[b].siz <= H.brk
  BY TiledFacts
<1>1. u \in B /\ ~H.hdr[u].aloc /\ n \in B \cup {H.brk} /\ n \in 0..Cap /\ n # u
  BY <1>0 DEF OnlyAround
<1>2. H.hdr[H.brk].aloc = TRUE
  BY TagType DEF Tiled
<1>3. CASE H.hdr[n].aloc
  <2>1. MergeNext(H, u) = H
    BY <1>3 DEF MergeNext
  <2>2. NextJoined(H, B, u, H, B)
    BY <1>0, <1>1, <1>3 DEF NextJoined
  <2> QED
    BY <2>1, <2>2
<1>4. CASE ~H.hdr[n].aloc
  <2>1. n \in B /\ k \in Nat /\ k > 0 /\ H.hdr[u].siz \in Nat /\ H.hdr[u].siz > 0 /\ u \in Nat /\ n \in Nat
    BY <1>0, <1>1, <1>2, <1>4
  <2>2. H.hdr[n] = H.ftr[n + k - 1]
    BY <2>1 DEF Tiled
  <2>3. MergeNext(H, u) = P
    <3>1. k # 0
      BY <2>1
    <3> QED
      BY <1>4, <2>2, <3>1, Zenon DEF MergeNext
  <2>4. Tiled(P, B \ {n}) /\ IsPut(P, H, u, j, FALSE)
    BY <1>1, <2>1, PutJoin
  <2>5. j \in Nat /\ u + j = n + k /\ j >= H.hdr[u].siz
    <3> HIDE DEF k
    <3> QED
      BY <2>1
  <2> HIDE DEF P, j, k, n
  <2>6. P.hdr[u].siz = j /\ P.hdr[u].aloc = FALSE /\ \A c \in 0..Cap : c # u => P.hdr[c] = H.hdr[c]
    BY <2>4, <2>5, TagType DEF IsPut
  <2>7. P.hdr[u + P.hdr[u].siz].aloc
    <3>1. H.hdr[n + k].aloc
      BY <1>0, <1>1, <1>4, <2>1 DEF OnlyAround, k, n
    <3>2. n + k \in 0..Cap /\ n + k # u
      BY <1>0, <2>1, <2>5 DEF k, n
    <3> QED
      BY <2>5, <2>6, <3>1, <3>2
  <2>8. OnlyAround(P, B \ {n}, u)
    <3>1. u \in B \ {n} /\ ~P.hdr[u].aloc
      BY <1>1, <2>6
    <3>2. ASSUME NEW b \in (B \ {n}) \ {u}, ~P.hdr[b].aloc
          PROVE  P.hdr[b + P.hdr[b].siz].aloc \/ b + P.hdr[b].siz = u
      <4>1. P.hdr[b] = H.hdr[b] /\ b + H.hdr[b].siz \in 0..Cap
        BY <1>0, <2>6
      <4>2. H.hdr[b + H.hdr[b].siz].aloc \/ b + H.hdr[b].siz = u
        BY <3>2, <4>1 DEF OnlyAround
      <4> QED
        BY <2>6, <4>1, <4>2
    <3> QED
      BY <3>1, <3>2 DEF OnlyAround
  <2>9. Aloc(P, B \ {n}) = Aloc(H, B)
    BY <1>0, <1>1, <1>4, <2>6 DEF Aloc
  <2>10. NextJoined(H, B, u, P, B \ {n})
    <3>1. P.brk = H.brk /\ P.pages = H.pages
      BY <2>4 DEF IsPut
    <3>2. \A c \in B : c \notin B \ {n} => c = u + H.hdr[u].siz
      BY DEF n
    <3> QED
      BY <2>4, <2>5, <2>6, <2>7, <2>8, <2>9, <3>1, <3>2 DEF NextJoined
  <2> QED
    BY <2>3, <2>10
<1> QED
  BY <1>3, <1>4

\* The block u of H, and what was free on both sides of it, became one free block.
Merged(H, B, u, P, D) ==
    /\ Tiled(P, D) /\ NoTwoFree(P, D)
    /\ Aloc(P, D) = Aloc(H, B) /\ P.brk = H.brk /\ P.pages = H.pages
    /\ D \subseteq B /\ \A c \in B : c \notin D => c = u \/ c = u + H.hdr[u].siz
    /\ \E p \in D : /\ ~P.hdr[p].aloc /\ P.hdr[p].siz >= H.hdr[u].siz
                    /\ p = u \/ p + H.hdr[p].siz = u

\* The second half: u, if the block before it is free, becomes part of that.
LEMMA MergePrevIs ==
  ASSUME NEW H, NEW B, Tiled(H, B), NEW u, OnlyAround(H, B, u), NEW H1, NEW C, NextJoined(H, B, u, H1, C)
  PROVE  \E D : Merged(H, B, u, MergePrev(H1, u), D)
<1>0. /\ Cap \in Nat /\ H1.brk \in 0..Cap /\ H1.ok = TRUE
      /\ \A b \in 0..Cap : H1.hdr[b] \in Word /\ H1.hdr[b].siz \in Nat /\ H1.hdr[b].aloc \in BOOLEAN
      /\ \A b \in C : b \in 0..Cap /\ b < H1.brk /\ H1.hdr[b].siz > 0
      /\ \A b \in C : b + H1.hdr[b].siz \in C \cup {H1.brk} /\ b + H1.hdr[b].siz <= H1.brk
      /\ \A b, c \in C : b < c => b + H1.hdr[b].siz <= c
      /\ \A c \in C \cup {H1.brk} : c = 0 \/ \E b \in C : b + H1.hdr[b].siz = c
  BY TiledFacts DEF NextJoined
<1>1. /\ Tiled(H1, C) /\ OnlyAround(H1, C, u) /\ u \in C /\ ~H1.hdr[u].aloc /\ H1.hdr[u + H1.hdr[u].siz].aloc
      /\ u \in Nat /\ u \in 0..Cap /\ C \subseteq B
  BY <1>0 DEF NextJoined, OnlyAround
<1>2. CASE H1.ftr[u - 1].aloc
  <2>1. MergePrev(H1, u) = H1
    BY <1>2 DEF MergePrev
  <2>2. NoTwoFree(H1, C)
    <3>1. ASSUME NEW b \in C, ~H1.hdr[b].aloc, b # u
          PROVE  H1.hdr[b + H1.hdr[b].siz].aloc
      <4>1. b + H1.hdr[b].siz = u => H1.ftr[u - 1] = H1.hdr[b]
        <5>1. H1.ftr[b + H1.hdr[b].siz - 1] = H1.hdr[b]
          BY <1>1 DEF Tiled
        <5>2. b + H1.hdr[b].siz = u => b + H1.hdr[b].siz - 1 = u - 1
          BY <1>0
        <5> QED
          BY <5>1, <5>2
      <4> QED
        BY <1>1, <1>2, <3>1, <4>1 DEF OnlyAround
    <3> QED
      BY <1>1, <3>1 DEF NoTwoFree
  <2>3. Merged(H, B, u, H1, C)
    BY <1>1, <2>2 DEF NextJoined, Merged
  <2> QED
    BY <2>1, <2>3
<1>3. CASE ~H1.ftr[u - 1].aloc
  <2>1. u # 0
    <3>1. H1.ftr[-1].aloc = TRUE
      BY <1>1, TagType DEF Tiled
    <3> QED
      BY <1>3, <3>1
  <2>2. PICK p \in C : p + H1.hdr[p].siz = u
    BY <1>0, <1>1, <2>1
  <2> DEFINE k == H1.hdr[p].siz
             j == H1.hdr[p].siz + H1.hdr[u].siz
             P == Put(H1, p, j, FALSE)
             D == C \ {u}
  <2>3. /\ k \in Nat /\ k > 0 /\ p \in Nat /\ p \in 0..Cap /\ p # u /\ p = u - k /\ H1.hdr[u].siz \in Nat
        /\ p + k - 1 = u - 1 /\ H1.hdr[u].siz > 0
    <3>0. \A b \in C : b \in 0..Cap /\ b \in Nat /\ H1.hdr[b].siz \in Nat /\ H1.hdr[b].siz > 0
      BY <1>0
    <3>1. k \in Nat /\ k > 0 /\ p \in Nat /\ p \in 0..Cap /\ H1.hdr[u].siz \in Nat /\ H1.hdr[u].siz > 0
      BY <1>1, <3>0
    <3>2. p + k = u
      BY <2>2
    <3> HIDE DEF k
    <3> QED
      BY <3>1, <3>2
  <2>4. H1.ftr[u - 1] = H1.hdr[p]
    <3>1. H1.ftr[p + k - 1] = H1.hdr[p]
      BY <1>1 DEF Tiled
    <3> QED
      BY <2>3, <3>1
  <2>5. MergePrev(H1, u) = P
    BY <1>0, <1>3, <2>3, <2>4 DEF MergePrev
  <2>6. Tiled(P, D) /\ IsPut(P, H1, p, j, FALSE)
    BY <1>1, <2>2, PutJoin
  <2>7. j \in Nat /\ p + j = u + H1.hdr[u].siz /\ j >= H1.hdr[u].siz
    <3>1. p + k = u /\ j = k + H1.hdr[u].siz
      BY <2>2
    <3> HIDE DEF k, j
    <3> QED
      BY <2>3, <3>1
  <2>8. ~H1.hdr[p].aloc
    BY <1>3, <2>4
  <2> HIDE DEF P, j, k
  <2>9. P.hdr[p].siz = j /\ P.hdr[p].aloc = FALSE /\ \A c \in 0..Cap : c # p => P.hdr[c] = H1.hdr[c]
    BY <2>6, <2>7, TagType DEF IsPut
  <2>10. NoTwoFree(P, D)
    <3>1. P.hdr[p + P.hdr[p].siz].aloc
      <4>1. u + H1.hdr[u].siz \in 0..Cap /\ u + H1.hdr[u].siz # p
        BY <1>0, <1>1, <2>3
      <4> QED
        BY <1>1, <2>7, <2>9, <4>1
    <3>2. ASSUME NEW b \in D, b # p, ~P.hdr[b].aloc
          PROVE  P.hdr[b + P.hdr[b].siz].aloc
      <4>1. P.hdr[b] = H1.hdr[b] /\ b + H1.hdr[b].siz \in 0..Cap /\ b \in C /\ b # u
        BY <1>0, <2>9, <3>2
      <4>2. b + H1.hdr[b].siz # u
        BY <1>0, <1>1, <2>2, <3>2
      <4>3. H1.hdr[b + H1.hdr[b].siz].aloc
        BY <1>1, <3>2, <4>1, <4>2 DEF OnlyAround
      <4>4. b + H1.hdr[b].siz # p
        BY <2>8, <4>3
      <4> QED
        BY <2>9, <4>1, <4>3, <4>4
    <3> QED
      BY <3>1, <3>2 DEF NoTwoFree
  <2>11. Aloc(P, D) = Aloc(H1, C)
    BY <1>0, <1>1, <2>8, <2>9 DEF Aloc
  <2>12. P.brk = H1.brk /\ P.pages = H1.pages
    BY <2>6 DEF IsPut
  <2>13. p \in D /\ ~P.hdr[p].aloc /\ P.hdr[p].siz >= H.hdr[u].siz /\ p + H.hdr[p].siz = u
    <3>1. H1.hdr[p] = H.hdr[p] /\ H1.hdr[u].siz >= H.hdr[u].siz
      BY <2>3 DEF NextJoined
    <3>2. H.hdr[u].siz \in Nat
      BY <1>1, TiledFacts
    <3> QED
      BY <2>2, <2>3, <2>7, <2>9, <3>1, <3>2
  <2>14. D \subseteq B /\ \A c \in B : c \notin D => c = u \/ c = u + H.hdr[u].siz
    BY <1>1 DEF NextJoined
  <2> HIDE DEF D
  <2>15. Merged(H, B, u, P, D)
    BY <2>6, <2>10, <2>11, <2>12, <2>13, <2>14 DEF NextJoined, Merged
  <2> QED
    BY <2>5, <2>15
<1> QED
  BY <1>2, <1>3

\* _merge leaves no two free blocks side by side, and no assertion of it fails.
LEMMA MergeIs ==
  ASSUME NEW H, NEW B, Tiled(H, B), NEW u, OnlyAround(H, B, u)
  PROVE  \E D : Merged(H, B, u, _merge(H, u), D)
<1>1. PICK C : NextJoined(H, B, u, MergeNext(H, u), C)
  BY MergeNextIs
<1> QED
  BY <1>1, MergePrevIs DEF _merge

\* The block u of H became free and nothing else did.
Freed(H, B, u, P, D) ==
    /\ Tiled(P, D) /\ NoTwoFree(P, D)
    /\ Aloc(P, D) = Aloc(H, B) \ {u} /\ P.brk = H.brk /\ P.pages = H.pages

\* free, of a block in use: only that block becomes free.
LEMMA FreeIs ==
  ASSUME NEW H, NEW B, Tiled(H, B), NoTwoFree(H, B), NEW u \in Aloc(H, B)
  PROVE  \E D : Freed(H, B, u, free(H, u), D)
<1> DEFINE k == H.hdr[u].siz
           P == Put(H, u, k, FALSE)
<1>0. u \in B /\ H.hdr[u].aloc
  BY DEF Aloc
<1>1. /\ k \in Nat /\ k > 0 /\ u \in 0..Cap /\ u + k \in 0..Cap /\ u + k # u
      /\ \A b \in B : b \in 0..Cap /\ b + H.hdr[b].siz \in 0..Cap
  <2>1. /\ Cap \in Nat /\ H.brk \in 0..Cap /\ \A b \in 0..Cap : H.hdr[b].siz \in Nat
        /\ \A b \in B : b \in 0..Cap /\ b < H.brk /\ H.hdr[b].siz > 0
        /\ \A b \in B : b + H.hdr[b].siz \in B \cup {H.brk} /\ b + H.hdr[b].siz <= H.brk
    BY TiledFacts
  <2> QED
    BY <1>0, <2>1
<1>2. free(H, u) = _merge(P, u)
  <2>1. H.hdr[u] = H.ftr[u + k - 1]
    BY <1>0 DEF Tiled
  <2> QED
    BY <1>0, <2>1, Zenon DEF free
<1>3. Tiled(P, B) /\ IsPut(P, H, u, k, FALSE)
  BY <1>0, PutSame
<1> HIDE DEF P, k
<1>4. P.hdr[u].siz = k /\ P.hdr[u].aloc = FALSE /\ \A c \in 0..Cap : c # u => P.hdr[c] = H.hdr[c]
  BY <1>1, <1>3, TagType DEF IsPut
<1>5. OnlyAround(P, B, u)
  <2>1. ASSUME NEW b \in B \ {u}, ~P.hdr[b].aloc, b + P.hdr[b].siz # u
        PROVE  P.hdr[b + P.hdr[b].siz].aloc
    <3>1. P.hdr[b] = H.hdr[b] /\ b + H.hdr[b].siz \in 0..Cap
      BY <1>1, <1>4
    <3>2. H.hdr[b + H.hdr[b].siz].aloc
      BY <2>1, <3>1 DEF NoTwoFree
    <3> QED
      BY <1>4, <2>1, <3>1, <3>2
  <2> QED
    BY <1>0, <1>4, <2>1 DEF OnlyAround
<1>6. PICK D : Merged(P, B, u, _merge(P, u), D)
  BY <1>3, <1>5, MergeIs
<1>7. Aloc(P, B) = Aloc(H, B) \ {u}
  BY <1>1, <1>4 DEF Aloc
<1>8. P.brk = H.brk /\ P.pages = H.pages
  BY <1>3 DEF IsPut
<1>9. Freed(H, B, u, _merge(P, u), D)
  BY <1>6, <1>7, <1>8 DEF Merged, Freed
<1> QED
  BY <1>2, <1>9

-----------------------------------------------------------------------------
(* malloc.                                                                   *)

\* A free block that is large enough became, at its beginning, a block in use.
Placed(H, B, b, P, D) ==
    /\ Tiled(P, D) /\ NoTwoFree(P, D)
    /\ Aloc(P, D) = Aloc(H, B) \cup {b} /\ P.brk = H.brk /\ P.pages = H.pages

\* malloc's placing splits the free block it found, or takes the whole of it.
LEMMA PlaceIs ==
  ASSUME NEW H, NEW B, Tiled(H, B), NoTwoFree(H, B), NEW b \in B, ~H.hdr[b].aloc,
         NEW siz \in Nat \ {0}, siz <= H.hdr[b].siz
  PROVE  \E D : Placed(H, B, b, Place(H, b, siz), D)
<1> DEFINE s == Size(H)
<1>0. /\ Cap \in Nat /\ H.brk \in 0..Cap /\ H.ok = TRUE /\ H \in Heap
      /\ Cover(s, B, H.brk) /\ Tagged(H, s, B)
      /\ \A c \in B : c \in 0..Cap /\ H.hdr[c].siz = s[c] /\ H.hdr[c].aloc \in BOOLEAN
  BY TiledFacts, TiledTagged
<1> HIDE DEF s
<1>1. /\ \A c \in B : c \in Nat /\ c < H.brk /\ s[c] \in Nat /\ s[c] > 0 /\ c + s[c] <= H.brk /\ c + s[c] \in 0..Cap
      /\ \A c, d \in B : c < d => c + s[c] <= d
      /\ \A c, d \in B : c + s[c] = d + s[d] => c = d
  BY <1>0, CoverFacts
<1>2. \A c \in B : ~H.hdr[c].aloc => H.hdr[c + s[c]].aloc
  BY <1>0 DEF NoTwoFree
<1>3. CASE H.hdr[b].siz = siz
  <2> DEFINE P == Put(H, b, siz, TRUE)
  <2>1. Place(H, b, siz) = P
    BY <1>3 DEF Place
  <2>2. Tiled(P, B) /\ IsPut(P, H, b, siz, TRUE)
    BY <1>3, PutSame
  <2> HIDE DEF P
  <2>3. P.hdr[b].siz = siz /\ P.hdr[b].aloc = TRUE /\ \A c \in 0..Cap : c # b => P.hdr[c] = H.hdr[c]
    BY <2>2, TagType DEF IsPut
  <2>4. ASSUME NEW c \in B, ~P.hdr[c].aloc
        PROVE  P.hdr[c + P.hdr[c].siz].aloc
    <3>1. c # b /\ P.hdr[c] = H.hdr[c] /\ P.hdr[c].siz = s[c]
      BY <1>0, <2>3, <2>4
    <3>2. c + s[c] \in 0..Cap /\ H.hdr[c + s[c]].aloc
      BY <1>1, <1>2, <2>4, <3>1
    <3> QED
      BY <2>3, <3>1, <3>2
  <2>5. Aloc(P, B) = Aloc(H, B) \cup {b}
    BY <1>0, <2>3 DEF Aloc
  <2>6. Placed(H, B, b, P, B)
    BY <2>2, <2>4, <2>5 DEF IsPut, Placed, NoTwoFree
  <2> QED
    BY <2>1, <2>6
<1>4. CASE H.hdr[b].siz # siz
  <2> DEFINE n == b + siz
             k == s[b] - siz
             N == Put(H, n, k, FALSE)
             P == Put(N, b, siz, TRUE)
             t == [c \in B \cup {n} |-> IF c = b THEN siz ELSE IF c = n THEN k ELSE s[c]]
             D == B \cup {n}
  <2>1. Place(H, b, siz) = P
    BY <1>0, <1>4 DEF Place
  <2>2. siz < s[b] /\ k \in Nat \ {0} /\ n \in Nat /\ n # b /\ n + k = b + s[b] /\ siz \in Nat /\ 0 < siz
    BY <1>0, <1>1, <1>4
  <2>3. t[b] = siz /\ t[n] = k /\ \A c \in B \ {b, n} : t[c] = s[c]
    BY <2>2
  <2> HIDE DEF t
  <2>4. n \notin B
    BY <1>1, <2>2
  <2>5. Cover(t, D, H.brk)
    <3>1. t[b + siz] = s[b] - siz /\ \A c \in B \ {b} : t[c] = s[c]
      BY <2>3, <2>4
    <3> QED
      BY <1>0, <2>2, <2>3, <3>1, CoverSplit
  <2>6. Fit(n, k) /\ Fit(b, siz)
    BY <1>0, <1>1, <2>2 DEF Fit
  <2> HIDE DEF n, k
  <2>7. IsPut(N, H, n, k, FALSE)
    BY <1>0, <2>6, PutIs
  <2> HIDE DEF N
  <2>8. IsPut(P, N, b, siz, TRUE)
    <3>1. N \in Heap
      BY <2>7 DEF IsPut
    <3> QED
      BY <2>6, <3>1, PutIs
  <2> HIDE DEF P
  <2>9. /\ P \in Heap /\ P.brk = H.brk /\ P.pages = H.pages /\ P.ok = TRUE
        /\ P.hdr[b] = Tag(siz, TRUE) /\ P.hdr[n] = Tag(k, FALSE)
        /\ \A c \in 0..Cap : c # b /\ c # n => P.hdr[c] = H.hdr[c]
    BY <1>0, <2>2, <2>6, <2>7, <2>8 DEF IsPut, Fit
  <2>10. /\ P.ftr[b + siz - 1] = Tag(siz, TRUE) /\ P.ftr[n + k - 1] = Tag(k, FALSE)
         /\ \A c \in -1..Cap : c # b + siz - 1 /\ c # n + k - 1 => P.ftr[c] = H.ftr[c]
    <3>1. n + k - 1 # b + siz - 1 /\ n + k - 1 \in -1..Cap
      BY <1>0, <1>1, <2>2
    <3> QED
      BY <2>7, <2>8, <3>1 DEF IsPut
  <2>11. Tag(siz, TRUE).siz = siz /\ Tag(k, FALSE).siz = k /\ Tag(siz, TRUE).aloc = TRUE /\ Tag(k, FALSE).aloc = FALSE
    BY <2>2, TagType
  <2>12. ASSUME NEW c \in B \ {b}
         PROVE  /\ c # n /\ t[c] = s[c] /\ P.hdr[c] = H.hdr[c]
                /\ c + s[c] - 1 \in -1..Cap /\ c + s[c] - 1 # b + siz - 1 /\ c + s[c] - 1 # n + k - 1
    <3>1. c # n /\ t[c] = s[c] /\ P.hdr[c] = H.hdr[c]
      BY <1>0, <2>3, <2>4, <2>9
    <3>2. c \in Nat /\ s[c] \in Nat /\ s[c] > 0 /\ c + s[c] <= H.brk /\ c + s[c] # b + s[b]
      BY <1>1
    <3>3. c + s[c] # b + siz
      <4>1. CASE c < b
        <5>1. c + s[c] <= b
          BY <1>1, <4>1
        <5> QED
          BY <1>1, <2>2, <3>2, <5>1
      <4>2. CASE b < c
        <5>1. b + s[b] <= c
          BY <1>1, <4>2
        <5> QED
          BY <1>1, <2>2, <3>2, <5>1
      <4> QED
        BY <1>1, <3>2, <4>1, <4>2
    <3> QED
      BY <1>0, <1>1, <2>2, <3>1, <3>2, <3>3
  <2>13. Tagged(P, t, D)
    <3>1. ASSUME NEW c \in D
          PROVE  P.hdr[c].siz = t[c] /\ P.ftr[c + t[c] - 1] = P.hdr[c]
      <4>1. CASE c = b
        BY <2>3, <2>9, <2>10, <2>11, <4>1
      <4>2. CASE c = n
        BY <2>3, <2>9, <2>10, <2>11, <4>2
      <4>3. CASE c \in B \ {b}
        BY <1>0, <2>10, <2>12, <4>3 DEF Tagged
      <4> QED
        BY <4>1, <4>2, <4>3
    <3>2. P.hdr[P.brk] = Tag(0, TRUE) /\ P.ftr[-1] = Tag(1, TRUE)
      <4>1. H.brk # b /\ H.brk # n /\ -1 # b + siz - 1 /\ -1 # n + k - 1 /\ -1 \in -1..Cap
        BY <1>0, <1>1, <2>2
      <4> QED
        BY <1>0, <2>9, <2>10, <4>1 DEF Tagged
    <3> QED
      BY <3>1, <3>2 DEF Tagged
  <2>14. Tiled(P, D)
    BY <2>5, <2>9, <2>13, BuildTiled
  <2>15. ASSUME NEW c \in D, ~P.hdr[c].aloc
         PROVE  P.hdr[c + P.hdr[c].siz].aloc
    <3>1. c # b
      BY <2>9, <2>11, <2>15
    <3>2. CASE c = n
      <4>1. H.hdr[b + s[b]].aloc /\ b + s[b] \in 0..Cap /\ b + s[b] # b /\ b + s[b] # n
        BY <1>1, <1>2, <2>2
      <4>2. c + P.hdr[c].siz = b + s[b]
        BY <2>2, <2>9, <2>11, <3>2
      <4> QED
        BY <2>9, <4>1, <4>2
    <3>3. CASE c \in B \ {b}
      <4>1. P.hdr[c].siz = s[c] /\ H.hdr[c + s[c]].aloc /\ c + s[c] \in 0..Cap
        BY <1>0, <1>1, <1>2, <2>12, <2>15, <3>3
      <4>2. c + s[c] # n
        <5>1. c + s[c] \in B \cup {H.brk} /\ n # H.brk
          BY <1>0, <1>1, <2>2, <3>3 DEF Cover
        <5> QED
          BY <2>4, <5>1
      <4>3. CASE c + s[c] = b
        BY <2>9, <2>11, <4>1, <4>3
      <4> QED
        BY <2>9, <4>1, <4>2, <4>3
    <3> QED
      BY <3>1, <3>2, <3>3
  <2>16. Aloc(P, D) = Aloc(H, B) \cup {b}
    BY <1>0, <2>9, <2>11, <2>12 DEF Aloc
  <2>17. Placed(H, B, b, P, D)
    BY <2>9, <2>14, <2>15, <2>16 DEF Placed, NoTwoFree
  <2> QED
    BY <2>1, <2>17
<1> QED
  BY <1>3, <1>4

\* Forgetting the words that are not tags changes no block.
LEMMA TagsIs ==
  ASSUME NEW H, NEW B, Tiled(H, B), NoTwoFree(H, B)
  PROVE  /\ Tiled(Tags(H), B) /\ NoTwoFree(Tags(H), B) /\ Aloc(Tags(H), B) = Aloc(H, B)
         /\ Tags(H).brk = H.brk /\ Tags(H).pages = H.pages
<1> DEFINE s == Size(H)
           T == Tags(H)
           h == [u \in 0..Cap |-> IF u \in B THEN H.hdr[u] ELSE Tag(0, TRUE)]
           f == [u \in -1..Cap |-> IF \E b \in B : u = b + H.hdr[b].siz - 1 THEN H.ftr[u] ELSE Tag(1, TRUE)]
<1>0. /\ Cap \in Nat /\ H.brk \in 0..Cap /\ H.ok = TRUE /\ H \in Heap /\ H.pages \in Nat
      /\ Cover(s, B, H.brk) /\ Tagged(H, s, B)
      /\ \A b \in 0..Cap : H.hdr[b] \in Word
      /\ \A b \in -1..Cap : H.ftr[b] \in Word
      /\ \A c \in B : c \in 0..Cap /\ H.hdr[c].siz = s[c]
  BY TiledFacts, TiledTagged
<1> HIDE DEF s
<1>1. \A c \in B : c \in Nat /\ c < H.brk /\ s[c] \in Nat /\ s[c] > 0 /\ c + s[c] <= H.brk /\ c + s[c] \in 0..Cap
  BY <1>0, CoverFacts
<1>2. Walk(H, 0) = B
  <2>1. 0 \in B \cup {H.brk}
    BY <1>0 DEF Cover
  <2>2. \A b \in B : b >= 0
    BY <1>1
  <2>3. Walk(H, 0) = {b \in B : b >= 0}
    BY <2>1, WalkIs
  <2> QED
    BY <2>2, <2>3
<1>3. T = [H EXCEPT !.hdr = h, !.ftr = f]
  BY <1>2, Zenon DEF Tags
<1>4. h \in [0..Cap -> Word] /\ \A u \in 0..Cap : h[u] = IF u \in B THEN H.hdr[u] ELSE Tag(0, TRUE)
  BY <1>0, TagType
<1>5. f \in [-1..Cap -> Word] /\ \A u \in -1..Cap : f[u] = H.ftr[u] \/ f[u] = Tag(1, TRUE)
  BY <1>0, TagType
<1>6. \A c \in B : f[c + s[c] - 1] = H.hdr[c]
  <2>1. ASSUME NEW c \in B
        PROVE  f[c + s[c] - 1] = H.hdr[c]
    <3>1. c + s[c] - 1 \in -1..Cap
      BY <1>0, <1>1
    <3>2. H.ftr[c + s[c] - 1] = H.hdr[c] /\ H.hdr[c].siz = s[c]
      BY <1>0 DEF Tagged
    <3> QED
      BY <3>1, <3>2
  <2> QED
    BY <2>1
<1>7. f[-1] = Tag(1, TRUE)
  <2>1. H.ftr[-1] = Tag(1, TRUE) /\ -1 \in -1..Cap
    BY <1>0 DEF Tagged
  <2> QED
    BY <1>5, <2>1
<1> HIDE DEF h, f, T
<1>8. T = [hdr |-> h, ftr |-> f, brk |-> H.brk, pages |-> H.pages, ok |-> H.ok]
  <2>1. H = [hdr |-> H.hdr, ftr |-> H.ftr, brk |-> H.brk, pages |-> H.pages, ok |-> H.ok]
    BY <1>0 DEF Heap
  <2> QED
    BY <1>3, <2>1
<1>9. T \in Heap /\ T.ok = TRUE /\ T.brk = H.brk /\ T.pages = H.pages /\ T.hdr = h /\ T.ftr = f
  BY <1>0, <1>4, <1>5, <1>8 DEF Heap
<1>10. \A u \in B \cup {H.brk} : T.hdr[u] = H.hdr[u]
  <2>1. H.brk \notin B /\ H.hdr[H.brk] = Tag(0, TRUE)
    BY <1>0, <1>1 DEF Tagged
  <2> QED
    BY <1>0, <1>4, <1>9, <2>1
<1>11. Tagged(T, s, B)
  BY <1>0, <1>6, <1>7, <1>9, <1>10 DEF Tagged
<1>12. Tiled(T, B)
  BY <1>0, <1>9, <1>11, BuildTiled
<1>13. NoTwoFree(T, B)
  <2>1. \A c \in B : c + H.hdr[c].siz \in B \cup {H.brk}
    BY TiledFacts
  <2> QED
    BY <1>10, <2>1 DEF NoTwoFree
<1>14. Aloc(T, B) = Aloc(H, B)
  BY <1>10 DEF Aloc
<1> QED
  BY <1>9, <1>12, <1>13, <1>14 DEF T

\* A free block of at least siz units came at the end, joined with a free last one.
Extended(H, B, siz, num, P, D) ==
    /\ Tiled(P, D) /\ NoTwoFree(P, D) /\ B \subseteq D
    /\ Aloc(P, D) = Aloc(H, B) /\ P.brk = H.brk + siz /\ P.pages = H.pages + num
    /\ \E p \in D : /\ ~P.hdr[p].aloc /\ P.hdr[p].siz >= siz
                    /\ p = H.brk \/ (p \in B /\ p + H.hdr[p].siz = H.brk)

\* _extend_heap, given the room, ends with a free block that is large enough.
LEMMA ExtendIs ==
  ASSUME NEW H, NEW B, Tiled(H, B), NoTwoFree(H, B), NEW siz \in Nat \ {0}, NEW num \in Nat, H.brk + siz <= Cap
  PROVE  \E D : Extended(H, B, siz, num, Extend(H, siz, num), D)
<1> DEFINE s == Size(H)
           e == H.brk
           m == e + siz
           G == [H EXCEPT !.brk = @ + siz, !.pages = @ + num]
           N == Put(G, e, siz, FALSE)
           K == [N EXCEPT !.hdr[N.brk] = Tag(0, TRUE)]
           t == [c \in B \cup {e} |-> IF c = e THEN siz ELSE s[c]]
           C == B \cup {e}
<1>0. /\ Cap \in Nat /\ e \in 0..Cap /\ H.ok = TRUE /\ H \in Heap /\ H.pages \in Nat
      /\ Cover(s, B, e) /\ Tagged(H, s, B)
      /\ \A c \in B : c \in 0..Cap /\ H.hdr[c].siz = s[c]
      /\ \A c \in B : c + H.hdr[c].siz \in B \cup {e}
  BY TiledFacts, TiledTagged
<1> HIDE DEF s
<1>1. \A c \in B : c \in Nat /\ c < e /\ s[c] \in Nat /\ s[c] > 0 /\ c + s[c] <= e /\ c + s[c] \in 0..Cap
  BY <1>0, CoverFacts
<1>2. e \in Nat /\ m \in 0..Cap /\ m \in Nat /\ siz \in Nat /\ 0 < siz /\ e \notin B /\ m \notin B /\ m # e
  BY <1>0, <1>1
<1>3. t[e] = siz /\ \A c \in B : t[c] = s[c]
  BY <1>2
<1> HIDE DEF t
<1>4. Cover(t, C, m)
  BY <1>0, <1>2, <1>3, CoverAppend
<1>5. Extend(H, siz, num) = _merge(K, e)
  BY DEF Extend
<1> HIDE DEF e
<1>6. G \in Heap /\ G.brk = m /\ G.pages = H.pages + num /\ G.ok = TRUE /\ G.hdr = H.hdr /\ G.ftr = H.ftr
  <2>1. H = [hdr |-> H.hdr, ftr |-> H.ftr, brk |-> H.brk, pages |-> H.pages, ok |-> H.ok]
    BY <1>0 DEF Heap
  <2>2. H.hdr \in [0..Cap -> Word] /\ H.ftr \in [-1..Cap -> Word] /\ H.pages \in Nat
    BY <1>0 DEF Heap
  <2> DEFINE y == H.pages + num
  <2>3. G = [H EXCEPT !.brk = m, !.pages = y] /\ y \in Nat
    BY <2>2 DEF e
  <2> HIDE DEF G, m, y
  <2>4. G = [hdr |-> H.hdr, ftr |-> H.ftr, brk |-> m, pages |-> y, ok |-> H.ok]
    BY <2>1, <2>3
  <2> QED
    BY <1>0, <1>2, <2>2, <2>3, <2>4 DEF Heap, y
<1> HIDE DEF G
<1>7. Fit(e, siz)
  BY <1>0, <1>2 DEF Fit
<1>8. IsPut(N, G, e, siz, FALSE)
  BY <1>6, <1>7, PutIs
<1> HIDE DEF N
<1>9. /\ N \in Heap /\ N.brk = m /\ N.pages = H.pages + num /\ N.ok = TRUE
      /\ N.hdr[e] = Tag(siz, FALSE) /\ N.ftr[e + siz - 1] = Tag(siz, FALSE)
      /\ \A c \in 0..Cap : c # e => N.hdr[c] = H.hdr[c]
      /\ \A c \in -1..Cap : c # e + siz - 1 => N.ftr[c] = H.ftr[c]
  BY <1>6, <1>8 DEF IsPut
<1>10. /\ K \in Heap /\ K.brk = m /\ K.pages = H.pages + num /\ K.ok = TRUE
       /\ K.hdr[m] = Tag(0, TRUE) /\ K.ftr = N.ftr
       /\ \A c \in 0..Cap : c # m => K.hdr[c] = N.hdr[c]
  <2> DEFINE w == Tag(0, TRUE)
  <2>0. w \in Word
    BY TagType
  <2> HIDE DEF w, m
  <2>1. N = [hdr |-> N.hdr, ftr |-> N.ftr, brk |-> m, pages |-> N.pages, ok |-> N.ok]
    BY <1>9 DEF Heap
  <2>2. N.hdr \in [0..Cap -> Word] /\ N.ftr \in [-1..Cap -> Word] /\ N.pages \in Nat /\ N.ok \in BOOLEAN
    BY <1>9 DEF Heap
  <2>3. K = [N EXCEPT !.hdr[m] = w]
    BY <1>9 DEF w
  <2>4. K = [hdr |-> [N.hdr EXCEPT ![m] = w], ftr |-> N.ftr, brk |-> m, pages |-> N.pages, ok |-> N.ok]
    BY <2>1, <2>3
  <2> HIDE DEF K
  <2>5. K \in Heap
    BY <1>2, <2>0, <2>2, <2>4 DEF Heap
  <2>6. K.hdr = [N.hdr EXCEPT ![m] = w] /\ m \in DOMAIN N.hdr
    BY <1>2, <2>2, <2>4
  <2>7. K.hdr[m] = w /\ \A c \in 0..Cap : c # m => K.hdr[c] = N.hdr[c]
    BY <2>2, <2>6
  <2> QED
    BY <1>9, <2>4, <2>5, <2>7 DEF w
<1> HIDE DEF K
<1>11. K.hdr[e].siz = siz /\ K.hdr[e].aloc = FALSE /\ K.hdr[e] = Tag(siz, FALSE)
  BY <1>0, <1>2, <1>9, <1>10, TagType
<1>12. \A c \in B : K.hdr[c] = H.hdr[c]
  BY <1>0, <1>2, <1>9, <1>10
<1>13. Tagged(K, t, C)
  <2>1. ASSUME NEW c \in C
        PROVE  K.hdr[c].siz = t[c] /\ K.ftr[c + t[c] - 1] = K.hdr[c]
    <3>1. CASE c = e
      BY <1>3, <1>9, <1>10, <1>11, <3>1
    <3>2. CASE c \in B
      <4>1. c + s[c] - 1 # e + siz - 1 /\ c + s[c] - 1 \in -1..Cap
        BY <1>0, <1>1, <1>2, <3>2
      <4>2. H.hdr[c].siz = s[c] /\ H.ftr[c + s[c] - 1] = H.hdr[c]
        BY <1>0, <3>2 DEF Tagged
      <4> QED
        BY <1>3, <1>9, <1>10, <1>12, <3>2, <4>1, <4>2
    <3> QED
      BY <3>1, <3>2
  <2>2. K.hdr[K.brk] = Tag(0, TRUE) /\ K.ftr[-1] = Tag(1, TRUE)
    <3>1. -1 # e + siz - 1 /\ -1 \in -1..Cap /\ H.ftr[-1] = Tag(1, TRUE)
      BY <1>0, <1>2 DEF Tagged
    <3> QED
      BY <1>9, <1>10, <3>1
  <2> QED
    BY <2>1, <2>2 DEF Tagged
<1>14. Tiled(K, C)
  BY <1>4, <1>10, <1>13, BuildTiled
<1>15. OnlyAround(K, C, e)
  <2>1. ASSUME NEW b \in C \ {e}, ~K.hdr[b].aloc, b + K.hdr[b].siz # e
        PROVE  K.hdr[b + K.hdr[b].siz].aloc
    <3>1. b \in B /\ K.hdr[b] = H.hdr[b] /\ b + H.hdr[b].siz \in B
      BY <1>0, <1>12, <2>1
    <3> QED
      BY <1>12, <2>1, <3>1 DEF NoTwoFree
  <2> QED
    BY <1>11, <2>1 DEF OnlyAround
<1>16. PICK D : Merged(K, C, e, _merge(K, e), D)
  BY <1>14, <1>15, MergeIs
<1> DEFINE P == _merge(K, e)
<1>17. B \subseteq D
  BY <1>2, <1>11, <1>16 DEF Merged
<1>18. Aloc(K, C) = Aloc(H, B)
  BY <1>11, <1>12 DEF Aloc
<1>19. PICK p \in D : ~P.hdr[p].aloc /\ P.hdr[p].siz >= siz /\ (p = e \/ p + K.hdr[p].siz = e)
  BY <1>11, <1>16 DEF Merged
<1>20. p = e \/ (p \in B /\ p + H.hdr[p].siz = e)
  BY <1>12, <1>16, <1>19 DEF Merged
<1>21. P.brk = m /\ P.pages = H.pages + num
  BY <1>10, <1>16 DEF Merged
<1> HIDE DEF P
<1>22. Extended(H, B, siz, num, P, D)
  BY <1>16, <1>17, <1>18, <1>19, <1>20, <1>21 DEF Merged, Extended, P, e
<1> QED
  BY <1>5, <1>22 DEF P

-----------------------------------------------------------------------------
(* The list of free ranges.                                                  *)

\* The elements of the list, and the blocks they occupy.
Range0 == [addr : Nat, pages : Nat \ {0}, node : Nat]
NodesOf(l) == {l[i].node : i \in DOMAIN l}

\* Ranges in order, each with a node of its own.
Sorted(l) ==
    /\ l \in Seq(Range0)
    /\ \A i, j \in DOMAIN l : i < j => l[i].addr + l[i].pages <= l[j].addr
    /\ \A i, j \in DOMAIN l : i # j => l[i].node # l[j].node

\* What a list in order is made of.
LEMMA SortedFacts ==
  ASSUME NEW l, Sorted(l)
  PROVE  /\ Len(l) \in Nat /\ DOMAIN l = 1..Len(l)
         /\ \A i \in 1..Len(l) : l[i] \in Range0
         /\ \A i \in 1..Len(l) : l[i].addr \in Nat /\ l[i].pages \in Nat /\ l[i].pages > 0 /\ l[i].node \in Nat
         /\ IsFiniteSet(Pages(l))
<1>1. Len(l) \in Nat /\ DOMAIN l = 1..Len(l) /\ \A i \in 1..Len(l) : l[i] \in Range0
  <2>1. l \in Seq(Range0)
    BY DEF Sorted
  <2> HIDE DEF Range0
  <2> QED
    BY <2>1
<1>2. \A r \in Range0 : r.addr \in Nat /\ r.pages \in Nat /\ r.pages > 0 /\ r.node \in Nat
  BY DEF Range0
<1>3. IsFiniteSet(Pages(l))
  BY <1>1, <1>2, PagesFinite
<1> QED
  BY <1>1, <1>2, <1>3

\* The list without its element i.
LEMMA RemoveAtIs ==
  ASSUME NEW S, NEW l \in Seq(S), NEW i \in 1..Len(l)
  PROVE  /\ RemoveAt(l, i) \in Seq(S) /\ Len(RemoveAt(l, i)) = Len(l) - 1
         /\ \A j \in 1..(Len(l) - 1) : RemoveAt(l, i)[j] = IF j < i THEN l[j] ELSE l[j + 1]
<1> DEFINE a == SubSeq(l, 1, i - 1)
           b == SubSeq(l, i + 1, Len(l))
<1>1. Len(l) \in Nat /\ i \in Nat /\ 1 <= i /\ i <= Len(l)
  OBVIOUS
<1>2. a \in Seq(S) /\ Len(a) = i - 1 /\ \A j \in 1..(i - 1) : a[j] = l[j]
  BY <1>1
<1>3. b \in Seq(S) /\ Len(b) = Len(l) - i /\ \A j \in 1..(Len(l) - i) : b[j] = l[i + j]
  BY <1>1
<1> HIDE DEF a, b
<1>4. a \o b \in Seq(S) /\ Len(a \o b) = Len(l) - 1
  <2>1. a \in Seq(S) /\ b \in Seq(S) /\ Len(a) + Len(b) = Len(l) - 1
    BY <1>1, <1>2, <1>3
  <2>2. a \o b \in Seq(S) /\ Len(a \o b) = Len(a) + Len(b)
    BY <2>1
  <2> QED
    BY <2>1, <2>2
<1>5. ASSUME NEW j \in 1..(Len(l) - 1)
      PROVE  (a \o b)[j] = IF j < i THEN l[j] ELSE l[j + 1]
  <2>1. CASE j < i
    BY <1>1, <1>2, <1>3, <2>1
  <2>2. CASE ~(j < i)
    <3>1. (a \o b)[j] = b[j - (i - 1)]
      BY <1>1, <1>2, <1>3, <2>2
    <3>2. j - (i - 1) \in 1..(Len(l) - i) /\ i + (j - (i - 1)) = j + 1
      BY <1>1, <2>2
    <3>3. b[j - (i - 1)] = l[i + (j - (i - 1))]
      BY <1>3, <3>2
    <3> QED
      BY <2>2, <3>1, <3>2, <3>3
  <2> QED
    BY <2>1, <2>2
<1> QED
  BY <1>4, <1>5 DEF RemoveAt, a, b

\* The page p belongs to the range r.
InRange(p, r) == r.addr <= p /\ p < r.addr + r.pages

\* The pages of a list are those of its ranges.
LEMMA InPages ==
  ASSUME NEW n \in Nat, NEW l, DOMAIN l = 1..n,
         \A i \in 1..n : l[i].addr \in Nat /\ l[i].pages \in Nat
  PROVE  \A p : p \in Pages(l) <=> p \in Int /\ \E j \in 1..n : InRange(p, l[j])
<1>1. ASSUME NEW p
      PROVE  p \in Pages(l) <=> \E j \in 1..n : p \in l[j].addr .. l[j].addr + l[j].pages - 1
  BY DEF Pages
<1>2. ASSUME NEW p, NEW j \in 1..n
      PROVE  p \in l[j].addr .. l[j].addr + l[j].pages - 1 <=> p \in Int /\ InRange(p, l[j])
  <2>1. l[j].addr \in Nat /\ l[j].pages \in Nat
    OBVIOUS
  <2> QED
    BY <2>1 DEF InRange
<1> QED
  BY <1>1, <1>2

\* The range r after pages were taken from its front.
Shorter(r, a, g) == [r EXCEPT !.addr = a, !.pages = g]

\* The pages pmm_allocpages returns.
Taken(L, i, num) == L[i].addr .. L[i].addr + num - 1

\* alloc_post and delete0_post: exactly the pages taken leave the list, and the node of
\* a range that is used up with them.
LEMMA ListAfterIs ==
  ASSUME NEW L, Sorted(L), NEW i \in 1..Len(L), NEW num \in Nat \ {0}, num <= L[i].pages
  PROVE  /\ Sorted(ListAfter(L, i, num))
         /\ Pages(ListAfter(L, i, num)) = Pages(L) \ Taken(L, i, num) /\ Taken(L, i, num) \subseteq Pages(L)
         /\ NodesOf(ListAfter(L, i, num)) = IF L[i].pages = num THEN NodesOf(L) \ {L[i].node} ELSE NodesOf(L)
<1> DEFINE n == Len(L)
           l == ListAfter(L, i, num)
<1>0. /\ n \in Nat /\ DOMAIN L = 1..n /\ L \in Seq(Range0)
      /\ \A j \in 1..n : L[j] \in Range0
      /\ \A j \in 1..n : L[j].addr \in Nat /\ L[j].pages \in Nat /\ L[j].pages > 0 /\ L[j].node \in Nat
      /\ \A j, k \in 1..n : j < k => L[j].addr + L[j].pages <= L[k].addr
      /\ \A j, k \in 1..n : j # k => L[j].node # L[k].node
  BY SortedFacts DEF Sorted
<1>1. \A p : p \in Pages(L) <=> p \in Int /\ \E j \in 1..n : InRange(p, L[j])
  BY <1>0, InPages
<1>2. \A p : p \in Taken(L, i, num) <=> p \in Int /\ L[i].addr <= p /\ p < L[i].addr + num
  BY <1>0 DEF Taken
<1>3. ASSUME NEW p \in Int, InRange(p, L[i]), NEW j \in 1..n, j # i
      PROVE  ~InRange(p, L[j])
  BY <1>0, <1>3 DEF InRange
<1>4. Taken(L, i, num) \subseteq Pages(L)
  BY <1>0, <1>1, <1>2 DEF InRange
<1>5. CASE L[i].pages = num
  <2>1. l = RemoveAt(L, i)
    BY <1>5 DEF ListAfter
  <2>2. /\ l \in Seq(Range0) /\ Len(l) = n - 1
        /\ \A j \in 1..(n - 1) : l[j] = IF j < i THEN L[j] ELSE L[j + 1]
    <3> HIDE DEF l
    <3>1. L \in Seq(Range0)
      BY <1>0
    <3>2. /\ RemoveAt(L, i) \in Seq(Range0) /\ Len(RemoveAt(L, i)) = n - 1
          /\ \A j \in 1..(n - 1) : RemoveAt(L, i)[j] = IF j < i THEN L[j] ELSE L[j + 1]
      BY <3>1, RemoveAtIs
    <3> QED
      BY <2>1, <3>2, Zenon
  <2> HIDE DEF l
  <2> DEFINE o == [j \in 1..(n - 1) |-> IF j < i THEN j ELSE j + 1]
  <2>3. /\ DOMAIN l = 1..(n - 1) /\ \A j \in 1..(n - 1) : o[j] \in 1..n /\ o[j] # i /\ l[j] = L[o[j]]
        /\ \A j, k \in 1..(n - 1) : j < k => o[j] < o[k]
    <3>1. DOMAIN l = 1..(n - 1)
      BY <2>2
    <3> QED
      BY <1>0, <2>2, <3>1
  <2>4. \A j \in 1..n : j # i => \E k \in 1..(n - 1) : o[k] = j
    <3>1. ASSUME NEW j \in 1..n, j < i
          PROVE  j \in 1..(n - 1) /\ o[j] = j
      BY <1>0, <3>1
    <3>2. ASSUME NEW j \in 1..n, i < j
          PROVE  j - 1 \in 1..(n - 1) /\ o[j - 1] = j
      BY <1>0, <3>2
    <3> HIDE DEF o
    <3>3. ASSUME NEW j \in 1..n, j # i
          PROVE  \E k \in 1..(n - 1) : o[k] = j
      <4>1. j < i \/ i < j
        BY <1>0, <3>3
      <4> QED
        BY <3>1, <3>2, <4>1
    <3> QED
      BY <3>3
  <2>5. \A j, k \in 1..(n - 1) : j # k => o[j] # o[k]
    <3>1. \A j \in 1..(n - 1) : o[j] \in Int /\ j \in Int
      BY <2>3
    <3> QED
      BY <2>3, <3>1
  <2> HIDE DEF o
  <2>6. Sorted(l)
    <3>1. \A j, k \in 1..(n - 1) : j < k => l[j].addr + l[j].pages <= l[k].addr
      BY <1>0, <2>3
    <3>2. \A j, k \in 1..(n - 1) : j # k => l[j].node # l[k].node
      <4>1. \A j, k \in 1..n : j # k => L[j].node # L[k].node
        BY <1>0
      <4>2. \A j \in 1..(n - 1) : o[j] \in 1..n /\ l[j] = L[o[j]]
        BY <2>3
      <4>3. ASSUME NEW j \in 1..(n - 1), NEW k \in 1..(n - 1), j # k
            PROVE  l[j].node # l[k].node
        <5>1. o[j] # o[k] /\ o[j] \in 1..n /\ o[k] \in 1..n /\ l[j] = L[o[j]] /\ l[k] = L[o[k]]
          BY <2>5, <4>2, <4>3
        <5>2. L[o[j]].node # L[o[k]].node
          BY <4>1, <5>1
        <5> QED
          BY <5>1, <5>2
      <4> QED
        BY <4>3
    <3> QED
      BY <2>2, <2>3, <3>1, <3>2 DEF Sorted
  <2>7. Pages(l) = Pages(L) \ Taken(L, i, num)
    <3>1. \A p : p \in Pages(l) <=> p \in Int /\ \E j \in 1..(n - 1) : InRange(p, l[j])
      <4>1. \A j \in 1..(n - 1) : l[j].addr \in Nat /\ l[j].pages \in Nat
        BY <1>0, <2>3
      <4>2. n - 1 \in Nat /\ DOMAIN l = 1..(n - 1)
        BY <1>0, <2>3
      <4> QED
        BY <4>1, <4>2, InPages
    <3>2. \A p : p \in Pages(l) <=> p \in Int /\ \E j \in 1..n : j # i /\ InRange(p, L[j])
      <4>1. \A j \in 1..(n - 1) : o[j] \in 1..n /\ o[j] # i /\ l[j] = L[o[j]]
        BY <2>3
      <4>2. \A p : (\E j \in 1..(n - 1) : InRange(p, l[j])) <=> (\E j \in 1..n : j # i /\ InRange(p, L[j]))
        <5>1. ASSUME NEW p, NEW j \in 1..(n - 1), InRange(p, l[j])
              PROVE  \E k \in 1..n : k # i /\ InRange(p, L[k])
          BY <4>1, <5>1
        <5>2. ASSUME NEW p, NEW k \in 1..n, k # i, InRange(p, L[k])
              PROVE  \E j \in 1..(n - 1) : InRange(p, l[j])
          <6>1. PICK j \in 1..(n - 1) : o[j] = k
            BY <2>4, <5>2
          <6> QED
            BY <4>1, <5>2, <6>1
        <5> QED
          BY <5>1, <5>2
      <4> QED
        BY <3>1, <4>2, Zenon
    <3>3. \A p : p \in Taken(L, i, num) <=> p \in Int /\ InRange(p, L[i])
      BY <1>2, <1>5 DEF InRange
    <3> QED
      BY <1>1, <1>3, <3>2, <3>3
  <2>8. NodesOf(l) = NodesOf(L) \ {L[i].node}
    <3>1. \A x : x \in NodesOf(l) <=> \E j \in 1..(n - 1) : x = l[j].node
      BY <2>3 DEF NodesOf
    <3>2. \A x : x \in NodesOf(L) <=> \E j \in 1..n : x = L[j].node
      BY <1>0 DEF NodesOf
    <3>3. \A j \in 1..(n - 1) : o[j] \in 1..n /\ o[j] # i /\ l[j] = L[o[j]]
      BY <2>3
    <3>4. \A j \in 1..n : j # i => L[j].node # L[i].node
      BY <1>0
    <3>5. \A x : x \in NodesOf(l) <=> x \in NodesOf(L) /\ x # L[i].node
      <4>1. ASSUME NEW x, NEW j \in 1..(n - 1), x = l[j].node
            PROVE  x \in NodesOf(L) /\ x # L[i].node
        <5>1. o[j] \in 1..n /\ o[j] # i /\ x = L[o[j]].node
          BY <3>3, <4>1
        <5> QED
          BY <3>2, <3>4, <5>1
      <4>2. ASSUME NEW x, NEW k \in 1..n, x = L[k].node, x # L[i].node
            PROVE  x \in NodesOf(l)
        <5>1. PICK j \in 1..(n - 1) : o[j] = k
          BY <2>4, <4>2
        <5> QED
          BY <3>1, <3>3, <4>2, <5>1
      <4> QED
        BY <3>1, <3>2, <4>1, <4>2
    <3> QED
      BY <3>5
  <2> QED
    BY <1>4, <1>5, <2>6, <2>7, <2>8 DEF l
<1>6. CASE L[i].pages # num
  <2> DEFINE a == L[i].addr + num
             g == L[i].pages - num
             r == Shorter(L[i], a, g)
  <2>1. a \in Nat /\ g \in Nat \ {0} /\ a + g = L[i].addr + L[i].pages
    BY <1>0, <1>6
  <2>2. l = [L EXCEPT ![i].addr = @ + num, ![i].pages = @ - num]
    BY <1>6 DEF ListAfter
  <2>3. l = [L EXCEPT ![i] = r]
    BY <1>0, <2>2 DEF Shorter
  <2>4. r \in Range0 /\ r.addr = a /\ r.pages = g /\ r.node = L[i].node
    <3> DEFINE x == L[i]
    <3>1. x \in Range0 /\ a \in Nat /\ g \in Nat \ {0}
      BY <1>0, <2>1
    <3> HIDE DEF a, g, x
    <3>2. /\ Shorter(x, a, g) \in Range0 /\ Shorter(x, a, g).addr = a
          /\ Shorter(x, a, g).pages = g /\ Shorter(x, a, g).node = x.node
      BY <3>1 DEF Range0, Shorter
    <3>3. r = Shorter(x, a, g) /\ x = L[i]
      BY DEF x
    <3> HIDE DEF r
    <3> QED
      BY <3>2, <3>3
  <2> HIDE DEF l, r
  <2>5. l \in Seq(Range0) /\ Len(l) = n /\ l[i] = r /\ \A j \in 1..n : j # i => l[j] = L[j]
    <3>1. r \in Range0
      BY <2>4
    <3> HIDE DEF Range0
    <3> QED
      BY <1>0, <2>3, <3>1
  <2>6. DOMAIN l = 1..n
    BY <2>5
  <2> HIDE DEF a, g
  <2>7. Sorted(l)
    <3>1. ASSUME NEW j \in 1..n, NEW k \in 1..n, j < k
          PROVE  l[j].addr + l[j].pages <= l[k].addr
      <4>1. L[j].addr + L[j].pages <= L[k].addr
        BY <1>0, <3>1
      <4>2. CASE j = i
        <5>1. k # i /\ l[k] = L[k] /\ l[j].addr = a /\ l[j].pages = g
          BY <2>4, <2>5, <3>1, <4>2
        <5> QED
          BY <2>1, <4>1, <4>2, <5>1
      <4>3. CASE k = i
        <5>1. j # i /\ l[j] = L[j] /\ l[k].addr = a
          BY <2>4, <2>5, <3>1, <4>3
        <5>2. L[i].addr <= a
          BY <1>0 DEF a
        <5> QED
          BY <1>0, <2>1, <4>1, <4>3, <5>1, <5>2
      <4>4. CASE j # i /\ k # i
        BY <2>5, <4>1, <4>4
      <4> QED
        BY <4>2, <4>3, <4>4
    <3>2. \A j \in 1..n : l[j].node = L[j].node
      BY <2>4, <2>5
    <3> QED
      BY <1>0, <2>5, <2>6, <3>1, <3>2 DEF Sorted
  <2>8. Pages(l) = Pages(L) \ Taken(L, i, num)
    <3>1. \A p : p \in Pages(l) <=> p \in Int /\ \E j \in 1..n : InRange(p, l[j])
      <4>1. \A j \in 1..n : l[j].addr \in Nat /\ l[j].pages \in Nat
        BY <1>0, <2>1, <2>4, <2>5
      <4> QED
        BY <1>0, <2>6, <4>1, InPages
    <3>2. \A p \in Int : InRange(p, l[i]) <=> InRange(p, L[i]) /\ p \notin Taken(L, i, num)
      <4>1. L[i].addr \in Nat /\ L[i].pages \in Nat /\ l[i].addr = L[i].addr + num /\ l[i].addr + l[i].pages = L[i].addr + L[i].pages
        BY <1>0, <2>1, <2>4, <2>5 DEF a
      <4> QED
        BY <1>2, <4>1 DEF InRange
    <3>3. \A p \in Int : p \in Taken(L, i, num) => InRange(p, L[i])
      BY <1>0, <1>2 DEF InRange
    <3>4. \A p : p \in Taken(L, i, num) => p \in Int
      BY <1>2
    <3> QED
      BY <1>1, <1>3, <2>5, <3>1, <3>2, <3>3, <3>4
  <2>9. NodesOf(l) = NodesOf(L)
    <3>1. \A j \in 1..n : l[j].node = L[j].node
      BY <2>4, <2>5
    <3> QED
      BY <1>0, <2>6, <3>1 DEF NodesOf
  <2> QED
    BY <1>4, <1>6, <2>7, <2>8, <2>9 DEF l
<1> QED
  BY <1>5, <1>6

-----------------------------------------------------------------------------
(* The invariant.                                                            *)

\* The heap is tiled, and in use is what malloc gave out and what holds the page list.
HeapInv ==
    /\ Tiled(heap, Blocks) /\ NoTwoFree(heap, Blocks) /\ Aloc(heap, Blocks) = Owned
    /\ live \cap NodesOf(list) = {}

\* What PagesAccounted says of a list, the pages that left it and the count.
Accounted(l, g, f) ==
    /\ \A i \in DOMAIN l : l[i].pages > 0
    /\ \A i, j \in DOMAIN l : i < j => l[i].addr + l[i].pages <= l[j].addr
    /\ Pages(l) \cap g = {} /\ Cardinality(Pages(l)) = f
    /\ Pages(l) \cup g = Pages(Ranges)

\* The list of pages is in order.
PagesInv == Sorted(list) /\ page_free \in Nat /\ Accounted(list, given, page_free)

\* No assertion failed, and the heap with the word behind it lies in mapped pages.
RoomInv == heap.ok = TRUE /\ heap.brk \in Nat /\ heap.pages \in Nat /\ 2 * heap.brk + 4 <= 2 * PAGE * heap.pages

\* The inductive invariant, until memory has two uses; the heap is tiled until malloc
\* takes a stale word for a tag.
MemInv == ~aliased => PagesInv /\ RoomInv /\ (~swallowed => HeapInv)

\* The blocks of a tiled heap are those malloc walks over.
LEMMA WalkAll ==
  ASSUME NEW H, NEW B, Tiled(H, B)
  PROVE  Walk(H, 0) = B
<1>1. 0 \in B \cup {H.brk} /\ B \subseteq 0..Cap
  BY DEF Tiled, Cover
<1>2. Walk(H, 0) = {b \in B : b >= 0}
  BY <1>1, WalkIs
<1>3. \A b \in B : b >= 0
  BY <1>1, CapType
<1> QED
  BY <1>2, <1>3

\* A step that leaves the heap tiled, with the right blocks in use, keeps HeapInv.
LEMMA HeapInvNext ==
  ASSUME NEW H, NEW B, Tiled(H, B), NoTwoFree(H, B), Aloc(H, B) = live' \cup NodesOf(list'),
         live' \cap NodesOf(list') = {}, heap' = Tags(H)
  PROVE  HeapInv' /\ heap'.brk = H.brk /\ heap'.pages = H.pages /\ heap'.ok = TRUE
<1>1. /\ Tiled(heap', B) /\ NoTwoFree(heap', B) /\ Aloc(heap', B) = live' \cup NodesOf(list')
      /\ heap'.brk = H.brk /\ heap'.pages = H.pages
  BY TagsIs
<1>2. Walk(heap', 0) = B
  BY <1>1, WalkAll
<1>3. Blocks' = B /\ Owned' = live' \cup NodesOf(list')
  BY <1>2 DEF Blocks, Owned, NodesOf
<1>4. heap'.ok = TRUE
  BY <1>1 DEF Tiled
<1> QED
  BY <1>1, <1>3, <1>4 DEF HeapInv

\* pmm_allocpages: the pages it returns were free.
LEMMA PagesStep ==
  ASSUME NEW l, NEW g, NEW f \in Nat, Sorted(l), Accounted(l, g, f),
         NEW i \in 1..Len(l), NEW num \in Nat \ {0}, num <= l[i].pages
  PROVE  /\ Accounted(ListAfter(l, i, num), g \cup Taken(l, i, num), f - num)
         /\ Sorted(ListAfter(l, i, num)) /\ f - num \in Nat
<1> DEFINE T == Taken(l, i, num)
           F == Pages(l)
           r == ListAfter(l, i, num)
<1>3. Sorted(r) /\ Pages(r) = F \ T /\ T \subseteq F
  BY ListAfterIs
<1>4. IsFiniteSet(F)
  BY SortedFacts
<1>5. Cardinality(T) = num
  <2>1. l[i].addr \in Nat
    BY SortedFacts
  <2>2. l[i].addr \in Int /\ l[i].addr + num - 1 \in Int /\ ~(l[i].addr > l[i].addr + num - 1)
    BY <2>1
  <2>3. Cardinality(T) = (l[i].addr + num - 1) - l[i].addr + 1
    BY <2>2, FS_Interval DEF Taken
  <2> QED
    BY <2>1, <2>3
<1> HIDE DEF T, F, r
<1>6. Cardinality(F \ T) = Cardinality(F) - Cardinality(F \cap T) /\ F \cap T = T /\ IsFiniteSet(F \ T)
  BY <1>3, <1>4, FS_Difference
<1>7. Cardinality(Pages(r)) = f - num /\ f - num \in Nat
  <2>1. Cardinality(F) = f
    BY DEF Accounted, F
  <2>2. Cardinality(F \ T) \in Nat
    BY <1>6, FS_CardinalityType
  <2>3. Cardinality(F \ T) = f - num
    BY <1>5, <1>6, <2>1
  <2> QED
    BY <1>3, <2>2, <2>3
<1>8. Pages(r) \cap (g \cup T) = {} /\ Pages(r) \cup (g \cup T) = Pages(Ranges)
  BY <1>3 DEF Accounted, F
<1>9. /\ \A j \in DOMAIN r : r[j].pages > 0
      /\ \A j, k \in DOMAIN r : j < k => r[j].addr + r[j].pages <= r[k].addr
  <2>1. \A j \in DOMAIN r : r[j].pages > 0
    BY <1>3, SortedFacts
  <2> QED
    BY <1>3, <2>1 DEF Sorted
<1>10. Accounted(r, g \cup T, f - num)
  BY <1>7, <1>8, <1>9 DEF Accounted
<1> QED
  BY <1>3, <1>7, <1>10 DEF T, r

\* The blocks in use of a tiled heap: those in V, and the nodes of the list l.
InUse(H, D, V, l) ==
    /\ Tiled(H, D) /\ NoTwoFree(H, D) /\ Aloc(H, D) = V \cup NodesOf(l) /\ V \cap NodesOf(l) = {}

\* The node of a range that is used up is freed.
LEMMA HeapAfterIs ==
  ASSUME NEW H, NEW B, NEW V, NEW l, InUse(H, B, V, l), Sorted(l),
         NEW i \in 1..Len(l), NEW num \in Nat \ {0}, num <= l[i].pages
  PROVE  /\ \E D : InUse(HeapAfter(H, l, i, num), D, V, ListAfter(l, i, num))
         /\ HeapAfter(H, l, i, num).brk = H.brk /\ HeapAfter(H, l, i, num).pages = H.pages
<1> DEFINE u == l[i].node
<1>0. Tiled(H, B) /\ NoTwoFree(H, B) /\ Aloc(H, B) = V \cup NodesOf(l) /\ V \cap NodesOf(l) = {}
  BY DEF InUse
<1>1. NodesOf(ListAfter(l, i, num)) = IF l[i].pages = num THEN NodesOf(l) \ {u} ELSE NodesOf(l)
  BY ListAfterIs
<1>2. u \in NodesOf(l)
  BY SortedFacts DEF NodesOf
<1> HIDE DEF u
<1>3. CASE l[i].pages = num
  <2>1. HeapAfter(H, l, i, num) = free(H, u)
    BY <1>3 DEF HeapAfter, u
  <2>2. PICK D : Freed(H, B, u, free(H, u), D)
    BY <1>0, <1>2, FreeIs
  <2> QED
    BY <1>0, <1>1, <1>2, <1>3, <2>1, <2>2 DEF Freed, InUse
<1>4. CASE l[i].pages # num
  <2>1. HeapAfter(H, l, i, num) = H
    BY <1>4 DEF HeapAfter
  <2> QED
    BY <1>0, <1>1, <1>4, <2>1 DEF InUse
<1> QED
  BY <1>3, <1>4

\* pmm_allocpages finds a range that is long enough, or none.
LEMMA FirstRangeIs ==
  ASSUME NEW l, Sorted(l), NEW num
  PROVE  FirstRange(l, num) > Len(l) \/ (FirstRange(l, num) \in 1..Len(l) /\ l[FirstRange(l, num)].pages >= num)
<1> DEFINE S == {i \in DOMAIN l : l[i].pages >= num} \cup {Len(l) + 1}
<1>1. Len(l) \in Nat /\ DOMAIN l = 1..Len(l)
  BY SortedFacts
<1>2. S \in SUBSET Nat /\ S # {}
  BY <1>1
<1>3. Min(S) \in S
  BY <1>2, MinIs
<1> QED
  BY <1>1, <1>3 DEF FirstRange

\* A heap and a list of pages that fit together, the blocks in V being those of malloc's
\* callers.
Sound(m, V) ==
    /\ Sorted(m.list) /\ m.free \in Nat /\ Accounted(m.list, m.given, m.free)
    /\ \E D : InUse(m.heap, D, V, m.list)

\* pmm_allocpages, whoever calls it and whatever it finds, leaves them so.
LEMMA PmmIs ==
  ASSUME NEW m, NEW V, Sound(m, V), NEW num \in Nat, NEW r, r = pmm_allocpages(m, num)
  PROVE  Sound(r, V) /\ r.heap.brk = m.heap.brk /\ r.heap.pages = m.heap.pages
<1> DEFINE l == m.list
           i == FirstRange(l, num)
<1>1. Sorted(l) /\ m.free \in Nat /\ Accounted(l, m.given, m.free)
  BY DEF Sound
<1>2. CASE num = 0 \/ i > Len(l)
  <2>1. r = m
    BY <1>2 DEF pmm_allocpages
  <2> QED
    BY <2>1
<1>3. CASE ~(num = 0 \/ i > Len(l))
  <2> DEFINE h == HeapAfter(m.heap, l, i, num)
             a == ListAfter(l, i, num)
             g == m.given \cup Taken(l, i, num)
             f == m.free - num
  <2>1. r = [heap |-> h, list |-> a, given |-> g, free |-> f]
    BY <1>3 DEF pmm_allocpages, Taken
  <2>2. i \in 1..Len(l) /\ num <= l[i].pages /\ num \in Nat \ {0}
    <3>1. i \in 1..Len(l) /\ l[i].pages >= num
      BY <1>1, <1>3, FirstRangeIs
    <3>2. l[i].pages \in Nat
      BY <1>1, <3>1, SortedFacts
    <3> QED
      BY <1>3, <3>1, <3>2
  <2>3. PICK B : InUse(m.heap, B, V, l)
    BY DEF Sound
  <2> HIDE DEF i, l
  <2>4. Accounted(a, g, f) /\ Sorted(a) /\ f \in Nat
    BY <1>1, <2>2, PagesStep
  <2>5. (\E D : InUse(h, D, V, a)) /\ h.brk = m.heap.brk /\ h.pages = m.heap.pages
    BY <1>1, <2>2, <2>3, HeapAfterIs
  <2> HIDE DEF h, a, g, f
  <2>6. r.heap = h /\ r.list = a /\ r.given = g /\ r.free = f
    BY <2>1
  <2> QED
    BY <2>4, <2>5, <2>6 DEF Sound
<1> QED
  BY <1>2, <1>3

-----------------------------------------------------------------------------
(* The steps.                                                                *)

\* A step that changes none of what the invariant speaks of.
LEMMA UnchangedNext ==
  ASSUME MemInv, UNCHANGED <<heap, list, live, given, page_free, swallowed, aliased>>
  PROVE  MemInv'
<1>1. CASE aliased
  BY <1>1 DEF MemInv
<1>2. CASE ~aliased
  <2>2. PagesInv' /\ RoomInv'
    BY <1>2 DEF MemInv, PagesInv, RoomInv
  <2>3. ~swallowed' => HeapInv'
    BY <1>2 DEF MemInv, HeapInv, Blocks, Owned
  <2> QED
    BY <2>2, <2>3 DEF MemInv
<1> QED
  BY <1>1, <1>2

\* What the invariant says of a kernel that is still running.
LEMMA UpFacts ==
  ASSUME MemInv, Up
  PROVE  /\ PagesInv /\ HeapInv /\ ~swallowed /\ ~aliased /\ Sorted(list) /\ page_free \in Nat
         /\ heap.brk \in Nat /\ heap.pages \in Nat /\ 2 * heap.brk + 4 <= 2 * PAGE * heap.pages
         /\ Tiled(heap, Blocks) /\ NoTwoFree(heap, Blocks) /\ Aloc(heap, Blocks) = live \cup NodesOf(list)
         /\ live \cap NodesOf(list) = {} /\ Blocks \subseteq Nat
<1>1. PagesInv /\ RoomInv /\ HeapInv /\ ~swallowed /\ ~aliased
  BY DEF MemInv, Up
<1>2. Tiled(heap, Blocks) /\ NoTwoFree(heap, Blocks) /\ live \cap NodesOf(list) = {} /\ Aloc(heap, Blocks) = Owned
  BY <1>1 DEF HeapInv
<1>3. Owned = live \cup NodesOf(list)
  BY DEF Owned, NodesOf
<1>4. \A b \in Blocks : b \in 0..Cap
  BY <1>2, TiledFacts
<1>5. Blocks \subseteq Nat
  BY <1>4, CapType
<1> QED
  BY <1>1, <1>2, <1>3, <1>5 DEF PagesInv, RoomInv

\* Its heap and its list of pages fit together.
LEMMA StateSound ==
  ASSUME MemInv, Up
  PROVE  /\ Sound(State, live)
         /\ State.heap = heap /\ State.list = list /\ State.given = given /\ State.free = page_free
<1>1. State.heap = heap /\ State.list = list /\ State.given = given /\ State.free = page_free
  BY DEF State
<1>2. InUse(heap, Blocks, live, list)
  BY UpFacts DEF InUse
<1>3. Sorted(list) /\ page_free \in Nat /\ Accounted(list, given, page_free)
  BY UpFacts DEF PagesInv
<1> HIDE DEF State
<1> QED
  BY <1>1, <1>2, <1>3 DEF Sound

\* A step that takes nothing from the list of pages and keeps the heap tiled.
LEMMA HeapStep ==
  ASSUME MemInv, Up, UNCHANGED <<list, given, page_free, swallowed>>,
         NEW H, NEW B, Tiled(H, B), NoTwoFree(H, B), H.brk = heap.brk, H.pages = heap.pages,
         Aloc(H, B) = live' \cup NodesOf(list), live' \cap NodesOf(list) = {}, heap' = Tags(H)
  PROVE  MemInv'
<1>1. NodesOf(list') = NodesOf(list)
  BY DEF NodesOf
<1>2. HeapInv' /\ heap'.brk = heap.brk /\ heap'.pages = heap.pages /\ heap'.ok = TRUE
  BY <1>1, HeapInvNext
<1>4. PagesInv' /\ RoomInv'
  <2>1. PagesInv'
    BY UpFacts DEF PagesInv
  <2> QED
    BY <1>2, <2>1, UpFacts DEF RoomInv
<1> QED
  BY <1>2, <1>4 DEF MemInv

\* free, called from outside.
LEMMA FreeNext ==
  ASSUME MemInv, NEW b, Free(b)
  PROVE  MemInv'
<1>1. Up /\ b \in live /\ heap' = Tags(free(heap, b)) /\ live' = live \ {b}
      /\ UNCHANGED <<list, given, page_free, swallowed>>
  BY DEF Free
<1>2. Tiled(heap, Blocks) /\ NoTwoFree(heap, Blocks) /\ b \in Aloc(heap, Blocks) /\ b \notin NodesOf(list)
      /\ live \cap NodesOf(list) = {} /\ Aloc(heap, Blocks) = live \cup NodesOf(list)
  BY <1>1, UpFacts
<1>3. PICK D : Freed(heap, Blocks, b, free(heap, b), D)
  BY <1>2, FreeIs
<1> DEFINE H == free(heap, b)
<1>4. /\ Tiled(H, D) /\ NoTwoFree(H, D) /\ H.brk = heap.brk /\ H.pages = heap.pages
      /\ Aloc(H, D) = live' \cup NodesOf(list) /\ live' \cap NodesOf(list) = {} /\ heap' = Tags(H)
  BY <1>1, <1>2, <1>3 DEF Freed
<1> HIDE DEF H
<1> QED
  BY <1>1, <1>4, HeapStep

\* malloc, when a free block is large enough.
LEMMA mallocNext ==
  ASSUME MemInv, NEW siz \in Nat \ {0}, malloc(siz)
  PROVE  MemInv'
<1> DEFINE b == Min(Fits(heap, 0, siz))
           H == Place(heap, b, siz)
<1>1. Up /\ Fits(heap, 0, siz) # {} /\ heap' = Tags(H) /\ live' = live \cup {b}
      /\ UNCHANGED <<list, given, page_free, swallowed>>
  BY DEF malloc
<1>2. /\ Tiled(heap, Blocks) /\ NoTwoFree(heap, Blocks) /\ Aloc(heap, Blocks) = live \cup NodesOf(list)
      /\ live \cap NodesOf(list) = {} /\ Blocks \subseteq Nat
  BY <1>1, UpFacts
<1>3. Fits(heap, 0, siz) = {c \in Blocks : ~heap.hdr[c].aloc /\ heap.hdr[c].siz >= siz}
  BY DEF Fits, Blocks
<1>4. b \in Fits(heap, 0, siz)
  <2>1. Fits(heap, 0, siz) \in SUBSET Nat
    BY <1>2, <1>3
  <2> QED
    BY <1>1, <2>1, MinIs
<1> HIDE DEF b
<1>5. b \in Blocks /\ ~heap.hdr[b].aloc /\ siz <= heap.hdr[b].siz
  <2>1. b \in Blocks /\ ~heap.hdr[b].aloc /\ heap.hdr[b].siz >= siz
    BY <1>3, <1>4
  <2>2. heap.hdr[b].siz \in Nat
    BY <1>2, <2>1, TiledFacts
  <2> QED
    BY <2>1, <2>2
<1>6. PICK D : Placed(heap, Blocks, b, H, D)
  BY <1>2, <1>5, PlaceIs
<1>7. b \notin live /\ b \notin NodesOf(list)
  BY <1>2, <1>5 DEF Aloc
<1>8. /\ Tiled(H, D) /\ NoTwoFree(H, D) /\ H.brk = heap.brk /\ H.pages = heap.pages
      /\ Aloc(H, D) = live' \cup NodesOf(list) /\ live' \cap NodesOf(list) = {} /\ heap' = Tags(H)
  BY <1>1, <1>2, <1>6, <1>7 DEF Placed
<1> HIDE DEF H
<1> QED
  BY <1>1, <1>8, HeapStep

\* The list after a call of pmm_allocpages.
LEMMA PmmNext ==
  ASSUME NEW m, Sound(m, live), Pmm(m)
  PROVE  PagesInv' /\ \E D : InUse(m.heap, D, live, list')
<1>1. list' = m.list /\ given' = m.given /\ page_free' = m.free
  BY DEF Pmm
<1>2. Sorted(list') /\ page_free' \in Nat /\ Accounted(list', given', page_free')
  BY <1>1 DEF Sound
<1> QED
  BY <1>1, <1>2 DEF Sound, PagesInv

\* A step that takes pages and leaves the blocks of malloc's callers alone.
LEMMA TakePages ==
  ASSUME MemInv, Up, NEW m, Sound(m, live), Pmm(m), m.heap.brk = heap.brk, m.heap.pages = heap.pages,
         heap' = Tags(m.heap), UNCHANGED <<live, swallowed, aliased>>
  PROVE  MemInv'
<1>1. PagesInv'
  BY PmmNext
<1>2. PICK D : InUse(m.heap, D, live, list')
  BY PmmNext
<1>3. HeapInv' /\ heap'.brk = heap.brk /\ heap'.pages = heap.pages /\ heap'.ok = TRUE
  BY <1>2, HeapInvNext DEF InUse
<1>4. RoomInv'
  BY <1>3, UpFacts DEF RoomInv
<1> QED
  BY <1>1, <1>3, <1>4 DEF MemInv

\* pmm_allocpages, called from outside the heap.
LEMMA AllocPagesNext ==
  ASSUME MemInv, NEW num \in Nat \ {0}, AllocPages(num)
  PROVE  MemInv'
<1> DEFINE m == pmm_allocpages(State, num)
<1>1. Up /\ UNCHANGED <<live, swallowed, aliased>> /\ Pmm(m) /\ heap' = Tags(m.heap)
  BY DEF AllocPages
<1>2. num \in Nat
  OBVIOUS
<1> HIDE DEF m
<1>3. Sound(m, live) /\ m.heap.brk = heap.brk /\ m.heap.pages = heap.pages
  BY <1>1, <1>2, StateSound, PmmIs DEF m
<1> QED
  BY <1>1, <1>3, TakePages

\* _extend_heap maps enough pages, the word behind the last block included.
LEMMA MissingIs ==
  ASSUME NEW siz \in Nat, heap.brk \in Nat, heap.pages \in Nat
  PROVE  /\ Missing(heap, siz) \in Nat
         /\ 2 * (heap.brk + siz) + 4 <= 2 * PAGE * (heap.pages + Missing(heap, siz))
<1> DEFINE d == heap.brk + siz - PAGE * heap.pages
           q == 2 * PAGE
           x == 2 * d + 3 + q - 1
           num == Missing(heap, siz)
<1>1. d \in Int /\ PAGE \in Nat /\ PAGE > 0 /\ q \in Nat /\ q > 0 /\ x \in Int
  <2>1. PAGE \in Nat /\ PAGE > 0
    BY MemAssumption
  <2>2. PAGE * heap.pages \in Int
    BY <2>1
  <2> QED
    BY <2>1, <2>2
<1>2. num = IF 2 * d + 3 > 0 THEN x \div q ELSE 0
  BY DEF Missing
<1>3. num \in Nat /\ 2 * d + 4 <= 2 * (PAGE * num)
  <2>1. CASE 2 * d + 3 > 0
    <3>1. x \in Nat
      BY <1>1, <2>1
    <3>2. num = x \div q
      BY <1>2, <2>1
    <3> HIDE DEF num, d
    <3>3. x = q * (x \div q) + (x % q) /\ x \div q \in Nat /\ x % q \in 0..(q - 1)
      <4> HIDE DEF x, q
      <4> QED
        BY <1>1, <3>1
    <3>4. num \in Nat /\ x - q < q * num
      <4>1. q * num \in Int
        BY <1>1, <3>2, <3>3
      <4> HIDE DEF x, q
      <4> QED
        BY <1>1, <3>1, <3>2, <3>3, <4>1
    <3>5. q * num = 2 * (PAGE * num) /\ PAGE * num \in Int
      BY <1>1, <3>4
    <3>6. 2 * d + 2 < 2 * (PAGE * num)
      BY <1>1, <3>4, <3>5
    <3> QED
      BY <1>1, <3>4, <3>5, <3>6
  <2>2. CASE ~(2 * d + 3 > 0)
    <3>1. num = 0
      BY <1>2, <2>2
    <3> HIDE DEF num
    <3> QED
      BY <1>1, <2>2, <3>1
  <2> QED
    BY <2>1, <2>2
<1>4. 2 * PAGE * (heap.pages + num) = 2 * (PAGE * heap.pages) + 2 * (PAGE * num)
  <2> HIDE DEF num
  <2> QED
    BY <1>1, <1>3
<1>5. PAGE * heap.pages \in Int /\ PAGE * num \in Int
  BY <1>1, <1>3
<1> HIDE DEF num
<1>6. d = heap.brk + siz - PAGE * heap.pages
  OBVIOUS
<1> HIDE DEF d
<1>7. 2 * (heap.brk + siz) + 4 <= 2 * PAGE * (heap.pages + num)
  BY <1>1, <1>3, <1>4, <1>5, <1>6
<1> QED
  BY <1>3, <1>7 DEF num

\* Tags of blocks are all that placing a block and forgetting words can change.
Shape(P, H) == P = [hdr |-> P.hdr, ftr |-> P.ftr, brk |-> H.brk, pages |-> H.pages, ok |-> H.ok]

\* Put changes the two functions of tags only.
LEMMA PutKeeps ==
  ASSUME NEW H, Shape(H, H), NEW u, NEW siz, NEW a \in BOOLEAN
  PROVE  Shape(Put(H, u, siz, a), H) /\ Shape(Put(H, u, siz, a), Put(H, u, siz, a))
<1> DEFINE P == Put(H, u, siz, a)
           h == [H.hdr EXCEPT ![u] = Tag(siz, a)]
           G == [H EXCEPT !.hdr = h]
           f == [G.ftr EXCEPT ![u + siz - 1] = Tag(siz, a)]
<1>1. P = [G EXCEPT !.ftr = f]
  BY DEF Put
<1> HIDE DEF f, h
<1>2. G = [hdr |-> h, ftr |-> H.ftr, brk |-> H.brk, pages |-> H.pages, ok |-> H.ok]
  BY DEF Shape
<1> HIDE DEF G
<1>3. P = [hdr |-> h, ftr |-> f, brk |-> H.brk, pages |-> H.pages, ok |-> H.ok]
  BY <1>1, <1>2
<1> HIDE DEF P
<1>4. Shape(P, H) /\ Shape(P, P)
  BY <1>3 DEF Shape
<1> QED
  BY <1>4 DEF P

\* Heaps of the same shape agree on what is not a tag.
LEMMA ShapeFields ==
  ASSUME NEW H, NEW P, Shape(P, H)
  PROVE  P.brk = H.brk /\ P.pages = H.pages /\ P.ok = H.ok
BY DEF Shape

\* Whatever block malloc thinks it found, brk, the pages and the assertions stay as they are.
LEMMA PlaceKeeps ==
  ASSUME NEW H \in Heap, NEW b, NEW siz, NEW T, T = Tags(Place(H, b, siz))
  PROVE  T.brk = H.brk /\ T.pages = H.pages /\ T.ok = H.ok
<1> DEFINE P == Place(H, b, siz)
           Q == Put(H, b + siz, H.hdr[b].siz - siz, FALSE)
<1>1. Shape(H, H)
  BY DEF Heap, Shape
<1>2. Shape(Q, H) /\ Shape(Q, Q)
  <2>1. FALSE \in BOOLEAN
    OBVIOUS
  <2> QED
    BY <1>1, <2>1, PutKeeps, Zenon
<1>3. P = Put(H, b, siz, TRUE) \/ P = Put(Q, b, siz, TRUE)
  BY DEF Place
<1>4. Shape(P, P) /\ P.brk = H.brk /\ P.pages = H.pages /\ P.ok = H.ok
  <2> HIDE DEF P, Q
  <2>0. TRUE \in BOOLEAN
    OBVIOUS
  <2>1. CASE P = Put(H, b, siz, TRUE)
    <3>1. Shape(P, H) /\ Shape(P, P)
      BY <1>1, <2>0, <2>1, PutKeeps, Zenon
    <3> QED
      BY <3>1, ShapeFields
  <2>2. CASE P = Put(Q, b, siz, TRUE)
    <3>1. Shape(P, Q) /\ Shape(P, P)
      BY <1>2, <2>0, <2>2, PutKeeps, Zenon
    <3> QED
      BY <1>2, <3>1, ShapeFields
  <2> QED
    BY <1>3, <2>1, <2>2
<1>5. T = Tags(P)
  OBVIOUS
<1> HIDE DEF P
<1>6. \E h, f : T = [P EXCEPT !.hdr = h, !.ftr = f]
  BY <1>5 DEF Tags
<1>7. T.brk = P.brk /\ T.pages = P.pages /\ T.ok = P.ok
  BY <1>4, <1>6 DEF Shape
<1> QED
  BY <1>4, <1>7

\* The block malloc stands on is still one, and the new free block does not lie before it.
LEMMA CurrIs ==
  ASSUME NEW H1, NEW B1, Tiled(H1, B1), NEW siz \in Nat \ {0}, NEW num, NEW H2, NEW D,
         Extended(H1, B1, siz, num, H2, D), Tiled(heap, Blocks), H1.brk = heap.brk,
         Blocks # {} => Curr(heap) \in B1
  PROVE  Curr(heap) \in D /\ \E p \in D : Curr(heap) <= p /\ ~H2.hdr[p].aloc /\ H2.hdr[p].siz >= siz
<1> DEFINE u == Curr(heap)
<1>0. H1.brk \in Nat /\ \A b \in B1 : b \in 0..Cap /\ b < H1.brk /\ H1.hdr[b].siz > 0
  <2>1. H1.brk \in 0..Cap /\ \A b \in B1 : b \in 0..Cap /\ b < H1.brk /\ H1.hdr[b].siz > 0
    BY TiledFacts
  <2> QED
    BY <2>1, CapType
<1>1. PICK p \in D : /\ ~H2.hdr[p].aloc /\ H2.hdr[p].siz >= siz
                     /\ p = H1.brk \/ (p \in B1 /\ p + H1.hdr[p].siz = H1.brk)
  BY DEF Extended
<1>2. p \in Nat
  BY <1>0, <1>1
<1>3. CASE Blocks # {}
  <2>1. u \in B1
    BY <1>3
  <2> HIDE DEF u
  <2>2. u \in D /\ u \in Nat /\ u < H1.brk
    BY <1>0, <2>1 DEF Extended
  <2>3. ~(p < u)
    <3>1. \A b, c \in B1 : b < c => b + H1.hdr[b].siz <= c
      BY TiledFacts
    <3>2. ASSUME p < u
          PROVE  FALSE
      <4>1. p \in B1 /\ p + H1.hdr[p].siz = H1.brk
        BY <1>0, <1>1, <2>2, <3>2
      <4>2. H1.brk <= u
        BY <2>1, <3>1, <3>2, <4>1
      <4> QED
        BY <1>0, <2>2, <4>2
    <3> QED
      BY <3>2
  <2>4. u <= p
    BY <1>2, <2>2, <2>3
  <2> QED
    BY <1>1, <2>2, <2>4 DEF u
<1>4. CASE Blocks = {}
  <2>1. u = 0
    <3>1. u = Max({0})
      BY <1>4 DEF Curr, Blocks
    <3>2. Max({0}) = 0
      <4>1. {0} \in SUBSET Nat /\ 0 \in {0} /\ \A y \in {0} : y <= 0
        OBVIOUS
      <4> QED
        BY <4>1, MaxIs
    <3> QED
      BY <3>1, <3>2
  <2>2. heap.brk = 0
    BY <1>4 DEF Tiled, Cover
  <2>3. Tiled(H2, D) /\ H2.brk = siz
    BY <2>2 DEF Extended
  <2>4. 0 \in D
    BY <2>3 DEF Tiled, Cover
  <2> HIDE DEF u
  <2>5. u <= p
    BY <1>2, <2>1
  <2> QED
    BY <1>1, <2>1, <2>4, <2>5 DEF u
<1> QED
  BY <1>3, <1>4

\* malloc, when no free block is large enough: _extend_heap takes pages and a page table,
\* which may free nodes of the page list, and malloc goes on from the block it stood on.
LEMMA mallocExtendsNext ==
  ASSUME MemInv, NEW siz \in Nat \ {0}, mallocExtends(siz)
  PROVE  MemInv'
<1> DEFINE num == Missing(heap, siz)
           t == Tables(num)
           m1 == pmm_allocpages(State, num)
           m2 == pmm_allocpages(m1, t)
<1>1. Up /\ heap.brk + siz <= Cap /\ Pmm(m2)
  BY DEF mallocExtends
<1>2. /\ heap.brk \in Nat /\ heap.pages \in Nat /\ Tiled(heap, Blocks) /\ ~swallowed /\ ~aliased
  BY <1>1, UpFacts
<1>3. num \in Nat /\ 2 * (heap.brk + siz) + 4 <= 2 * PAGE * (heap.pages + num)
  BY <1>2, MissingIs
<1>4. t \in Nat
  BY DEF Tables
<1> DEFINE H1 == m2.heap
           H2 == Extend(H1, siz, num)
           b == Min(Fits(H2, Curr(heap), siz))
<1>5. \/ heap' = Tags(H1) /\ UNCHANGED <<live, swallowed, aliased>>
      \/ /\ swallowed' = (Walk(heap, 0) # {} /\ Curr(heap) \notin Walk(H1, 0))
         /\ IF H2.ok THEN heap' = Tags(Place(H2, b, siz)) /\ live' = live \cup {b}
                     ELSE heap' = H2 /\ UNCHANGED live
  BY DEF mallocExtends
<1> HIDE DEF num, t
<1>6. Sound(m1, live) /\ m1.heap.brk = heap.brk /\ m1.heap.pages = heap.pages
  <2> HIDE DEF m1
  <2> QED
    BY <1>1, <1>3, StateSound, PmmIs DEF m1
<1> HIDE DEF m1
<1>7. Sound(m2, live) /\ H1.brk = heap.brk /\ H1.pages = heap.pages
  <2> HIDE DEF m2
  <2> QED
    BY <1>4, <1>6, PmmIs DEF m2
<1> HIDE DEF m2
<1>8. CASE heap' = Tags(H1) /\ UNCHANGED <<live, swallowed, aliased>>
  BY <1>1, <1>7, <1>8, TakePages
<1>9. CASE /\ swallowed' = (Walk(heap, 0) # {} /\ Curr(heap) \notin Walk(H1, 0))
           /\ IF H2.ok THEN heap' = Tags(Place(H2, b, siz)) /\ live' = live \cup {b}
                       ELSE heap' = H2 /\ UNCHANGED live
  <2>3. PagesInv' /\ \E D : InUse(H1, D, live, list')
    BY <1>1, <1>7, PmmNext
  <2> HIDE DEF H1
  <2>5. PICK B1 : /\ Tiled(H1, B1) /\ NoTwoFree(H1, B1)
                  /\ Aloc(H1, B1) = live \cup NodesOf(list') /\ live \cap NodesOf(list') = {}
                  /\ H1.brk = heap.brk /\ H1.pages = heap.pages
    BY <1>7, <2>3 DEF InUse
  <2>7. H1.brk + siz <= Cap
    BY <1>1, <2>5
  <2>8. PICK D : Extended(H1, B1, siz, num, H2, D)
    BY <1>3, <2>5, <2>7, ExtendIs
  <2> HIDE DEF H2
  <2>9. /\ Tiled(H2, D) /\ NoTwoFree(H2, D) /\ Aloc(H2, D) = live \cup NodesOf(list')
        /\ H2.brk = heap.brk + siz /\ H2.pages = heap.pages + num /\ H2 \in Heap /\ H2.ok = TRUE
    <3>1. Tiled(H2, D) /\ NoTwoFree(H2, D) /\ Aloc(H2, D) = live \cup NodesOf(list')
      BY <2>5, <2>8 DEF Extended
    <3>2. H2.brk = heap.brk + siz /\ H2.pages = heap.pages + num
      BY <2>5, <2>8 DEF Extended
    <3> QED
      BY <3>1, <3>2, TiledFacts
  <2>10. heap' = Tags(Place(H2, b, siz)) /\ live' = live \cup {b}
    BY <1>9, <2>9
  <2>11. heap'.brk = heap.brk + siz /\ heap'.pages = heap.pages + num /\ heap'.ok = TRUE
    <3> HIDE DEF b
    <3>1. heap'.brk = H2.brk /\ heap'.pages = H2.pages /\ heap'.ok = H2.ok
      BY <2>9, <2>10, PlaceKeeps
    <3> QED
      BY <2>9, <3>1
  <2>12. PagesInv' /\ RoomInv'
    <3>2. heap'.brk \in Nat /\ heap'.pages \in Nat /\ 2 * heap'.brk + 4 <= 2 * PAGE * heap'.pages
      <4>1. heap.brk + siz \in Nat /\ heap.pages + num \in Nat
        BY <1>2, <1>3
      <4> QED
        BY <1>3, <2>11, <4>1
    <3> QED
      BY <2>3, <2>11, <3>2 DEF RoomInv
  <2>13. ASSUME ~swallowed'
         PROVE  HeapInv'
    <3>1. Blocks # {} => Curr(heap) \in B1
      <4>1. Walk(H1, 0) = B1
        BY <2>5, WalkAll
      <4> QED
        BY <1>9, <2>13, <4>1 DEF Blocks
    <3> DEFINE u == Curr(heap)
               F == Fits(H2, u, siz)
    <3>2. u \in D /\ \E p \in D : u <= p /\ ~H2.hdr[p].aloc /\ H2.hdr[p].siz >= siz
      BY <1>2, <2>5, <2>8, <3>1, CurrIs
    <3> HIDE DEF u
    <3>3. Walk(H2, u) = {c \in D : c >= u}
      BY <2>9, <3>2, WalkIs
    <3>4. \A c \in D : c \in Nat /\ H2.hdr[c].siz \in Nat
      <4>1. /\ \A c \in D : c \in 0..Cap
            /\ \A c \in 0..Cap : H2.hdr[c].siz \in Nat
        BY <2>9, TiledFacts
      <4> QED
        BY <4>1, CapType
    <3>5. F # {} /\ F \in SUBSET Nat
      <4>1. PICK p \in D : u <= p /\ ~H2.hdr[p].aloc /\ H2.hdr[p].siz >= siz
        BY <3>2
      <4>2. p >= u
        BY <3>2, <3>4, <4>1
      <4>3. p \in F
        BY <3>3, <4>1, <4>2 DEF Fits
      <4>4. F \subseteq D
        BY <3>3 DEF Fits
      <4> QED
        BY <3>4, <4>3, <4>4
    <3>6. b \in F
      <4>1. b = Min(F)
        BY DEF u
      <4> HIDE DEF F, b
      <4> QED
        BY <3>5, <4>1, MinIs
    <3> HIDE DEF b
    <3>7. b \in D /\ ~H2.hdr[b].aloc /\ siz <= H2.hdr[b].siz
      <4>1. b \in D /\ ~H2.hdr[b].aloc /\ H2.hdr[b].siz >= siz
        BY <3>3, <3>6 DEF Fits
      <4> QED
        BY <3>4, <4>1
    <3>8. PICK E : Placed(H2, D, b, Place(H2, b, siz), E)
      BY <2>9, <3>7, PlaceIs
    <3> DEFINE P == Place(H2, b, siz)
    <3>9. b \notin live /\ b \notin NodesOf(list')
      BY <2>9, <3>7 DEF Aloc
    <3>10. /\ Tiled(P, E) /\ NoTwoFree(P, E) /\ Aloc(P, E) = live' \cup NodesOf(list')
           /\ live' \cap NodesOf(list') = {} /\ heap' = Tags(P)
      BY <2>5, <2>9, <2>10, <3>8, <3>9 DEF Placed
    <3> HIDE DEF P
    <3> QED
      BY <3>10, HeapInvNext
  <2> QED
    BY <2>12, <2>13 DEF MemInv
<1> QED
  BY <1>5, <1>8, <1>9

-----------------------------------------------------------------------------
(* The heap that __pmm_tovmm leaves.                                         *)

\* Where the nodes lie.
LEMMA NodesAre ==
  ASSUME NEW n, n = Len(Ranges)
  PROVE  \E M : /\ \A i \in 0..n : M[i] \in Nat /\ M[i] <= M[n]
                /\ M[0] = 0 /\ M[n] = NODE * n
                /\ \A i \in 1..n : M[i] = M[i - 1] + NODE /\ M[i - 1] = NODE * (i - 1)
                /\ \A i, j \in 0..n : i < j => M[i] + NODE <= M[j]
                /\ \A x : x \in Nodes <=> \E i \in 1..n : x = M[i - 1]
<1> DEFINE M == [i \in 0..n |-> NODE * i]
<1>1. n \in Nat /\ NODE \in Nat /\ NODE > 0 /\ DOMAIN Ranges = 1..n
  BY MemAssumption
<1>2. \A i \in 0..n : M[i] = NODE * i
  OBVIOUS
<1>3. \A i \in Nat : NODE * i \in Nat
  BY <1>1
<1>4. \A i, j \in Nat : i < j => NODE * i + NODE <= NODE * j
  <2>1. ASSUME NEW i \in Nat, NEW j \in Nat, i < j
        PROVE  NODE * i + NODE <= NODE * j
    <3>1. j - (i + 1) \in Nat
      BY <2>1
    <3>2. NODE * (j - (i + 1)) \in Nat
      BY <1>3, <3>1
    <3>3. NODE * j = NODE * i + NODE + NODE * (j - (i + 1))
      BY <1>1
    <3>4. NODE * i \in Nat /\ NODE * j \in Nat
      BY <1>3
    <3> QED
      BY <1>1, <3>2, <3>3, <3>4
  <2> QED
    BY <2>1
<1>5. \A i \in 1..n : NODE * i = NODE * (i - 1) + NODE
  BY <1>1
<1>6. \A x : x \in Nodes <=> \E i \in 1..n : x = NODE * (i - 1)
  BY <1>1 DEF Nodes
<1>7. NODE * 0 = 0
  BY <1>1
<1>8. \A i \in 1..n : i \in 0..n /\ i - 1 \in 0..n
  BY <1>1
<1>9. 0 \in 0..n /\ n \in 0..n /\ \A i \in 0..n : i \in Nat
  BY <1>1
<1>10. M[0] = 0 /\ M[n] = NODE * n
  BY <1>2, <1>7, <1>9
<1>11. \A i, j \in 0..n : i < j => M[i] + NODE <= M[j]
  BY <1>2, <1>4, <1>9
<1> HIDE DEF M
<1>12. \A i \in 0..n : M[i] \in Nat
  BY <1>2, <1>3, <1>9
<1>13. \A i \in 0..n : M[i] <= M[n]
  <2>1. ASSUME NEW i \in 0..n
        PROVE  M[i] <= M[n]
    <3>1. CASE i = n
      BY <1>9, <1>12, <3>1
    <3>2. CASE i < n
      BY <1>1, <1>9, <1>11, <1>12, <3>2
    <3> QED
      BY <1>1, <1>9, <3>1, <3>2
  <2> QED
    BY <2>1
<1>14. \A i \in 1..n : M[i] = M[i - 1] + NODE /\ M[i - 1] = NODE * (i - 1)
  <2>1. ASSUME NEW i \in 1..n
        PROVE  M[i] = M[i - 1] + NODE /\ M[i - 1] = NODE * (i - 1)
    BY <1>2, <1>5, <1>8
  <2> QED
    BY <2>1
<1>15. \A x : x \in Nodes <=> \E i \in 1..n : x = M[i - 1]
  BY <1>6, <1>14
<1> QED
  BY <1>10, <1>11, <1>12, <1>13, <1>14, <1>15

\* They cover the heap.
LEMMA InitCover ==
  ASSUME NEW e, e = NODE * Len(Ranges), NEW s, \A u \in Nodes : s[u] = NODE
  PROVE  /\ Cover(s, Nodes, e) /\ e \notin Nodes /\ e <= PAGE - 2 /\ e \in Nat
         /\ \A u \in Nodes : u \in Nat /\ u + NODE <= Cap
<1> DEFINE n == Len(Ranges)
<1>1. n \in Nat /\ NODE \in Nat /\ NODE > 0 /\ PAGE \in Nat /\ NODE * n < PAGE - 1
  BY MemAssumption
<1>2. PICK M : /\ \A i \in 0..n : M[i] \in Nat /\ M[i] <= M[n]
               /\ M[0] = 0 /\ M[n] = NODE * n
               /\ \A i \in 1..n : M[i] = M[i - 1] + NODE /\ M[i - 1] = NODE * (i - 1)
               /\ \A i, j \in 0..n : i < j => M[i] + NODE <= M[j]
               /\ \A x : x \in Nodes <=> \E i \in 1..n : x = M[i - 1]
  BY NodesAre
<1>3. e = M[n] /\ e \in Nat /\ e <= PAGE - 2
  BY <1>1, <1>2
<1> HIDE DEF n
<1>4. PAGE <= Cap
  BY MemAssumption
<1>5. Cap \in Nat /\ e <= Cap
  BY <1>1, <1>3, <1>4, CapType
<1>6. ASSUME NEW u \in Nodes
      PROVE  u \in Nat /\ u < e /\ u + NODE \in Nodes \cup {e} /\ u + NODE <= e /\ (u = 0 \/ \E b \in Nodes : b + NODE = u)
  <2>1. PICK i \in 1..n : u = M[i - 1]
    BY <1>2
  <2>2. i - 1 \in 0..n /\ i \in 0..n /\ M[i] = u + NODE /\ M[i - 1] \in Nat /\ M[i] <= M[n]
    BY <1>1, <1>2, <2>1
  <2>3. u \in Nat /\ u < e /\ u + NODE <= e
    BY <1>1, <1>3, <2>1, <2>2
  <2>4. u + NODE \in Nodes \cup {e}
    <3>1. CASE i = n
      BY <1>3, <2>2, <3>1
    <3>2. CASE i # n
      <4>1. i + 1 \in 1..n /\ (i + 1) - 1 = i
        BY <1>1, <3>2
      <4>2. M[i] \in Nodes
        BY <1>2, <4>1
      <4> QED
        BY <2>2, <4>2
    <3> QED
      BY <3>1, <3>2
  <2>5. u = 0 \/ \E b \in Nodes : b + NODE = u
    <3>1. CASE i = 1
      BY <1>2, <2>1, <3>1
    <3>2. CASE i # 1
      <4>1. i - 1 \in 1..n
        BY <1>1, <3>2
      <4>2. M[(i - 1) - 1] \in Nodes /\ M[i - 1] = M[(i - 1) - 1] + NODE
        BY <1>2, <4>1
      <4> QED
        BY <2>1, <4>2
    <3> QED
      BY <3>1, <3>2
  <2> QED
    BY <2>3, <2>4, <2>5
<1>7. ASSUME NEW u \in Nodes, NEW v \in Nodes, u < v
      PROVE  u + NODE <= v
  <2>1. PICK i \in 1..n : u = M[i - 1]
    BY <1>2
  <2>2. PICK j \in 1..n : v = M[j - 1]
    BY <1>2
  <2>3. i - 1 \in 0..n /\ j - 1 \in 0..n /\ i - 1 \in Int /\ j - 1 \in Int
    BY <1>1
  <2>4. ~(j - 1 < i - 1) /\ i - 1 # j - 1
    <3>1. M[i - 1] \in Nat /\ M[j - 1] \in Nat
      BY <1>2, <2>3
    <3>2. ASSUME j - 1 < i - 1
          PROVE  FALSE
      <4>1. M[j - 1] + NODE <= M[i - 1]
        BY <1>2, <2>3, <3>2
      <4> QED
        BY <1>1, <1>7, <2>1, <2>2, <3>1, <4>1
    <3>3. ASSUME i - 1 = j - 1
          PROVE  FALSE
      BY <1>7, <2>1, <2>2, <3>1, <3>3
    <3> QED
      BY <3>2, <3>3
  <2>5. i - 1 < j - 1
    BY <2>3, <2>4
  <2> QED
    BY <1>2, <2>1, <2>2, <2>3, <2>5
<1>8. 0 \in Nodes \cup {e}
  <2>1. CASE n = 0
    BY <1>2, <1>3, <2>1
  <2>2. CASE n # 0
    <3>1. 1 \in 1..n /\ 1 - 1 = 0
      BY <1>1, <2>2
    <3> QED
      BY <1>2, <3>1
  <2> QED
    BY <2>1, <2>2
<1>9. e = 0 \/ \E b \in Nodes : b + NODE = e
  <2>1. CASE n = 0
    BY <1>2, <1>3, <2>1
  <2>2. CASE n # 0
    <3>1. n \in 1..n
      BY <1>1, <2>2
    <3>2. M[n - 1] \in Nodes /\ M[n] = M[n - 1] + NODE
      BY <1>2, <3>1
    <3> QED
      BY <1>3, <3>2
  <2> QED
    BY <2>1, <2>2
<1>10. e \notin Nodes /\ \A u \in Nodes : u \in Nat /\ u + NODE <= Cap /\ u \in 0..Cap
  BY <1>1, <1>3, <1>5, <1>6
<1>11. NODE \in Nat \ {0}
  BY <1>1
<1>12. Cover(s, Nodes, e)
  <2>1. Nodes \subseteq 0..Cap /\ e \in 0..Cap
    BY <1>3, <1>5, <1>10
  <2>2. \A b \in Nodes : b < e /\ s[b] \in Nat \ {0} /\ b + s[b] \in Nodes \cup {e}
    BY <1>6, <1>11
  <2>3. \A b, c \in Nodes : b < c => b + s[b] <= c
    BY <1>7
  <2>4. \A c \in Nodes \cup {e} : c = 0 \/ \E b \in Nodes : b + s[b] = c
    BY <1>6, <1>9
  <2> QED
    BY <1>8, <2>1, <2>2, <2>3, <2>4 DEF Cover
<1> QED
  BY <1>3, <1>10, <1>12

\* The heap starts as the nodes, all in use.
LEMMA InitHeap ==
  ASSUME Init
  PROVE  /\ Tiled(heap, Nodes) /\ NoTwoFree(heap, Nodes) /\ Aloc(heap, Nodes) = Nodes
         /\ heap.brk = NODE * Len(Ranges) /\ heap.pages = 1 /\ heap.ok = TRUE
<1> DEFINE e == NODE * Len(Ranges)
           w == Tag(NODE, TRUE)
           h == [u \in 0..Cap |-> IF u \in Nodes THEN w ELSE heap_init.hdr[u]]
           f == [u \in -1..Cap |-> IF u - NODE + 1 \in Nodes THEN w ELSE heap_init.ftr[u]]
<1>1. NODE \in Nat /\ NODE > 0 /\ Cap \in Nat
  BY CapType, MemAssumption
<1>2. /\ w \in Word /\ w.siz = NODE /\ w.aloc = TRUE
      /\ Tag(0, TRUE) \in Word /\ Tag(1, TRUE) \in Word
  BY <1>1, TagType
<1>3. heap = [heap_init EXCEPT !.hdr = h, !.ftr = f, !.brk = e]
  BY DEF Init
<1>4. \A u \in 0..Cap : heap_init.hdr[u] = Tag(0, TRUE)
  BY DEF heap_init
<1>5. \A u \in -1..Cap : heap_init.ftr[u] = Tag(1, TRUE)
  BY DEF heap_init
<1>6. /\ \A u \in 0..Cap : h[u] = IF u \in Nodes THEN w ELSE Tag(0, TRUE)
      /\ h \in [0..Cap -> Word]
  <2> HIDE DEF w
  <2> QED
    BY <1>2, <1>4
<1>7. /\ \A u \in -1..Cap : f[u] = IF u - NODE + 1 \in Nodes THEN w ELSE Tag(1, TRUE)
      /\ f \in [-1..Cap -> Word]
  <2> HIDE DEF w
  <2> QED
    BY <1>2, <1>5
<1> HIDE DEF w, h, f, e
<1>8. heap = [hdr |-> h, ftr |-> f, brk |-> e, pages |-> 1, ok |-> TRUE]
  BY <1>3 DEF heap_init
<1>9. heap.hdr = h /\ heap.ftr = f /\ heap.brk = e /\ heap.pages = 1 /\ heap.ok = TRUE
  BY <1>8
<1>10. /\ e \notin Nodes /\ e \in Nat /\ \A u \in Nodes : u \in Nat /\ u + NODE <= Cap
       /\ Cover(Size(heap), Nodes, e)
  <2>1. \A u \in Nodes : [v \in Nodes |-> NODE][u] = NODE
    OBVIOUS
  <2>2. \A u \in Nodes : u \in Nat /\ u + NODE <= Cap
    BY <2>1, InitCover DEF e
  <2>3. \A u \in Nodes : u \in 0..Cap
    BY <1>1, <2>2
  <2>4. \A u \in Nodes : Size(heap)[u] = NODE
    BY <1>2, <1>6, <1>9, <2>3 DEF Size
  <2> HIDE DEF Size
  <2> QED
    BY <2>4, InitCover DEF e
<1>11. e \in 0..Cap
  BY <1>10 DEF Cover
<1>12. heap \in Heap
  BY <1>6, <1>7, <1>8, <1>11 DEF Heap
<1>13. ASSUME NEW b \in Nodes
       PROVE  heap.hdr[b] = w /\ heap.ftr[b + heap.hdr[b].siz - 1] = w
  <2>1. b \in 0..Cap /\ b + NODE - 1 \in -1..Cap /\ (b + NODE - 1) - NODE + 1 = b
    BY <1>1, <1>10
  <2>2. heap.hdr[b] = w
    BY <1>6, <1>9, <2>1
  <2>3. f[b + NODE - 1] = w
    BY <1>7, <2>1
  <2> QED
    BY <1>2, <1>9, <2>2, <2>3
<1>14. heap.hdr[e] = Tag(0, TRUE) /\ heap.ftr[-1] = Tag(1, TRUE)
  <2>1. -1 \in -1..Cap /\ -1 - NODE + 1 \notin Nodes
    <3>1. ~(-1 - NODE + 1 \in Nat) /\ -1 \in -1..Cap
      BY <1>1
    <3> QED
      BY <1>10, <3>1
  <2> QED
    BY <1>6, <1>7, <1>9, <1>10, <1>11, <2>1
<1>15. Tiled(heap, Nodes)
  BY <1>9, <1>10, <1>12, <1>13, <1>14 DEF Tiled
<1>16. \A b \in Nodes : heap.hdr[b].aloc = TRUE
  BY <1>2, <1>13
<1> QED
  BY <1>9, <1>15, <1>16 DEF NoTwoFree, Aloc, e

\* The list starts as the ranges that were found.
LEMMA InitList ==
  ASSUME Init
  PROVE  Sorted(list) /\ Pages(list) = Pages(Ranges) /\ NodesOf(list) = Nodes
<1> DEFINE n == Len(Ranges)
<1>1. n \in Nat /\ DOMAIN Ranges = 1..n /\ NODE \in Nat /\ NODE > 0
  BY MemAssumption
<1>2. \A i \in 1..n : Ranges[i].addr \in Nat /\ Ranges[i].addr > 0 /\ Ranges[i].pages \in Nat \ {0}
  <2> DEFINE R == [addr : Nat \ {0}, pages : Nat \ {0}]
  <2>1. Ranges \in Seq(R)
    BY MemAssumption
  <2>2. \A r \in R : r.addr \in Nat /\ r.addr > 0 /\ r.pages \in Nat \ {0}
    OBVIOUS
  <2> HIDE DEF R
  <2>3. \A i \in 1..n : Ranges[i] \in R
    BY <2>1
  <2> QED
    BY <2>2, <2>3
<1>3. \A i, j \in 1..n : i < j => Ranges[i].addr + Ranges[i].pages <= Ranges[j].addr
  BY <1>1, MemAssumption
<1>4. list = [i \in 1..n |-> [addr |-> Ranges[i].addr, pages |-> Ranges[i].pages, node |-> NODE * (i - 1)]]
  BY <1>1 DEF Init
<1>5. \A i \in 1..n : list[i] = [addr |-> Ranges[i].addr, pages |-> Ranges[i].pages, node |-> NODE * (i - 1)]
  BY <1>4
<1>6. \A i \in 1..n : list[i].addr = Ranges[i].addr /\ list[i].pages = Ranges[i].pages /\ list[i].node = NODE * (i - 1)
  <2>1. ASSUME NEW i \in 1..n
        PROVE  list[i].addr = Ranges[i].addr /\ list[i].pages = Ranges[i].pages /\ list[i].node = NODE * (i - 1)
    <3> DEFINE m == NODE * (i - 1)
    <3>1. list[i] = [addr |-> Ranges[i].addr, pages |-> Ranges[i].pages, node |-> m]
      BY <1>5
    <3> HIDE DEF m
    <3>2. list[i].addr = Ranges[i].addr /\ list[i].pages = Ranges[i].pages /\ list[i].node = m
      BY <3>1
    <3> QED
      BY <3>2 DEF m
  <2> QED
    BY <2>1
<1>7. PICK M : /\ \A i \in 0..n : M[i] \in Nat /\ M[i] <= M[n]
               /\ M[0] = 0 /\ M[n] = NODE * n
               /\ \A i \in 1..n : M[i] = M[i - 1] + NODE /\ M[i - 1] = NODE * (i - 1)
               /\ \A i, j \in 0..n : i < j => M[i] + NODE <= M[j]
               /\ \A x : x \in Nodes <=> \E i \in 1..n : x = M[i - 1]
  BY NodesAre
<1> HIDE DEF n
<1>8. list \in Seq(Range0) /\ DOMAIN list = 1..n /\ Len(list) = n
  <2>1. \A i \in 1..n : list[i] \in Range0
    <3>1. \A i \in 1..n : NODE * (i - 1) \in Nat
      <4>1. \A i \in 1..n : i - 1 \in 0..n
        BY <1>1
      <4> QED
        BY <1>7, <4>1
    <3>2. ASSUME NEW i \in 1..n
          PROVE  list[i] \in Range0
      <4> DEFINE m == NODE * (i - 1)
      <4>1. list[i] = [addr |-> Ranges[i].addr, pages |-> Ranges[i].pages, node |-> m] /\ m \in Nat
        BY <1>5, <3>1
      <4> HIDE DEF m
      <4> QED
        BY <1>2, <4>1 DEF Range0
    <3> QED
      BY <3>2
  <2>2. DOMAIN list = 1..n /\ list = [i \in 1..n |-> list[i]]
    BY <1>4
  <2> HIDE DEF Range0
  <2>3. list \in [1..n -> Range0]
    BY <2>1, <2>2
  <2> QED
    BY <1>1, <2>3
<1>9. \A i, j \in 1..n : i # j => list[i].node # list[j].node
  <2>1. ASSUME NEW i \in 1..n, NEW j \in 1..n, i < j
        PROVE  list[i].node # list[j].node
    <3>1. i - 1 \in 0..n /\ j - 1 \in 0..n /\ i - 1 < j - 1
      BY <1>1, <2>1
    <3>2. M[i - 1] + NODE <= M[j - 1] /\ M[i - 1] \in Nat /\ M[j - 1] \in Nat
      BY <1>7, <3>1
    <3>3. M[i - 1] # M[j - 1]
      BY <1>1, <3>2
    <3> QED
      BY <1>6, <1>7, <3>3
  <2>2. \A i, j \in 1..n : i # j => i < j \/ j < i
    BY <1>1
  <2> QED
    BY <2>1, <2>2
<1>10. Sorted(list)
  <2>1. \A i, j \in DOMAIN list : i < j => list[i].addr + list[i].pages <= list[j].addr
    BY <1>3, <1>6, <1>8
  <2> QED
    BY <1>8, <1>9, <2>1 DEF Sorted
<1>11. NodesOf(list) = Nodes
  <2>1. \A x : x \in NodesOf(list) <=> \E i \in 1..n : x = list[i].node
    BY <1>8 DEF NodesOf
  <2>2. \A i \in 1..n : list[i].node = M[i - 1]
    BY <1>6, <1>7
  <2>3. \A x : x \in Nodes <=> \E i \in 1..n : x = M[i - 1]
    BY <1>7
  <2> QED
    BY <2>1, <2>2, <2>3
<1>12. \A p : p \in Pages(list) <=> p \in Int /\ \E i \in 1..n : InRange(p, list[i])
  BY <1>1, <1>2, <1>6, <1>8, InPages
<1>13. \A p : p \in Pages(Ranges) <=> p \in Int /\ \E i \in 1..n : InRange(p, Ranges[i])
  BY <1>1, <1>2, InPages
<1>14. \A p : \A i \in 1..n : InRange(p, list[i]) <=> InRange(p, Ranges[i])
  BY <1>6 DEF InRange
<1>15. Pages(list) = Pages(Ranges)
  BY <1>12, <1>13, <1>14
<1> QED
  BY <1>10, <1>11, <1>15

\* The first state has the invariant.
LEMMA InitMemInv == Init => MemInv
<1> SUFFICES ASSUME Init PROVE MemInv
  OBVIOUS
<1>1. /\ Tiled(heap, Nodes) /\ NoTwoFree(heap, Nodes) /\ Aloc(heap, Nodes) = Nodes
      /\ heap.brk = NODE * Len(Ranges) /\ heap.pages = 1 /\ heap.ok = TRUE
  BY InitHeap
<1>2. Sorted(list) /\ Pages(list) = Pages(Ranges) /\ NodesOf(list) = Nodes
  BY InitList
<1>3. live = {} /\ given = {} /\ page_free = Cardinality(Pages(Ranges))
  BY DEF Init
<1>4. Accounted(list, given, page_free)
  <2>1. \A i \in DOMAIN list : list[i].pages > 0
    BY <1>2, SortedFacts
  <2>2. \A i, j \in DOMAIN list : i < j => list[i].addr + list[i].pages <= list[j].addr
    BY <1>2 DEF Sorted
  <2> QED
    BY <1>2, <1>3, <2>1, <2>2 DEF Accounted
<1>5. PagesInv
  BY <1>1, <1>2, <1>3, <1>4, CapType DEF PagesInv
<1>6. RoomInv
  <2> DEFINE e == NODE * Len(Ranges)
  <2>1. \A u \in Nodes : [v \in Nodes |-> NODE][u] = NODE
    OBVIOUS
  <2>2. e <= PAGE - 2 /\ e \in Nat
    BY <2>1, InitCover
  <2>3. PAGE \in Nat /\ 2 * PAGE * 1 = 2 * PAGE
    BY MemAssumption
  <2>4. heap.brk = e
    BY <1>1
  <2> HIDE DEF e
  <2>5. 2 * e + 4 <= 2 * PAGE
    BY <2>2, <2>3
  <2> QED
    BY <1>1, <2>2, <2>3, <2>4, <2>5 DEF RoomInv
<1>7. HeapInv
  <2>1. Blocks = Nodes
    BY <1>1, WalkAll DEF Blocks
  <2>2. Owned = NodesOf(list)
    BY <1>3 DEF Owned, NodesOf
  <2> QED
    BY <1>1, <1>2, <1>3, <2>1, <2>2 DEF HeapInv
<1> QED
  BY <1>5, <1>6, <1>7 DEF MemInv

-----------------------------------------------------------------------------
(* The theorems.                                                             *)

\* Every step keeps it.
LEMMA NextMemInv == MemInv /\ [Next]_vars => MemInv'
<1> SUFFICES ASSUME MemInv, [Next]_vars PROVE MemInv'
  OBVIOUS
<1>1. ASSUME NEW siz \in Sizes, malloc(siz)
      PROVE  MemInv'
  <2>1. siz \in Nat \ {0}
    BY MemAssumption
  <2> QED
    BY <1>1, <2>1, mallocNext
<1>2. ASSUME NEW siz \in Sizes, mallocExtends(siz)
      PROVE  MemInv'
  <2>1. siz \in Nat \ {0}
    BY MemAssumption
  <2> QED
    BY <1>2, <2>1, mallocExtendsNext
<1>3. ASSUME NEW b \in live, Free(b)
      PROVE  MemInv'
  BY <1>3, FreeNext
<1>4. ASSUME NEW num \in Nums, AllocPages(num)
      PROVE  MemInv'
  <2>1. num \in Nat \ {0}
    BY MemAssumption
  <2> QED
    BY <1>4, <2>1, AllocPagesNext
<1>5. CASE UNCHANGED vars
  BY <1>5, UnchangedNext DEF vars
<1> QED
  BY <1>1, <1>2, <1>3, <1>4, <1>5 DEF Next

\* The invariant behind HeapTiled and PagesAccounted: malloc, _extend_heap, free and
\* pmm_allocpages, which call one another, keep it until pages from page 0 on that
\* _extend_heap put under the heap for a NULL have another use.
THEOREM MemInvHolds == Spec => []MemInv
<1>1. Init => MemInv
  BY InitMemInv
<1>2. MemInv /\ [Next]_vars => MemInv'
  BY NextMemInv
<1> QED
  BY <1>1, <1>2, PTL DEF Spec

\* Boundary tags (malloc, free, _merge, _extend_heap): with any ranges, page size and
\* requests, as long as no page has two uses, no assertion of free or _merge fails and
\* the word that ends the heap lies in a mapped page; and, as long as no free inside
\* malloc has merged the block malloc stands on, the heap is a sequence of blocks with
\* agreeing tags, no two free ones side by side, and the blocks in use are those given
\* out and the nodes of the page list.  A call of pmm_allocpages with an empty list ends
\* what is said.
THEOREM HeapTiledHolds == Spec => []HeapTiled
<1>1. MemInv => HeapTiled
  <2> SUFFICES ASSUME MemInv, ~aliased PROVE HeapTiled
    BY DEF HeapTiled
  <2>1. heap.ok /\ 2 * heap.brk + 4 <= 2 * PAGE * heap.pages
    BY DEF MemInv, RoomInv
  <2>2. ASSUME ~swallowed
        PROVE  /\ \A b \in Blocks : heap.hdr[b].siz > 0 /\ heap.hdr[b] = heap.ftr[b + heap.hdr[b].siz - 1]
                                    /\ b + heap.hdr[b].siz \in Blocks \cup {heap.brk}
               /\ \A b \in Blocks : ~heap.hdr[b].aloc => heap.hdr[b + heap.hdr[b].siz].aloc
               /\ {b \in Blocks : heap.hdr[b].aloc} = Owned
    <3>1. Tiled(heap, Blocks) /\ NoTwoFree(heap, Blocks) /\ Aloc(heap, Blocks) = Owned
      BY <2>2 DEF MemInv, HeapInv
    <3>2. \A b \in Blocks : heap.hdr[b].siz > 0 /\ b + heap.hdr[b].siz \in Blocks \cup {heap.brk}
      BY <3>1, TiledFacts
    <3>3. \A b \in Blocks : heap.ftr[b + heap.hdr[b].siz - 1] = heap.hdr[b]
      BY <3>1 DEF Tiled
    <3> QED
      BY <3>1, <3>2, <3>3 DEF NoTwoFree, Aloc
  <2> QED
    BY <2>1, <2>2 DEF HeapTiled
<1> QED
  BY <1>1, MemInvHolds, PTL

\* pmm_allocpages, also when malloc calls it and it frees a node: as long as no page
\* has two uses, a page is in one range of the list or has been given out, never both,
\* the ranges are in order, and page_free counts the pages of the list.
THEOREM PagesAccountedHolds == Spec => []PagesAccounted
<1>1. MemInv => PagesAccounted
  BY DEF MemInv, PagesInv, Accounted, PagesAccounted
<1> QED
  BY <1>1, MemInvHolds, PTL

================================================================================
