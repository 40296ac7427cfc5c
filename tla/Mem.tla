---------------------------------- MODULE Mem ----------------------------------
(***************************************************************************)
(* The kernel heap (mm/heap.c) on top of the list of free pages (mm/pmm.c),  *)
(* as they are after __pmm_tovmm: the nodes of the page list are themselves *)
(* blocks of the heap, so malloc, which may need pages, and pmm_allocpages,  *)
(* which may free a node, call each other.                                  *)
(*                                                                         *)
(* Lengths are in units of 8 bytes, the alignment of the heap.  Unit 0 is    *)
(* _heap.root; a unit has room for one header word and one footer word.      *)
(* Words that are not tags belong to owners, who write what they like; a     *)
(* step forgets them when it ends.                                           *)
(*                                                                         *)
(* A behaviour is followed until malloc takes such a word for a tag           *)
(* (swallowed), until pmm_allocpages looks for a range in an empty list and   *)
(* reads a node at address 0 (nomem), and until two pages of the heap, or a   *)
(* page of the heap and one of the list, are the same memory (aliased).      *)
(***************************************************************************)
EXTENDS Integers, Sequences, FiniteSets, FiniteSetsExt, SequencesExt

CONSTANTS
    Ranges,  \* the free ranges of __pmm_pre: first page and number of pages
    PAGE,    \* units per page
    NODE,    \* units of the block of a free_t
    TABLE,   \* pages that one page table maps
    Sizes,   \* units asked of malloc, tags included
    Nums,    \* pages the other callers ask of pmm_allocpages
    Cap      \* bound on the units of the heap

\* the pages of a list of ranges
Pages(l) == UNION {l[i].addr .. l[i].addr + l[i].pages - 1 : i \in DOMAIN l}

ASSUME MemAssumption ==
    /\ Ranges \in Seq([addr : Nat \ {0}, pages : Nat \ {0}])
    /\ \A i, j \in DOMAIN Ranges : i < j => Ranges[i].addr + Ranges[i].pages <= Ranges[j].addr
    /\ PAGE \in Nat \ {0} /\ NODE \in Nat \ {0, 1} /\ NODE * Len(Ranges) < PAGE - 1
    /\ TABLE \in Nat \ {0} /\ Cap \in Nat /\ PAGE <= Cap
    /\ Sizes \subseteq Nat \ {0, 1} /\ Nums \subseteq Nat \ {0}
    /\ \A siz \in Sizes : siz <= PAGE * (TABLE - 1)

VARIABLES
    heap,      \* words, brk, mapped pages, and whether an ASSERTK has failed
    list,      \* the free_t list: first page, length, block of the node
    live,      \* blocks that malloc gave out and nobody has freed
    given,     \* pages that left the list for the heap and for other callers
    page_free,
    low,       \* pages from page 0 on that _extend_heap put under the heap
    swallowed, \* a free inside malloc merged the block malloc stands on
    nomem,     \* pmm_allocpages was called with an empty list
    aliased    \* what _extend_heap put under the heap has another use

vars == <<heap, list, live, given, page_free, low, swallowed, nomem, aliased>>

Tag(siz, aloc) == [siz |-> siz, aloc |-> aloc]

\* PUT of header and footer of a block
Put(H, u, siz, aloc) == [H EXCEPT !.hdr[u] = Tag(siz, aloc), !.ftr[u + siz - 1] = Tag(siz, aloc)]

heap_init == [hdr |-> [u \in 0..Cap |-> Tag(0, TRUE)], ftr |-> [u \in -1..Cap |-> Tag(1, TRUE)],
              brk |-> 0, pages |-> 1, ok |-> TRUE]

\* the blocks __pmm_tovmm allocates, one for each range
Nodes == {NODE * (i - 1) : i \in DOMAIN Ranges}

Init ==
    /\ heap = [heap_init EXCEPT
                 !.hdr = [u \in 0..Cap |-> IF u \in Nodes THEN Tag(NODE, TRUE) ELSE heap_init.hdr[u]],
                 !.ftr = [u \in -1..Cap |-> IF u - NODE + 1 \in Nodes THEN Tag(NODE, TRUE) ELSE heap_init.ftr[u]],
                 !.brk = NODE * Len(Ranges)]
    /\ list = [i \in DOMAIN Ranges |-> [addr |-> Ranges[i].addr, pages |-> Ranges[i].pages, node |-> NODE * (i - 1)]]
    /\ live = {} /\ given = {} /\ page_free = Cardinality(Pages(Ranges))
    /\ low = {} /\ swallowed = FALSE /\ nomem = FALSE /\ aliased = FALSE

\* the blocks malloc meets from u on, in order; it stops before brk
Walk(H, u) ==
    LET step[b \in 0..Cap] ==
            IF b >= H.brk THEN {}
            ELSE {b} \cup IF H.hdr[b].siz \in 1..(Cap - b) THEN step[b + H.hdr[b].siz] ELSE {}
    IN  step[u]

\* only the tags of the blocks are kept
Tags(H) == LET B == Walk(H, 0) IN
    [H EXCEPT !.hdr = [u \in 0..Cap |-> IF u \in B THEN H.hdr[u] ELSE Tag(0, TRUE)],
              !.ftr = [u \in -1..Cap |-> IF \E b \in B : u = b + H.hdr[b].siz - 1 THEN H.ftr[u] ELSE Tag(1, TRUE)]]

Up == heap.ok /\ ~nomem /\ ~swallowed /\ ~aliased

-----------------------------------------------------------------------------
(* free                                                                      *)

MergeNext(H, u) ==
    LET n == u + H.hdr[u].siz
        s == H.hdr[n].siz IN
    IF H.hdr[n].aloc \/ s = 0 THEN H
    ELSE IF H.hdr[n] # H.ftr[n + s - 1] THEN [H EXCEPT !.ok = FALSE]
    ELSE Put(H, u, H.hdr[u].siz + s, FALSE)

\* Bug: only a predecessor of the same size is joined
MergePrevSame(H, u) ==
    LET p == u - H.ftr[u - 1].siz IN
    IF ~H.ok \/ H.ftr[u - 1].aloc \/ H.ftr[u - 1].siz # H.hdr[u].siz THEN H
    ELSE Put(H, p, H.hdr[p].siz + H.hdr[u].siz, FALSE)

MergePrev(H, u) ==
    LET p == u - H.ftr[u - 1].siz IN
    IF ~H.ok \/ H.ftr[u - 1].aloc \/ p = u THEN H
    ELSE IF H.hdr[p] # H.ftr[u - 1] THEN [H EXCEPT !.ok = FALSE]
    ELSE Put(H, p, H.hdr[p].siz + H.hdr[u].siz, FALSE)

\* Put in MergeNext writes the header of u and the footer of what followed it
_merge(H, u) == MergePrev(MergeNext(H, u), u)

free(H, u) ==
    LET s == H.hdr[u].siz IN
    IF H.hdr[u] # H.ftr[u + s - 1] THEN H
    ELSE IF ~H.hdr[u].aloc THEN [H EXCEPT !.ok = FALSE]
    ELSE _merge(Put(H, u, s, FALSE), u)

-----------------------------------------------------------------------------
(* pmm_allocpages: the first range that is long enough; NULL if there is none. *)

FirstRange(l, num) == Min({i \in DOMAIN l : l[i].pages >= num} \cup {Len(l) + 1})

\* Bug: the range keeps its first page
ListAfterKeepsAddr(l, i, num) ==
    IF l[i].pages = num THEN RemoveAt(l, i) ELSE [l EXCEPT ![i].pages = @ - num]

\* alloc_post reuses the node of a range that shrinks, delete0_post frees the
\* node of a range that is used up
ListAfter(l, i, num) ==
    IF l[i].pages = num THEN RemoveAt(l, i)
    ELSE [l EXCEPT ![i].addr = @ + num, ![i].pages = @ - num]

HeapAfter(H, l, i, num) == IF l[i].pages = num THEN free(H, l[i].node) ELSE H

\* what a call reads and writes
State == [heap |-> heap, list |-> list, given |-> given, free |-> page_free]

pmm_allocpages(m, num) ==
    LET i == FirstRange(m.list, num) IN
    IF num = 0 \/ i > Len(m.list) THEN m
    ELSE [heap |-> HeapAfter(m.heap, m.list, i, num), list |-> ListAfter(m.list, i, num),
          given |-> m.given \cup (m.list[i].addr .. m.list[i].addr + num - 1), free |-> m.free - num]

Pmm(m) == list' = m.list /\ given' = m.given /\ page_free' = m.free

\* the callers outside the heap: other page tables, vmm, drivers; one that gets NULL
\* changes nothing here
AllocPages(num) ==
    LET m == pmm_allocpages(State, num) IN
    /\ Up /\ Pmm(m) /\ heap' = Tags(m.heap) /\ nomem' = (list = <<>>)
    /\ UNCHANGED <<live, low, swallowed, aliased>>

-----------------------------------------------------------------------------
(* malloc                                                                    *)

Fits(H, u, siz) == {b \in Walk(H, u) : ~H.hdr[b].aloc /\ H.hdr[b].siz >= siz}

Place(H, b, siz) ==
    IF H.hdr[b].siz = siz THEN Put(H, b, siz, TRUE)
    ELSE Put(Put(H, b + siz, H.hdr[b].siz - siz, FALSE), b, siz, TRUE)

\* pages _extend_heap has to map for siz more units: brk is 12 bytes, a unit and
\* a half, further than 8 * brk
Missing(H, siz) ==
    LET d == H.brk + siz - PAGE * H.pages IN
    IF 2 * d + 3 > 0 THEN (2 * d + 3 + 2 * PAGE - 1) \div (2 * PAGE) ELSE 0

\* the rest of _extend_heap, with sbrk: a free block at the old brk
Extend(H, siz, num) ==
    LET new == Put([H EXCEPT !.brk = @ + siz, !.pages = @ + num], H.brk, siz, FALSE) IN
    _merge([new EXCEPT !.hdr[new.brk] = Tag(0, TRUE)], H.brk)

\* the block malloc stands on when it asks for more
Curr(H) == Max(Walk(H, 0) \cup {0})

malloc(siz) ==
    /\ Up /\ Fits(heap, 0, siz) # {}
    /\ LET b == Min(Fits(heap, 0, siz)) IN
       heap' = Tags(Place(heap, b, siz)) /\ live' = live \cup {b}
    /\ UNCHANGED <<list, given, page_free, low, swallowed, nomem, aliased>>

\* vmap_map takes a page for a table when it comes to the first page that table maps;
\* no request is so long that it needs two
Tables(num) == IF \E k \in heap.pages .. heap.pages + num - 1 : k % TABLE = 0 THEN 1 ELSE 0

\* _extend_heap does not look at what pmm_allocpages returned: NULL makes the pages from
\* page 0 on part of the heap.  malloc then goes on with the block it stands on.
mallocExtends(siz) ==
    LET num == Missing(heap, siz)
        m1 == pmm_allocpages(State, num)
        m2 == pmm_allocpages(m1, Tables(num))
        H == Extend(m2.heap, siz, num)
        b == Min(Fits(H, Curr(heap), siz))
        null == IF num > 0 /\ FirstRange(list, num) > Len(list) THEN 0 .. num - 1 ELSE {} IN
    /\ Up /\ Fits(heap, 0, siz) = {} /\ heap.brk + siz <= Cap
    /\ Pmm(m2)
    /\ nomem' = ((num > 0 /\ list = <<>>) \/ (Tables(num) > 0 /\ m1.list = <<>>))
    /\ \/ /\ nomem' /\ heap' = Tags(m2.heap)
          /\ UNCHANGED <<live, low, swallowed, aliased>>
       \/ /\ ~nomem' /\ low' = low \cup null /\ aliased' = (null \cap (low \cup Pages(Ranges)) # {})
          /\ swallowed' = (Walk(heap, 0) # {} /\ Curr(heap) \notin Walk(m2.heap, 0))
          /\ IF H.ok THEN heap' = Tags(Place(H, b, siz)) /\ live' = live \cup {b}
                     ELSE heap' = H /\ UNCHANGED live

Free(b) ==
    /\ Up /\ b \in live
    /\ heap' = Tags(free(heap, b)) /\ live' = live \ {b}
    /\ UNCHANGED <<list, given, page_free, low, swallowed, nomem, aliased>>

Next ==
    \/ \E siz \in Sizes : malloc(siz) \/ mallocExtends(siz)
    \/ \E b \in live : Free(b)
    \/ \E num \in Nums : AllocPages(num)

Spec == Init /\ [][Next]_vars

-----------------------------------------------------------------------------

Owned == live \cup {list[i].node : i \in DOMAIN list}
Blocks == Walk(heap, 0)

\* Boundary tags (malloc, free, _merge, _extend_heap): from root to brk the heap is
\* a sequence of blocks whose two tags agree, no two free ones side by side, and the
\* blocks in use are those that were given out and not freed, the nodes of the page
\* list included.  The word that ends it lies in a mapped page, and the assertions of
\* free and _merge hold.  This goes on when pmm_allocpages returns NULL, as long as
\* page 0 and the pages after it have no other use; a page list that frees a node next
\* to the last block while malloc stands there spoils the tags.
HeapTiled == ~aliased =>
    /\ heap.ok /\ 2 * heap.brk + 4 <= 2 * PAGE * heap.pages
    /\ ~swallowed =>
        /\ \A b \in Blocks : heap.hdr[b].siz > 0 /\ heap.hdr[b] = heap.ftr[b + heap.hdr[b].siz - 1]
                             /\ b + heap.hdr[b].siz \in Blocks \cup {heap.brk}
        /\ \A b \in Blocks : ~heap.hdr[b].aloc =>
               heap.hdr[b + heap.hdr[b].siz].aloc
        /\ {b \in Blocks : heap.hdr[b].aloc} = Owned

\* pmm_allocpages (and the reentrant calls of malloc): a page is in one range of the
\* list or has been given out, never both, ranges are in order, and page_free counts
\* the pages of the list.  It says nothing once pages of the heap have another use: the
\* nodes of the list may lie there.
PagesAccounted == ~aliased =>
    /\ \A i \in DOMAIN list : list[i].pages > 0
    /\ \A i, j \in DOMAIN list : i < j => list[i].addr + list[i].pages <= list[j].addr
    /\ Pages(list) \cap given = {} /\ Cardinality(Pages(list)) = page_free
    /\ Pages(list) \cup given = Pages(Ranges)

================================================================================
