-------------------------------- MODULE Heap --------------------------------
(***************************************************************************)
(* The kernel heap of kernel/malloc.c: a doubly linked list of chunks,     *)
(* each with its header in front, in a region that grows page by page.     *)
(*                                                                         *)
(* Headers are 16 bytes, sizes are rounded up to 16 bytes and the region   *)
(* is page aligned, so addresses and sizes are counted in units of 16      *)
(* bytes, from HEAP_START: a header is one unit.  NULL is -1.              *)
(***************************************************************************)
EXTENDS Integers

CONSTANTS
  PAGE,         \* units in a page (256)
  HEAP_PAGES,   \* pages from KERNEL_HEAP_START to KERNEL_HEAP_END (1024)
  SIZE_MOD,     \* size_t is 32 bits: 2^32
  Sizes,        \* the arguments of kmalloc, in bytes
  FRAMES        \* frames that are free when heap_init runs

(* A slip: half of the alignment is added, (size + 7) & ~15.               *)
UnitsNearest(n) == ((n + 7) % SIZE_MOD) \div 16

(* The rounding of kmalloc: (size + 15) & ~15, in 32 bits, in units.       *)
Units(n) == ((n + 15) % SIZE_MOD) \div 16

(* num_pages of expand_heap.                                               *)
PagesFor(u) == (u + 1 + PAGE - 1) \div PAGE

(* The last conjunct keeps out the arguments whose rounded size is within  *)
(* a page of 2^32, for which the computation of num_pages wraps around as  *)
(* well.  Those within 15 bytes of 2^32, which are rounded to 0, stay in.  *)
(* With a single free frame heap_init gets the frame of its page and none  *)
(* for the page table: vmm_map_page returns with nothing mapped, storing   *)
(* the first header is a page fault, and the kernel never gets to run.     *)
ASSUME HeapAssumption ==
  /\ PAGE \in Nat \ {0, 1, 2}
  /\ HEAP_PAGES \in Nat \ {0}
  /\ SIZE_MOD \in Nat \ {0}
  /\ FRAMES \in Nat \ {1}
  /\ Sizes \subseteq 1 .. SIZE_MOD - 1
  /\ \A n \in Sizes : 16 * (Units(n) + PAGE) < SIZE_MOD

VARIABLES
  hdr,              \* the chunk headers, by address
  free_list_start,
  heap_end,         \* heap_end_vaddr
  mem,              \* the free frames and the heap's page table
  held,             \* frames the rest of the kernel has taken since
  owned             \* history: the blocks handed out, with the bytes asked for

vars == <<hdr, free_list_start, heap_end, mem, held, owned>>

NULL   == -1
Addr   == 0 .. HEAP_PAGES * PAGE
Header == [size: Nat, is_free: BOOLEAN, next: Addr \cup {NULL}, prev: Addr \cup {NULL}]

(* The region is the 4 MiB of one page directory entry: its pages are in   *)
(* one page table, `table`, which vmm_map_page allocates when the first of *)
(* them is mapped and which every later page directory shares.             *)
Frames    == 1..FRAMES
NONE      == 0
HeapPages == 0 .. HEAP_PAGES - 1
Memory    == [pool: SUBSET Frames,                       \* free frames
              table: Frames \cup {NONE},
              map: [HeapPages -> Frames \cup {NONE}]]

Chunks == DOMAIN hdr

TypeOK ==
  /\ Chunks \subseteq Addr
  /\ hdr \in [Chunks -> Header]
  /\ free_list_start \in Addr \cup {NULL}
  /\ heap_end \in Addr
  /\ mem \in Memory
  /\ held \subseteq Frames
  /\ DOMAIN owned \subseteq Addr
  /\ owned \in [DOMAIN owned -> Sizes]

-----------------------------------------------------------------------------
(* pmm_alloc_frame takes the first free frame.                             *)
Lowest(F) == CHOOSE f \in F : \A g \in F : f <= g

(* vmm_map_kernel_page: a page table that is missing is allocated first;   *)
(* without a frame for it nothing is mapped and the caller is not told.    *)
MapKernelPage(m, p, f) ==
  IF m.table # NONE THEN [m EXCEPT !.map[p] = f]
  ELSE IF m.pool = {} THEN m
  ELSE [pool  |-> m.pool \ {Lowest(m.pool)},
        table |-> Lowest(m.pool),
        map   |-> [m.map EXCEPT ![p] = f]]

(* The loop of expand_heap: the memory, the page at heap_end_vaddr, the    *)
(* allocated_frames, and whether it went to rollback, at the end of the    *)
(* region or of the free frames.                                           *)
Begin(m, b) == [m |-> m, page |-> b, got |-> {}, failed |-> FALSE]

Round(s) ==
  IF s.failed \/ s.page = HEAP_PAGES \/ s.m.pool = {} THEN [s EXCEPT !.failed = TRUE]
  ELSE LET f == Lowest(s.m.pool)
       IN  [m      |-> MapKernelPage([s.m EXCEPT !.pool = @ \ {f}], s.page, f),
            page   |-> s.page + 1,
            got    |-> s.got \cup {f},
            failed |-> FALSE]

Rounds(m, b, n) ==
  LET run[i \in 0..n] == IF i = 0 THEN Begin(m, b) ELSE Round(run[i-1])
  IN  run[n]

(* A slip: the rollback unmaps the pages and does not free their frames.   *)
RollbackKeepsFrames(s, b) ==
  [s.m EXCEPT !.map = [p \in HeapPages |-> IF p \in b .. s.page - 1 THEN NONE ELSE @[p]]]

(* Its rollback: the pages from b on that were mapped are unmapped and     *)
(* their frames freed.                                                     *)
Rollback(s, b) ==
  [s.m EXCEPT !.map = [p \in HeapPages |-> IF p \in b .. s.page - 1 THEN NONE ELSE @[p]],
              !.pool = @ \cup s.got]

(* expand_heap by n pages, from page b on.                                 *)
ExpandHeap(m, b, n) ==
  LET s == Rounds(m, b, n)
  IN  [ok |-> ~s.failed, mem |-> IF s.failed THEN Rollback(s, b) ELSE s.m]

NewChunk(n, p) == [size |-> n * PAGE - 1, is_free |-> TRUE, next |-> NULL, prev |-> p]

(* heap_init: expand_heap(0), before anything else has mapped the region.  *)
Init ==
  LET x == ExpandHeap([pool |-> Frames, table |-> NONE, map |-> [p \in HeapPages |-> NONE]],
                      0, PagesFor(0))
  IN  /\ hdr = [a \in {c \in {0} : x.ok} |-> NewChunk(PagesFor(0), NULL)]
      /\ free_list_start = IF x.ok THEN 0 ELSE NULL
      /\ heap_end = IF x.ok THEN PagesFor(0) * PAGE ELSE 0
      /\ mem = x.mem
      /\ held = {}
      /\ owned = [a \in {} |-> 0]

(* Slips: the split does not count the header of the rest; a chunk used    *)
(* whole is not marked.                                                    *)
PlaceNoRoom(h, c, u) ==
  LET s == c + 1 + u
  IN  [a \in DOMAIN h \cup {s} |->
         IF a = s THEN [size |-> h[c].size - u - 1, is_free |-> TRUE,
                        next |-> h[c].next, prev |-> c]
         ELSE IF a = c THEN [h[c] EXCEPT !.size = u, !.is_free = FALSE, !.next = s]
         ELSE IF a = h[c].next THEN [h[a] EXCEPT !.prev = s]
         ELSE h[a]]

PlaceUnmarked(h, c, u) == IF h[c].size >= u + 2 THEN PlaceNoRoom(h, c, u) ELSE h

(* The free chunk c of h is given out for u units.  What is left over      *)
(* becomes a chunk of its own if a header and one unit fit in it.          *)
Place(h, c, u) ==
  IF h[c].size >= u + 2
  THEN LET s == c + 1 + u
       IN  [a \in DOMAIN h \cup {s} |->
              IF a = s THEN [size |-> h[c].size - u - 1, is_free |-> TRUE,
                             next |-> h[c].next, prev |-> c]
              ELSE IF a = c THEN [h[c] EXCEPT !.size = u, !.is_free = FALSE, !.next = s]
              ELSE IF a = h[c].next THEN [h[a] EXCEPT !.prev = s]
              ELSE h[a]]
  ELSE [h EXCEPT ![c].is_free = FALSE]

(* A slip: the search takes a chunk that is in use.                        *)
FitsAny(h, c, u) == h[c].size >= u

Fits(h, c, u) == h[c].is_free /\ h[c].size >= u

(* The search follows the list from free_list_start.  The list is in       *)
(* address order (ListInOrder), so it stops at the lowest chunk that fits. *)
FirstFit(h, c, u) ==
  /\ c \in DOMAIN h /\ Fits(h, c, u)
  /\ \A d \in DOMAIN h : Fits(h, d, u) => c <= d

Own(c, n) == owned' = [a \in DOMAIN owned \cup {c} |-> IF a = c THEN n ELSE owned[a]]

(* kmalloc, when a chunk fits.                                             *)
KmallocFit(n) ==
  /\ \E c \in Chunks : /\ FirstFit(hdr, c, Units(n))
                       /\ hdr' = Place(hdr, c, Units(n))
                       /\ Own(c, n)
  /\ UNCHANGED <<free_list_start, heap_end, mem, held>>

(* The list with a chunk of k pages linked in behind its last one.         *)
Extended(k) ==
  [a \in Chunks \cup {heap_end} |->
     IF a = heap_end
     THEN NewChunk(k, IF Chunks = {} THEN NULL ELSE CHOOSE c \in Chunks : hdr[c].next = NULL)
     ELSE IF hdr[a].next = NULL THEN [hdr[a] EXCEPT !.next = heap_end]
     ELSE hdr[a]]

Expansion(k) == ExpandHeap(mem, heap_end \div PAGE, k)

(* kmalloc, when no chunk fits: expand_heap, link, and search again.  If   *)
(* the size was rounded to 0, that second kmalloc(0) returns NULL.         *)
KmallocExpand(n) ==
  LET k == PagesFor(Units(n))
      x == Expansion(k)
  IN  /\ \A c \in Chunks : ~Fits(hdr, c, Units(n))
      /\ x.ok
      /\ mem' = x.mem
      /\ heap_end' = heap_end + k * PAGE
      /\ free_list_start' = IF free_list_start = NULL THEN heap_end ELSE free_list_start
      /\ \/ /\ Units(n) = 0
            /\ hdr' = Extended(k)
            /\ UNCHANGED owned
         \/ \E c \in Chunks \cup {heap_end} :
              /\ Units(n) # 0
              /\ FirstFit(Extended(k), c, Units(n))
              /\ hdr' = Place(Extended(k), c, Units(n))
              /\ Own(c, n)
      /\ UNCHANGED held

(* kmalloc, when no chunk fits and expand_heap returns NULL.               *)
KmallocFail(n) ==
  LET x == Expansion(PagesFor(Units(n)))
  IN  /\ \A c \in Chunks : ~Fits(hdr, c, Units(n))
      /\ ~x.ok
      /\ mem' = x.mem
      /\ UNCHANGED <<hdr, free_list_start, heap_end, held, owned>>

(* A slip: the chunk behind the merged ones still points back into them.   *)
MergeNoBackLink(h, c) ==
  LET x == h[c].next
  IN  [a \in DOMAIN h \ {x} |->
         IF a = c THEN [h[c] EXCEPT !.size = @ + 1 + h[x].size, !.next = h[x].next]
         ELSE h[a]]

(* The two coalescing steps of kfree: the chunk after c in the list is     *)
(* merged into c.                                                          *)
Merge(h, c) ==
  LET x == h[c].next
  IN  [a \in DOMAIN h \ {x} |->
         IF a = c THEN [h[c] EXCEPT !.size = @ + 1 + h[x].size, !.next = h[x].next]
         ELSE IF a = h[x].next THEN [h[a] EXCEPT !.prev = c]
         ELSE h[a]]

Freed(c) == [hdr EXCEPT ![c].is_free = TRUE]

(* A slip: no coalescing with the next chunk.                              *)
FreedNextNoMerge(c) == Freed(c)

FreedNext(c) ==
  LET x == hdr[c].next
  IN  IF x # NULL /\ hdr[x].is_free THEN Merge(Freed(c), c) ELSE Freed(c)

Kfree(c) ==
  /\ c \in DOMAIN owned
  /\ LET p == hdr[c].prev
     IN  hdr' = IF p # NULL /\ hdr[p].is_free THEN Merge(FreedNext(c), p) ELSE FreedNext(c)
  /\ owned' = [a \in DOMAIN owned \ {c} |-> owned[a]]
  /\ UNCHANGED <<free_list_start, heap_end, mem, held>>

(* The rest of the kernel takes frames and gives them back.                *)
FrameTaken ==
  /\ mem.pool # {}
  /\ mem' = [mem EXCEPT !.pool = @ \ {Lowest(@)}]
  /\ held' = held \cup {Lowest(mem.pool)}
  /\ UNCHANGED <<hdr, free_list_start, heap_end, owned>>

FrameGiven(f) ==
  /\ f \in held
  /\ mem' = [mem EXCEPT !.pool = @ \cup {f}]
  /\ held' = held \ {f}
  /\ UNCHANGED <<hdr, free_list_start, heap_end, owned>>

Next ==
  \/ \E n \in Sizes : KmallocFit(n)
  \/ \E n \in Sizes : KmallocExpand(n)
  \/ \E n \in Sizes : KmallocFail(n)
  \/ \E c \in Addr : Kfree(c)
  \/ FrameTaken
  \/ \E f \in Frames : FrameGiven(f)

Spec == Init /\ [][Next]_vars

-----------------------------------------------------------------------------
End(c) == c + 1 + hdr[c].size

(* The list visits the chunks in address order and they tile the mapped    *)
(* region: each next link is the address where the chunk ends, each prev   *)
(* link its inverse, and the last chunk ends at heap_end_vaddr.            *)
ListInOrder ==
  /\ Chunks = {} => heap_end = 0 /\ free_list_start = NULL
  /\ Chunks # {} => 0 \in Chunks /\ free_list_start = 0
  /\ \A c \in Chunks :
       /\ \/ hdr[c].next = NULL /\ End(c) = heap_end
          \/ hdr[c].next = End(c) /\ End(c) \in Chunks
       /\ \/ hdr[c].prev = NULL /\ c = 0
          \/ hdr[c].prev \in Chunks /\ hdr[hdr[c].prev].next = c

(* Coalescing is complete: no two neighbours in the list are both free.    *)
NoFreeNeighbours ==
  \A c \in Chunks : hdr[c].is_free /\ hdr[c].next # NULL => ~hdr[hdr[c].next].is_free

(* The blocks handed out are exactly the chunks in use, and no chunk       *)
(* reaches into another or beyond the mapped pages.                        *)
BlocksInUse ==
  /\ DOMAIN owned = {c \in Chunks : ~hdr[c].is_free}
  /\ \A c \in Chunks : End(c) <= heap_end
  /\ \A c, d \in Chunks : c < d => End(c) <= d

(* A block holds the bytes asked for, unless rounding them up wraps around *)
(* 2^32, through every split, merge and expansion.                         *)
BlocksLargeEnough ==
  \A c \in DOMAIN owned : owned[c] + 15 < SIZE_MOD => owned[c] <= 16 * hdr[c].size

(* The frames behind the pages below heap_end_vaddr.                       *)
Backing == {mem.map[p] : p \in 0 .. (heap_end \div PAGE) - 1}

(* Every frame that was free at boot is in exactly one place: it is free,  *)
(* held by the rest of the kernel, the heap's page table, or behind one    *)
(* page of the heap; and the pages that are mapped are those below         *)
(* heap_end_vaddr.  An expansion that runs out of frames or of the region  *)
(* half way must undo what it did, and the page table stays.               *)
FramesConserved ==
  /\ heap_end % PAGE = 0
  /\ \A p \in HeapPages : mem.map[p] # NONE <=> p < heap_end \div PAGE
  /\ \A p, q \in HeapPages : mem.map[p] = mem.map[q] /\ mem.map[p] # NONE => p = q
  /\ mem.pool \cup held \cup Backing \cup {mem.table} = Frames \cup {mem.table}
  /\ mem.pool \cap held = {}
  /\ Backing \cap (mem.pool \cup held) = {}
  /\ mem.table \notin mem.pool \cup held \cup Backing
  /\ mem.table = NONE => Frames = {}

(* The heap implements the abstract allocator: a block begins behind its   *)
(* header and has the units asked for.                                     *)
Blocks == [a \in {c + 1 : c \in DOMAIN owned} |-> Units(owned[a - 1])]
A == INSTANCE Allocator WITH blocks <- Blocks
Implements == A!ASpec
=============================================================================
