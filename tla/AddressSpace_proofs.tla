------------------------ MODULE AddressSpace_proofs ------------------------
(***************************************************************************)
(* The frames of a task stay its own: proofs about AddressSpace, for every *)
(* number of tasks, frames and pages.                                      *)
(*                                                                         *)
(* None of the properties is inductive.  Fork copies the parent's          *)
(* directory entries, so parent and child map their pages in the same      *)
(* tables, and what one task unmaps another one had mapped.  The invariant *)
(* therefore speaks of three sets that a handler carries from call to      *)
(* call: the directories D, the frames O that are owned, and the claims C, *)
(* which say which page of which directory a task believes to hold which   *)
(* frame.  A claim may be void, another task having mapped over it, but    *)
(* every page that is mapped is some task's claim.  Each operation of the  *)
(* memory manager has a lemma on how it changes D, O and C, each handler a *)
(* lemma that chains them.                                                 *)
(***************************************************************************)
EXTENDS AddressSpace, BoundedInduction

(* What holds on every path, also after errors: the directories are owned, *)
(* what is owned is in use, page tables are in use and owned by nobody,    *)
(* and every directory links the kernel's low table.                       *)
Sound(m, D, O) ==
  /\ m \in Memory
  /\ KERNEL_PDT \in D /\ D \subseteq O /\ O \subseteq m.used
  /\ \A d \in D, e \in DirEntries : m.dir[d][e] # NONE => m.dir[d][e] \in m.used \ O
  /\ \A d \in D : m.dir[d]["low"] = PT_LOW

(* Nothing else is in use.                                                 *)
Exact(m, D, O) ==
  \A f \in m.used : f \in O \/ \E d \in D, e \in DirEntries : m.dir[d][e] = f

(* What page p of table pt holds is claimed, through some directory that   *)
(* links the table.                                                        *)
Backs(m, D, C, pt, p) ==
  \E b \in D, x \in UserEntries : m.dir[b][x] = pt /\ <<b, x, p, m.table[pt][p]>> \in C

Backed(m, D, C) ==
  \A d \in D, e \in UserEntries, p \in Pages :
    LET pt == m.dir[d][e]
    IN  pt # NONE /\ m.table[pt][p] # NONE => Backs(m, D, C, pt, p)

(* `clean`: no call has reported an error.                                 *)
Fits(m, D, O, C, clean) ==
  Sound(m, D, O) /\ (clean => Exact(m, D, O) /\ Backed(m, D, C))

(* The claims of a task: its frames, each at the page it was mapped at.    *)
(* The code claims every frame at each of its pages, for the segments of   *)
(* an ELF file need not be in order, nor in pages of their own.            *)
PageClaims(d, e, first, s) == {<<d, e, first + i - 1, s[i]>> : i \in DOMAIN s}
CodeClaims(d, s) == {<<d, "code", i - 1, f>> : i \in DOMAIN s, f \in Range(s)}

Claims(r) ==
  CodeClaims(r.pd, r.code) \cup PageClaims(r.pd, "heap", 0, r.heap)
  \cup (IF r.stack = NONE THEN {} ELSE {<<r.pd, "stack", 0, r.stack>>})
  \cup (IF r.type = "USER" THEN {<<r.pd, "code", 0, r.paddr>>} ELSE {})

(* Where an image lay that was loaded elsewhere, any frame may be.         *)
StrayClaims(S) == {<<s[1], s[2], s[3], f>> : s \in S, f \in Frames}

(* Owners, owned frames and claims of a task table.                        *)
OwnersOf(T) == {t \in Tasks : T[t].state # "UNUSED"}
Own(r) == Range(Private(r))
AllOwned(T) == {KERNEL_PDT} \cup UNION {Own(T[t]) : t \in OwnersOf(T)}
AllClaims(T, S) == StrayClaims(S) \cup UNION {Claims(T[t]) : t \in OwnersOf(T)}

Exclusive(T) ==
  \A t \in OwnersOf(T) :
    /\ IsInjective(Private(T[t])) /\ KERNEL_PDT \notin Own(T[t])
    /\ \A u \in OwnersOf(T) \ {t} : Own(T[t]) \cap Own(T[u]) = {}

(* The inductive invariant.  The last conjunct keeps sys_wait from giving  *)
(* back a kernel stack that was never taken.                               *)
MemoryInv ==
  mem.ok =>
    /\ Exclusive(task)
    /\ Fits(mem, Directories(task), AllOwned(task), AllClaims(task, stray), ~failed)
    /\ OwnersOf(task) # {} => stacks < TASK_MAX

Inv == TypeOK /\ MemoryInv

-----------------------------------------------------------------------------
(* The frames paging_init takes, and the entries of a directory.           *)
LEMMA Basics ==
  /\ TOTAL_FRAMES \in Nat /\ MAX_USER_CODE_PAGES \in Nat /\ MAX_USER_HEAP_PAGES \in Nat
  /\ TASK_MAX \in Nat \ {0}
  /\ Frames \subseteq Nat \ {0} /\ NONE = 0 /\ NONE \notin Frames
  /\ KERNEL_PDT \in Frames /\ PT_LOW \in Frames /\ KERNEL_PDT # PT_LOW
  /\ UserEntries \subseteq DirEntries /\ "low" \in UserEntries /\ "temp" \in DirEntries
  /\ "temp" # "low" /\ "temp" \notin UserEntries
  /\ {"code", "heap", "stack"} \subseteq UserEntries
  /\ Pages \subseteq Nat /\ 0 \in Pages
BY AddressSpaceAssumption DEF Frames, NONE, KERNEL_PDT, PT_LOW, UserEntries, DirEntries, Pages

(* pmm_alloc_frame finds a free frame whenever there is one.               *)
LEMMA LowestIsFree ==
  ASSUME NEW m \in Memory
  PROVE  /\ Lowest(m) = NONE => m.used = Frames
         /\ Lowest(m) # NONE => Lowest(m) \in Frames /\ Lowest(m) \notin m.used
<1>1. m.used \subseteq Frames
  BY DEF Memory
<1>2. CASE m.used = Frames
  BY <1>2 DEF Lowest
<1>3. CASE m.used # Frames
  <2> DEFINE S == Frames \ m.used
  <2>1. S \in SUBSET Nat /\ S # {}
    BY <1>1, <1>3, Basics
  <2>2. \E f \in S : \A g \in S : f <= g
    <3> HIDE DEF S
    <3> QED BY <2>1, LeastMember
  <2>3. Lowest(m) = CHOOSE f \in S : \A g \in S : f <= g
    BY <1>3 DEF Lowest
  <2>4. Lowest(m) \in S
    <3> HIDE DEF S
    <3> QED BY <2>2, <2>3
  <2> QED BY <2>4, Basics
<1> QED BY <1>2, <1>3

(* What it changes.                                                        *)
LEMMA AllocFrameFields ==
  ASSUME NEW m \in Memory
  PROVE  /\ AllocFrame(m) \in Memory
         /\ AllocFrame(m).used = (m.used \cup {Lowest(m)}) \ {NONE}
         /\ AllocFrame(m).dir = m.dir
         /\ AllocFrame(m).table = m.table
         /\ AllocFrame(m).ok = m.ok
<1>1. (m.used \cup {Lowest(m)}) \ {NONE} \in SUBSET Frames
  <2>1. m.used \subseteq Frames
    BY DEF Memory
  <2> QED BY <2>1, LowestIsFree
<1> HIDE DEF Lowest
<1> QED BY <1>1 DEF Memory, AllocFrame

(* A frame that is not got was not to be had before either.                *)
LEMMA StillNone ==
  ASSUME NEW m \in Memory, Lowest(m) = NONE
  PROVE  Lowest(AllocFrame(m)) = NONE
<1>1. m.used = Frames
  BY LowestIsFree
<1>2. AllocFrame(m).used = Frames
  BY <1>1, AllocFrameFields, Basics
<1> QED BY <1>2 DEF Lowest

(* Freeing.                                                                *)
LEMMA FreeFramesFields ==
  ASSUME NEW m \in Memory, NEW F
  PROVE  /\ FreeFrames(m, F) \in Memory
         /\ FreeFrames(m, F).used = m.used \ F
         /\ FreeFrames(m, F).dir = m.dir
         /\ FreeFrames(m, F).table = m.table
         /\ FreeFrames(m, F).ok = m.ok
BY DEF Memory, FreeFrames

(* Mapping a page: into the table that is there, or nowhere, or into a new *)
(* table with no other page.                                               *)
LEMMA MapPageFields ==
  ASSUME NEW m \in Memory, NEW d \in Frames, NEW e \in DirEntries, NEW p, NEW f \in Frames,
         NEW n, n = MapPage(m, d, e, p, f)
  PROVE  /\ n \in Memory /\ n.ok = m.ok
         /\ \/ /\ m.dir[d][e] # NONE /\ n.used = m.used /\ n.dir = m.dir
               /\ \A t \in Frames, q \in Pages :
                    n.table[t][q] = IF t = m.dir[d][e] /\ q = p THEN f ELSE m.table[t][q]
            \/ m.dir[d][e] = NONE /\ Lowest(m) = NONE /\ n = m
            \/ /\ m.dir[d][e] = NONE /\ Lowest(m) \in Frames /\ Lowest(m) \notin m.used
               /\ n.used = m.used \cup {Lowest(m)}
               /\ \A b \in Frames, x \in DirEntries :
                    n.dir[b][x] = IF b = d /\ x = e THEN Lowest(m) ELSE m.dir[b][x]
               /\ \A t \in Frames, q \in Pages :
                    n.table[t][q] = IF t # Lowest(m) THEN m.table[t][q]
                                    ELSE IF q = p THEN f ELSE NONE
<1> DEFINE pt == m.dir[d][e]
           new == Lowest(m)
<1>1. pt \in Frames \cup {NONE}
  BY DEF Memory, Directory
<1>2. CASE pt # NONE
  <2>1. pt \in Frames
    BY <1>1, <1>2
  <2> DEFINE row == [m.table[pt] EXCEPT ![p] = f]
  <2>2. n = [m EXCEPT !.table[pt] = row]
    BY <1>2 DEF MapPage
  <2>3. row \in Table /\ \A q \in Pages : row[q] = IF q = p THEN f ELSE m.table[pt][q]
    BY <2>1 DEF Memory, Table
  <2> HIDE DEF pt, row
  <2>4. n \in Memory /\ n.ok = m.ok /\ n.used = m.used /\ n.dir = m.dir
    BY <2>1, <2>2, <2>3 DEF Memory
  <2>5. ASSUME NEW t \in Frames, NEW q \in Pages
        PROVE  n.table[t][q] = IF t = pt /\ q = p THEN f ELSE m.table[t][q]
    BY <2>1, <2>2, <2>3 DEF Memory
  <2> QED BY <1>2, <2>4, <2>5 DEF pt
<1>3. CASE pt = NONE /\ new = NONE
  <2>1. n = m
    BY <1>3 DEF MapPage
  <2> QED BY <1>3, <2>1
<1>4. CASE pt = NONE /\ new # NONE
  <2>1. new \in Frames /\ new \notin m.used
    BY <1>4, LowestIsFree
  <2> DEFINE a == AllocFrame(m)
             one == [NoPages EXCEPT ![p] = f]
             row == [a.dir[d] EXCEPT ![e] = new]
  <2>2. n = [a EXCEPT !.dir[d] = row, !.table[new] = one]
    BY <1>4 DEF MapPage
  <2>3. a \in Memory /\ a.used = m.used \cup {new} /\ a.dir = m.dir /\ a.table = m.table /\ a.ok = m.ok
    BY <2>1, AllocFrameFields, Basics, Zenon DEF Memory
  <2>4. one \in Table /\ \A q \in Pages : one[q] = IF q = p THEN f ELSE NONE
    BY DEF NoPages, Table
  <2>5. row \in Directory /\ \A x \in DirEntries : row[x] = IF x = e THEN new ELSE m.dir[d][x]
    <3> HIDE DEF a, new
    <3> QED BY <2>1, <2>3 DEF Memory, Directory
  <2> DEFINE dirs == [a.dir EXCEPT ![d] = row]
             tables == [a.table EXCEPT ![new] = one]
  <2> HIDE DEF a, new, one, pt, row
  <2>6. n = [a EXCEPT !.dir = dirs, !.table = tables]
    BY <2>2
  <2>7. dirs \in [Frames -> Directory] /\ tables \in [Frames -> Table]
    BY <2>1, <2>3, <2>4, <2>5 DEF Memory
  <2>8. n \in Memory /\ n.ok = m.ok /\ n.used = m.used \cup {new} /\ n.dir = dirs /\ n.table = tables
    <3> HIDE DEF dirs, tables
    <3> QED BY <2>3, <2>6, <2>7 DEF Memory
  <2>9. ASSUME NEW t \in Frames, NEW q \in Pages
        PROVE  n.table[t][q] = IF t # new THEN m.table[t][q] ELSE IF q = p THEN f ELSE NONE
    BY <2>1, <2>3, <2>4, <2>8 DEF Memory
  <2>10. ASSUME NEW b \in Frames, NEW x \in DirEntries
        PROVE  n.dir[b][x] = IF b = d /\ x = e THEN new ELSE m.dir[b][x]
    BY <2>1, <2>3, <2>5, <2>8 DEF Memory
  <2> QED BY <1>4, <2>1, <2>8, <2>9, <2>10 DEF new, pt
<1> QED BY <1>2, <1>3, <1>4

(* Unmapping pages: in the table that is there, or the kernel halts.       *)
LEMMA UnmapPagesFields ==
  ASSUME NEW m \in Memory, NEW d \in Frames, NEW e \in DirEntries, NEW P,
         NEW n, n = UnmapPages(m, d, e, P)
  PROVE  /\ n \in Memory /\ n.used = m.used /\ n.dir = m.dir
         /\ n.ok => m.ok /\ (P = {} \/ m.dir[d][e] # NONE)
         /\ \A t \in Frames, q \in Pages :
              n.table[t][q] = IF t = m.dir[d][e] /\ q \in P THEN NONE ELSE m.table[t][q]
<1> DEFINE pt == m.dir[d][e]
<1>1. pt \in Frames \cup {NONE}
  BY DEF Memory, Directory
<1>2. CASE P = {}
  BY <1>2 DEF UnmapPages
<1>3. CASE P # {} /\ pt = NONE
  <2>1. n = [m EXCEPT !.ok = FALSE]
    BY <1>3 DEF UnmapPages
  <2> QED BY <2>1, <1>3, Basics DEF Memory
<1>4. CASE P # {} /\ pt # NONE
  <2>1. pt \in Frames
    BY <1>1, <1>4
  <2> DEFINE less == [q \in Pages |-> IF q \in P THEN NONE ELSE m.table[pt][q]]
  <2>2. n = [m EXCEPT !.table[pt] = less]
    BY <1>4, <2>1 DEF UnmapPages, Memory
  <2>3. less \in Table /\ \A q \in Pages : less[q] = IF q \in P THEN NONE ELSE m.table[pt][q]
    BY <2>1 DEF Memory, Table
  <2> HIDE DEF less, pt
  <2>4. n \in Memory /\ n.used = m.used /\ n.dir = m.dir /\ n.ok = m.ok
    BY <2>1, <2>2, <2>3 DEF Memory
  <2>5. ASSUME NEW t \in Frames, NEW q \in Pages
        PROVE  n.table[t][q] = IF t = pt /\ q \in P THEN NONE ELSE m.table[t][q]
    BY <2>1, <2>2, <2>3 DEF Memory
  <2> QED BY <1>4, <2>4, <2>5 DEF pt
<1> QED BY <1>2, <1>3, <1>4

(* vmm_clone_kernel_mappings.                                              *)
LEMMA CloneFields ==
  ASSUME NEW m \in Memory, NEW c \in Frames, Lowest(m) # NONE,
         NEW n, n = CloneKernelMappings(m, c)
  PROVE  /\ n \in Memory /\ n.ok = m.ok /\ n.used = m.used \cup {Lowest(m)}
         /\ n.table = m.table
         /\ \A b \in Frames : n.dir[b] = IF b = Lowest(m) THEN m.dir[c] ELSE m.dir[b]
<1> DEFINE a == AllocFrame(m)
           new == Lowest(m)
           row == m.dir[c]
<1>1. new \in Frames
  BY LowestIsFree
<1>2. a \in Memory /\ a.used = m.used \cup {new} /\ a.dir = m.dir /\ a.table = m.table /\ a.ok = m.ok
  BY AllocFrameFields, Basics, Zenon DEF Memory
<1>3. n = [a EXCEPT !.dir[new] = row]
  BY DEF CloneKernelMappings
<1>4. row \in Directory
  BY DEF Memory
<1> HIDE DEF a, new, row
<1>5. /\ n \in Memory /\ n.ok = m.ok /\ n.used = m.used \cup {new} /\ n.table = m.table
      /\ \A b \in Frames : n.dir[b] = IF b = new THEN row ELSE m.dir[b]
  BY <1>1, <1>2, <1>3, <1>4 DEF Memory
<1> QED BY <1>5 DEF new, row

(* Writing a frame through the temporary mapping leaves no page behind: it *)
(* clears page 0 of the table that is there, or of a new, empty one.       *)
TempWritten(m, d, n) ==
  /\ n \in Memory
  /\ \/ /\ n.used = m.used /\ n.dir = m.dir
        /\ \A t \in Frames, q \in Pages :
             n.table[t][q] = IF t = m.dir[d]["temp"] /\ q = 0 THEN NONE ELSE m.table[t][q]
     \/ /\ m.dir[d]["temp"] = NONE /\ Lowest(m) \in Frames /\ Lowest(m) \notin m.used
        /\ n.used = m.used \cup {Lowest(m)}
        /\ \A b \in Frames, x \in DirEntries :
             n.dir[b][x] = IF b = d /\ x = "temp" THEN Lowest(m) ELSE m.dir[b][x]
        /\ \A t \in Frames, q \in Pages :
             n.table[t][q] = IF t # Lowest(m) THEN m.table[t][q] ELSE NONE

(* That is what WriteThroughTemp does.                                     *)
LEMMA WriteThroughTempFields ==
  ASSUME NEW m \in Memory, NEW d \in Frames, NEW f \in Frames
  PROVE  TempWritten(m, d, WriteThroughTemp(m, d, f))
<1> DEFINE k == MapPage(m, d, "temp", 0, f)
           n == WriteThroughTemp(m, d, f)
<1>1. "temp" \in DirEntries
  BY Basics
<1>2. /\ k \in Memory /\ k.ok = m.ok
      /\ \/ /\ m.dir[d]["temp"] # NONE /\ k.used = m.used /\ k.dir = m.dir
            /\ \A t \in Frames, q \in Pages :
                 k.table[t][q] = IF t = m.dir[d]["temp"] /\ q = 0 THEN f ELSE m.table[t][q]
         \/ m.dir[d]["temp"] = NONE /\ Lowest(m) = NONE /\ k = m
         \/ /\ m.dir[d]["temp"] = NONE /\ Lowest(m) \in Frames /\ Lowest(m) \notin m.used
            /\ k.used = m.used \cup {Lowest(m)}
            /\ \A b \in Frames, x \in DirEntries :
                 k.dir[b][x] = IF b = d /\ x = "temp" THEN Lowest(m) ELSE m.dir[b][x]
            /\ \A t \in Frames, q \in Pages :
                 k.table[t][q] = IF t # Lowest(m) THEN m.table[t][q]
                                 ELSE IF q = 0 THEN f ELSE NONE
  <2> HIDE DEF MapPage
  <2> QED BY <1>1, MapPageFields
<1>3. n = UnmapPages(k, d, "temp", {0})
  BY DEF WriteThroughTemp
<1> HIDE DEF k, n
<1>4. /\ n \in Memory /\ n.used = k.used /\ n.dir = k.dir
      /\ n.ok => k.ok
      /\ \A t \in Frames, q \in Pages :
           n.table[t][q] = IF t = k.dir[d]["temp"] /\ q \in {0} THEN NONE ELSE k.table[t][q]
  BY <1>1, <1>2, <1>3, UnmapPagesFields
<1> SUFFICES TempWritten(m, d, n)
  BY DEF n
<1>5. CASE m.dir[d]["temp"] # NONE
  BY <1>2, <1>4, <1>5 DEF TempWritten
<1>6. CASE m.dir[d]["temp"] = NONE /\ Lowest(m) = NONE
  BY <1>2, <1>4, <1>6, Basics DEF TempWritten
<1>7. CASE m.dir[d]["temp"] = NONE /\ Lowest(m) # NONE
  <2>1. k.dir[d]["temp"] = Lowest(m)
    BY <1>1, <1>2, <1>7
  <2> QED BY <1>2, <1>4, <1>7, <2>1 DEF TempWritten
<1> QED BY <1>5, <1>6, <1>7

-----------------------------------------------------------------------------
(* What each operation makes of the invariant on memory.  D are the        *)
(* directories in use, O the frames that are owned, C the claims.          *)

(* What is enough for a smaller set of directories and of owners.          *)
LEMMA SoundForLess ==
  ASSUME NEW m, NEW D, NEW O, Sound(m, D, O),
         NEW E, NEW Q, KERNEL_PDT \in E, E \subseteq D, E \subseteq Q, Q \subseteq O
  PROVE  Sound(m, E, Q)
BY DEF Sound

(* More may be claimed.                                                    *)
LEMMA FitsMore ==
  ASSUME NEW m, NEW D, NEW O, NEW C, NEW clean, Fits(m, D, O, C, clean), NEW B, C \subseteq B
  PROVE  Fits(m, D, O, B, clean)
<1>1. Backed(m, D, C) => Backed(m, D, B)
  BY DEF Backed, Backs
<1> QED BY <1>1 DEF Fits

(* pmm_alloc_frame, the frame going to an owner.                           *)
LEMMA AllocFits ==
  ASSUME NEW m, NEW D, NEW O, NEW C, NEW clean, Fits(m, D, O, C, clean), Lowest(m) # NONE
  PROVE  /\ Fits(AllocFrame(m), D, O \cup {Lowest(m)}, C, clean)
         /\ Lowest(m) \in Frames /\ Lowest(m) \notin O /\ Lowest(m) \notin m.used
<1> DEFINE a == AllocFrame(m)
           new == Lowest(m)
<1>1. m \in Memory /\ O \subseteq m.used
  BY DEF Fits, Sound
<1>2. new \in Frames /\ new \notin m.used /\ new \notin O
  BY <1>1, LowestIsFree
<1>3. a \in Memory /\ a.used = m.used \cup {new} /\ a.dir = m.dir /\ a.table = m.table
  BY <1>1, AllocFrameFields, Basics, Zenon DEF Memory
<1> HIDE DEF a, new
<1>4. Sound(a, D, O \cup {new})
  BY <1>1, <1>2, <1>3 DEF Fits, Sound
<1>5. Exact(m, D, O) => Exact(a, D, O \cup {new})
  BY <1>3 DEF Exact
<1>6. Backed(m, D, C) => Backed(a, D, C)
  BY <1>3 DEF Backed, Backs
<1> QED BY <1>2, <1>4, <1>5, <1>6 DEF a, new, Fits

(* A frame that is allocated and not recorded is lost, and does no harm.   *)
LEMMA AllocSound ==
  ASSUME NEW m, NEW D, NEW O, Sound(m, D, O)
  PROVE  Sound(AllocFrame(m), D, O)
<1> DEFINE a == AllocFrame(m)
<1>1. m \in Memory /\ m.used \subseteq Frames
  BY DEF Sound, Memory
<1>2. a \in Memory /\ m.used \subseteq a.used /\ a.dir = m.dir /\ a.table = m.table
  BY <1>1, AllocFrameFields, Basics
<1> HIDE DEF a
<1>3. Sound(a, D, O)
  BY <1>1, <1>2 DEF Sound
<1> QED BY <1>3 DEF a

(* pmm_free_frame, of frames that are owned.                               *)
LEMMA FreeFits ==
  ASSUME NEW m, NEW D, NEW O, NEW C, NEW clean, Fits(m, D, O, C, clean),
         NEW F, F \subseteq O, F \cap D = {}
  PROVE  Fits(FreeFrames(m, F), D, O \ F, C, clean)
<1> DEFINE a == FreeFrames(m, F)
<1>1. m \in Memory
  BY DEF Fits, Sound
<1>2. a \in Memory /\ a.used = m.used \ F /\ a.dir = m.dir /\ a.table = m.table
  BY <1>1, FreeFramesFields
<1> HIDE DEF a
<1>3. Sound(a, D, O \ F)
  BY <1>1, <1>2 DEF Fits, Sound
<1>4. Exact(m, D, O) => Exact(a, D, O \ F)
  BY <1>2 DEF Exact
<1>5. Backed(m, D, C) => Backed(a, D, C)
  BY <1>2 DEF Backed, Backs
<1> QED BY <1>3, <1>4, <1>5 DEF a, Fits

(* vmm_map_page_for_pdt, of a page its task claims.  Another task may have *)
(* claimed the page in the same table before: the claim is then void.      *)
LEMMA MapFits ==
  ASSUME NEW m, NEW D, NEW O, NEW C, NEW clean, Fits(m, D, O, C, clean),
         NEW d \in D, NEW e \in UserEntries, NEW p \in Pages, NEW f \in Frames
  PROVE  Fits(MapPage(m, d, e, p, f), D, O, C \cup {<<d, e, p, f>>}, clean)
<1> DEFINE n == MapPage(m, d, e, p, f)
           B == C \cup {<<d, e, p, f>>}
           pt == m.dir[d][e]
           new == Lowest(m)
<1>1. /\ m \in Memory /\ O \subseteq m.used /\ m.used \subseteq Frames /\ D \subseteq Frames
      /\ \A b \in D, x \in DirEntries : m.dir[b][x] # NONE => m.dir[b][x] \in m.used \ O
      /\ \A b \in D : m.dir[b]["low"] = PT_LOW
  BY DEF Fits, Sound, Memory
<1>2. UserEntries \subseteq DirEntries /\ "low" \in DirEntries /\ PT_LOW # NONE /\ NONE \notin Frames
  BY Basics
<1>3. /\ n \in Memory
      /\ \/ /\ pt # NONE /\ n.used = m.used /\ n.dir = m.dir
            /\ \A t \in Frames, q \in Pages :
                 n.table[t][q] = IF t = pt /\ q = p THEN f ELSE m.table[t][q]
         \/ pt = NONE /\ new = NONE /\ n = m
         \/ /\ pt = NONE /\ new \in Frames /\ new \notin m.used
            /\ n.used = m.used \cup {new}
            /\ \A b \in Frames, x \in DirEntries :
                 n.dir[b][x] = IF b = d /\ x = e THEN new ELSE m.dir[b][x]
            /\ \A t \in Frames, q \in Pages :
                 n.table[t][q] = IF t # new THEN m.table[t][q]
                                 ELSE IF q = p THEN f ELSE NONE
  <2>1. d \in Frames /\ e \in DirEntries
    BY <1>1, <1>2
  <2> HIDE DEF MapPage, Lowest
  <2> QED BY <1>1, <2>1, MapPageFields
<1> HIDE DEF n
<1>4. CASE pt # NONE /\ n.used = m.used /\ n.dir = m.dir
           /\ \A t \in Frames, q \in Pages :
                n.table[t][q] = IF t = pt /\ q = p THEN f ELSE m.table[t][q]
  <2>1. Sound(n, D, O)
    BY <1>3, <1>4 DEF Fits, Sound
  <2>2. Exact(m, D, O) => Exact(n, D, O)
    BY <1>4 DEF Exact
  <2>3. ASSUME Backed(m, D, C) PROVE Backed(n, D, B)
    <3> SUFFICES ASSUME NEW b \in D, NEW x \in UserEntries, NEW q \in Pages,
                        n.dir[b][x] # NONE, n.table[n.dir[b][x]][q] # NONE
                 PROVE  Backs(n, D, B, n.dir[b][x], q)
      BY DEF Backed
    <3> DEFINE t == m.dir[b][x]
    <3>1. t \in Frames /\ n.dir[b][x] = t
      BY <1>1, <1>2, <1>4
    <3>2. CASE t = pt /\ q = p
      <4>1. n.table[t][q] = f
        BY <1>4, <3>1, <3>2
      <4>2. n.dir[d][e] = t /\ <<d, e, q, n.table[t][q]>> \in B
        BY <1>4, <3>2, <4>1
      <4> QED BY <3>1, <4>2 DEF Backs
    <3>3. CASE ~(t = pt /\ q = p)
      <4>1. n.table[t][q] = m.table[t][q]
        BY <1>4, <3>1, <3>3
      <4>2. Backs(m, D, C, t, q)
        BY <2>3, <3>1, <4>1 DEF Backed
      <4> QED BY <1>4, <3>1, <4>1, <4>2 DEF Backs
    <3> QED BY <3>2, <3>3
  <2> QED BY <2>1, <2>2, <2>3 DEF Fits, n
<1>5. CASE n = m
  <2>1. Backed(m, D, C) => Backed(m, D, B)
    BY DEF Backed, Backs
  <2> QED BY <1>5, <2>1 DEF Fits, n
<1>6. CASE pt = NONE /\ new \in Frames /\ new \notin m.used
           /\ n.used = m.used \cup {new}
           /\ (\A b \in Frames, x \in DirEntries :
                 n.dir[b][x] = IF b = d /\ x = e THEN new ELSE m.dir[b][x])
           /\ \A t \in Frames, q \in Pages :
                 n.table[t][q] = IF t # new THEN m.table[t][q] ELSE IF q = p THEN f ELSE NONE
  <2> HIDE DEF new
  <2>1. e # "low"
    BY <1>1, <1>2, <1>6
  <2>2. ASSUME NEW b \in D, NEW x \in DirEntries
        PROVE  n.dir[b][x] = IF b = d /\ x = e THEN new ELSE m.dir[b][x]
    BY <1>1, <1>6
  <2>3. Sound(n, D, O)
    BY <1>1, <1>2, <1>3, <1>6, <2>1, <2>2 DEF Fits, Sound
  <2>4. ASSUME Exact(m, D, O) PROVE Exact(n, D, O)
    <3> SUFFICES ASSUME NEW g \in n.used, g \notin O
                 PROVE  \E b \in D, x \in DirEntries : n.dir[b][x] = g
      BY DEF Exact
    <3>1. CASE g = new
      BY <1>2, <2>2, <3>1
    <3>2. CASE g # new
      <4>1. PICK b \in D, x \in DirEntries : m.dir[b][x] = g
        BY <1>6, <2>4, <3>2 DEF Exact
      <4>2. g # NONE
        BY <1>1, <1>2, <1>6, <3>2
      <4> QED BY <1>6, <2>2, <4>1, <4>2
    <3> QED BY <3>1, <3>2
  <2>5. ASSUME Backed(m, D, C) PROVE Backed(n, D, B)
    <3> SUFFICES ASSUME NEW b \in D, NEW x \in UserEntries, NEW q \in Pages,
                        n.dir[b][x] # NONE, n.table[n.dir[b][x]][q] # NONE
                 PROVE  Backs(n, D, B, n.dir[b][x], q)
      BY DEF Backed
    <3> DEFINE t == m.dir[b][x]
    <3>1. CASE b = d /\ x = e
      <4>1. n.dir[b][x] = new
        BY <1>2, <2>2, <3>1
      <4>2. n.table[new][q] = IF q = p THEN f ELSE NONE
        BY <1>6
      <4>3. q = p /\ n.table[new][q] = f
        BY <4>1, <4>2
      <4> QED BY <3>1, <4>1, <4>3 DEF Backs
    <3>2. CASE ~(b = d /\ x = e)
      <4>1. n.dir[b][x] = t /\ t \in Frames /\ t # new /\ t # NONE
        BY <1>1, <1>2, <1>6, <2>2, <3>2
      <4>2. n.table[t][q] = m.table[t][q]
        BY <1>6, <4>1
      <4>3. Backs(m, D, C, t, q)
        BY <2>5, <4>1, <4>2 DEF Backed
      <4>4. PICK a \in D, y \in UserEntries : m.dir[a][y] = t /\ <<a, y, q, m.table[t][q]>> \in C
        BY <4>3 DEF Backs
      <4>5. n.dir[a][y] = t
        BY <1>2, <1>6, <2>2, <4>1, <4>4
      <4>6. <<a, y, q, n.table[t][q]>> \in B
        BY <4>2, <4>4
      <4> HIDE DEF t, B
      <4> QED BY <4>1, <4>5, <4>6 DEF Backs
    <3> QED BY <3>1, <3>2
  <2> QED BY <2>3, <2>4, <2>5 DEF Fits, n
<1> QED BY <1>3, <1>4, <1>5, <1>6

(* vmm_unmap_page_for_pdt, of pages that are claimed no longer.            *)
LEMMA UnmapFits ==
  ASSUME NEW m, NEW D, NEW O, NEW C, NEW clean, Fits(m, D, O, C, clean),
         NEW d \in D, NEW e \in UserEntries, NEW P, NEW B,
         \A b \in D, x \in UserEntries, q \in Pages, f \in Frames :
           <<b, x, q, f>> \in C => <<b, x, q, f>> \in B \/ (b = d /\ x = e /\ q \in P)
  PROVE  Fits(UnmapPages(m, d, e, P), D, O, B, clean)
<1> DEFINE n == UnmapPages(m, d, e, P)
           pt == m.dir[d][e]
<1>1. /\ m \in Memory /\ m.used \subseteq Frames /\ D \subseteq Frames
      /\ \A b \in D, x \in DirEntries : m.dir[b][x] # NONE => m.dir[b][x] \in m.used \ O
  BY DEF Fits, Sound, Memory
<1>2. UserEntries \subseteq DirEntries /\ NONE \notin Frames
  BY Basics
<1>3. /\ n \in Memory /\ n.used = m.used /\ n.dir = m.dir
      /\ \A t \in Frames, q \in Pages :
           n.table[t][q] = IF t = pt /\ q \in P THEN NONE ELSE m.table[t][q]
  <2>1. d \in Frames /\ e \in DirEntries
    BY <1>1, <1>2
  <2> HIDE DEF UnmapPages
  <2> QED BY <1>1, <2>1, UnmapPagesFields
<1> HIDE DEF n
<1>4. Sound(n, D, O)
  BY <1>3 DEF Fits, Sound
<1>5. Exact(m, D, O) => Exact(n, D, O)
  BY <1>3 DEF Exact
<1>6. ASSUME Backed(m, D, C) PROVE Backed(n, D, B)
  <2> SUFFICES ASSUME NEW b \in D, NEW x \in UserEntries, NEW q \in Pages,
                      n.dir[b][x] # NONE, n.table[n.dir[b][x]][q] # NONE
               PROVE  Backs(n, D, B, n.dir[b][x], q)
    BY DEF Backed
  <2> DEFINE t == m.dir[b][x]
  <2>1. n.dir[b][x] = t /\ t \in Frames
    BY <1>1, <1>2, <1>3
  <2>2. ~(t = pt /\ q \in P) /\ n.table[t][q] = m.table[t][q] /\ m.table[t][q] \in Frames
    <3>1. m.table[t][q] \in Frames \cup {NONE}
      BY <1>1, <2>1 DEF Memory, Table
    <3> QED BY <1>3, <2>1, <3>1
  <2>3. Backs(m, D, C, t, q)
    BY <1>6, <2>1, <2>2 DEF Backed
  <2>4. PICK a \in D, y \in UserEntries : m.dir[a][y] = t /\ <<a, y, q, m.table[t][q]>> \in C
    BY <2>3 DEF Backs
  <2>5. <<a, y, q, m.table[t][q]>> \in B
    BY <2>2, <2>4
  <2> HIDE DEF t
  <2> QED BY <1>3, <2>1, <2>2, <2>4, <2>5 DEF Backs
<1> QED BY <1>4, <1>5, <1>6 DEF Fits, n

(* Writing through the temporary mapping.                                  *)
LEMMA TempFits ==
  ASSUME NEW m, NEW D, NEW O, NEW C, NEW clean, Fits(m, D, O, C, clean),
         NEW d \in D, NEW f \in Frames
  PROVE  Fits(WriteThroughTemp(m, d, f), D, O, C, clean)
<1> DEFINE n == WriteThroughTemp(m, d, f)
           pt == m.dir[d]["temp"]
           new == Lowest(m)
<1>1. /\ m \in Memory /\ m.used \subseteq Frames /\ D \subseteq Frames
      /\ \A b \in D, x \in DirEntries : m.dir[b][x] # NONE => m.dir[b][x] \in m.used \ O
      /\ O \subseteq m.used
  BY DEF Fits, Sound, Memory
<1>2. /\ UserEntries \subseteq DirEntries /\ NONE \notin Frames /\ "low" \in DirEntries
      /\ "temp" \in DirEntries /\ "temp" \notin UserEntries /\ "temp" # "low"
  BY Basics
<1>3. /\ n \in Memory
      /\ \/ /\ n.used = m.used /\ n.dir = m.dir
            /\ \A t \in Frames, q \in Pages :
                 n.table[t][q] = IF t = pt /\ q = 0 THEN NONE ELSE m.table[t][q]
         \/ /\ pt = NONE /\ new \in Frames /\ new \notin m.used
            /\ n.used = m.used \cup {new}
            /\ \A b \in Frames, x \in DirEntries :
                 n.dir[b][x] = IF b = d /\ x = "temp" THEN new ELSE m.dir[b][x]
            /\ \A t \in Frames, q \in Pages :
                 n.table[t][q] = IF t # new THEN m.table[t][q] ELSE NONE
  <2>1. d \in Frames
    BY <1>1
  <2>2. TempWritten(m, d, n)
    BY <1>1, <2>1, WriteThroughTempFields
  <2> HIDE DEF n, Lowest
  <2> QED BY <2>2 DEF TempWritten
<1> HIDE DEF n, pt, new
<1>4. ASSUME NEW b \in D, NEW x \in UserEntries
      PROVE  n.dir[b][x] = m.dir[b][x]
  BY <1>1, <1>2, <1>3
<1>5. Sound(n, D, O)
  <2>1. CASE n.used = m.used /\ n.dir = m.dir
    BY <1>3, <2>1 DEF Fits, Sound
  <2>2. CASE n.used = m.used \cup {new} /\ new \notin m.used
             /\ \A b \in Frames, x \in DirEntries :
                  n.dir[b][x] = IF b = d /\ x = "temp" THEN new ELSE m.dir[b][x]
    <3>1. ASSUME NEW b \in D, NEW x \in DirEntries, n.dir[b][x] # NONE
          PROVE  n.dir[b][x] \in n.used \ O
      BY <1>1, <2>2, <3>1
    <3>2. \A b \in D : n.dir[b]["low"] = PT_LOW
      BY <1>1, <1>2, <2>2 DEF Fits, Sound
    <3> QED BY <1>3, <2>2, <3>1, <3>2 DEF Fits, Sound
  <2> QED BY <1>3, <2>1, <2>2
<1>6. ASSUME Exact(m, D, O) PROVE Exact(n, D, O)
  <2>1. CASE n.used = m.used /\ n.dir = m.dir
    BY <1>6, <2>1 DEF Exact
  <2>2. CASE n.used = m.used \cup {new} /\ pt = NONE
             /\ \A b \in Frames, x \in DirEntries :
                  n.dir[b][x] = IF b = d /\ x = "temp" THEN new ELSE m.dir[b][x]
    <3> SUFFICES ASSUME NEW g \in n.used, g \notin O
                 PROVE  \E b \in D, x \in DirEntries : n.dir[b][x] = g
      BY DEF Exact
    <3>1. CASE g = new
      BY <1>1, <1>2, <2>2, <3>1
    <3>2. CASE g # new
      <4>1. PICK b \in D, x \in DirEntries : m.dir[b][x] = g
        BY <1>6, <2>2, <3>2 DEF Exact
      <4>2. g # NONE
        BY <1>1, <1>2, <2>2, <3>2
      <4> QED BY <1>1, <2>2, <4>1, <4>2 DEF pt
    <3> QED BY <3>1, <3>2
  <2> QED BY <1>3, <2>1, <2>2
<1>7. ASSUME Backed(m, D, C) PROVE Backed(n, D, C)
  <2> SUFFICES ASSUME NEW b \in D, NEW x \in UserEntries, NEW q \in Pages,
                      n.dir[b][x] # NONE, n.table[n.dir[b][x]][q] # NONE
               PROVE  Backs(n, D, C, n.dir[b][x], q)
    BY DEF Backed
  <2> DEFINE t == m.dir[b][x]
  <2>1. n.dir[b][x] = t /\ t \in Frames /\ t \in m.used /\ t # NONE
    BY <1>1, <1>2, <1>4
  <2>2. n.table[t][q] = m.table[t][q]
    BY <1>3, <2>1
  <2>3. Backs(m, D, C, t, q)
    BY <1>7, <2>1, <2>2 DEF Backed
  <2> HIDE DEF t
  <2> QED BY <1>4, <2>1, <2>2, <2>3 DEF Backs
<1> QED BY <1>5, <1>6, <1>7 DEF Fits, n

(* vmm_clone_kernel_mappings, of the directory that is loaded: the new one *)
(* shares its tables, and with them the claims on their pages.             *)
LEMMA CloneFits ==
  ASSUME NEW m, NEW D, NEW O, NEW C, NEW clean, Fits(m, D, O, C, clean),
         NEW c \in D, Lowest(m) # NONE
  PROVE  /\ Fits(CloneKernelMappings(m, c), D \cup {Lowest(m)}, O \cup {Lowest(m)}, C, clean)
         /\ Lowest(m) \in Frames /\ Lowest(m) \notin O
<1> DEFINE n == CloneKernelMappings(m, c)
           new == Lowest(m)
           E == D \cup {new}
<1>1. /\ m \in Memory /\ m.used \subseteq Frames /\ D \subseteq Frames
      /\ \A b \in D, x \in DirEntries : m.dir[b][x] # NONE => m.dir[b][x] \in m.used \ O
      /\ O \subseteq m.used /\ D \subseteq O /\ KERNEL_PDT \in D
      /\ \A b \in D : m.dir[b]["low"] = PT_LOW
  BY DEF Fits, Sound, Memory
<1>2. UserEntries \subseteq DirEntries
  BY Basics
<1>3. /\ n \in Memory /\ n.used = m.used \cup {new} /\ n.table = m.table
      /\ \A b \in Frames : n.dir[b] = IF b = new THEN m.dir[c] ELSE m.dir[b]
  <2>1. c \in Frames
    BY <1>1
  <2> HIDE DEF CloneKernelMappings, Lowest
  <2> QED BY <1>1, <2>1, CloneFields
<1>4. new \in Frames /\ new \notin m.used /\ new \notin O
  BY <1>1, LowestIsFree
<1> HIDE DEF n, new
<1>5. ASSUME NEW b \in E PROVE \E a \in D : n.dir[b] = m.dir[a]
  BY <1>1, <1>3, <1>4
<1>6. ASSUME NEW b \in D PROVE n.dir[b] = m.dir[b]
  BY <1>1, <1>3, <1>4
<1>7. Sound(n, E, O \cup {new})
  <2>1. ASSUME NEW b \in E, NEW x \in DirEntries, n.dir[b][x] # NONE
        PROVE  n.dir[b][x] \in n.used \ (O \cup {new})
    <3>1. PICK a \in D : n.dir[b] = m.dir[a]
      BY <1>5
    <3> QED BY <1>1, <1>3, <1>4, <2>1, <3>1
  <2>2. ASSUME NEW b \in E PROVE n.dir[b]["low"] = PT_LOW
    BY <1>1, <1>5
  <2> QED BY <1>1, <1>3, <2>1, <2>2 DEF Sound
<1>8. Exact(m, D, O) => Exact(n, E, O \cup {new})
  BY <1>3, <1>6 DEF Exact
<1>9. ASSUME Backed(m, D, C) PROVE Backed(n, E, C)
  <2> SUFFICES ASSUME NEW b \in E, NEW x \in UserEntries, NEW q \in Pages,
                      n.dir[b][x] # NONE, n.table[n.dir[b][x]][q] # NONE
               PROVE  Backs(n, E, C, n.dir[b][x], q)
    BY DEF Backed
  <2>1. PICK a \in D : n.dir[b] = m.dir[a]
    BY <1>5
  <2>2. Backs(m, D, C, m.dir[a][x], q)
    BY <1>3, <1>9, <2>1 DEF Backed
  <2> QED BY <1>3, <1>6, <2>1, <2>2 DEF Backs
<1> QED BY <1>4, <1>7, <1>8, <1>9 DEF Fits, n, new

(* Unmapping and freeing the pages a task has at one entry.                *)
LEMMA ReleaseFits ==
  ASSUME NEW m, NEW D, NEW O, NEW C, NEW clean, Fits(m, D, O, C, clean),
         NEW d \in D, NEW e \in UserEntries, NEW first, NEW s, NEW B,
         Range(s) \subseteq O, Range(s) \cap D = {},
         \A b \in D, x \in UserEntries, q \in Pages, f \in Frames :
           <<b, x, q, f>> \in C =>
             <<b, x, q, f>> \in B \/ (b = d /\ x = e /\ q \in {first + i - 1 : i \in DOMAIN s})
  PROVE  Fits(ReleasePages(m, d, e, first, s), D, O \ Range(s), B, clean)
<1> DEFINE P == {first + i - 1 : i \in DOMAIN s}
           n == UnmapPages(m, d, e, P)
<1>1. Fits(n, D, O, B, clean)
  <2> HIDE DEF P, UnmapPages
  <2>1. \A b \in D, x \in UserEntries, q \in Pages, f \in Frames :
          <<b, x, q, f>> \in C => <<b, x, q, f>> \in B \/ (b = d /\ x = e /\ q \in P)
    BY DEF P
  <2> QED BY <2>1, UnmapFits
<1>2. Fits(FreeFrames(n, Range(s)), D, O \ Range(s), B, clean)
  <2> HIDE DEF n
  <2> QED BY <1>1, FreeFits
<1> QED BY <1>2 DEF ReleasePages

-----------------------------------------------------------------------------
(* The loops that allocate pages.  What such a loop has between rounds.    *)
Got == [m: Memory, frames: Seq(Frames), failed: BOOLEAN]

(* One more frame in a list.                                               *)
LEMMA AppendOne ==
  ASSUME NEW s \in Seq(Frames), NEW f \in Frames
  PROVE  /\ Append(s, f) \in Seq(Frames) /\ Len(Append(s, f)) = Len(s) + 1 /\ Len(s) \in Nat
         /\ Range(Append(s, f)) = Range(s) \cup {f}
         /\ IsInjective(s) /\ f \notin Range(s) => IsInjective(Append(s, f))
<1> DEFINE t == Append(s, f)
           n == Len(s)
<1>1. t \in Seq(Frames) /\ Len(t) = n + 1 /\ n \in Nat /\ DOMAIN t = 1 .. n + 1 /\ DOMAIN s = 1..n
  OBVIOUS
<1>2. t[n + 1] = f /\ \A i \in 1..n : t[i] = s[i]
  OBVIOUS
<1>3. n + 1 \in 1 .. n + 1 /\ \A i \in 1 .. n + 1 : i # n + 1 => i \in 1..n
  BY <1>1
<1>4. \A i \in 1..n : i \in 1 .. n + 1 /\ i # n + 1
  BY <1>1
<1> HIDE DEF t, n
<1>5. Range(t) = Range(s) \cup {f}
  BY <1>1, <1>2, <1>3, <1>4 DEF Range
<1>6. IsInjective(s) /\ f \notin Range(s) => IsInjective(t)
  BY <1>1, <1>2, <1>3, <1>4 DEF IsInjective, Range
<1> QED BY <1>1, <1>5, <1>6 DEF t, n

(* And one more claim.                                                     *)
LEMMA AppendClaim ==
  ASSUME NEW s \in Seq(Frames), NEW f \in Frames, NEW first \in Nat, NEW d, NEW e
  PROVE  PageClaims(d, e, first, Append(s, f))
           = PageClaims(d, e, first, s) \cup {<<d, e, first + Len(s), f>>}
<1> DEFINE t == Append(s, f)
           n == Len(s)
<1>1. n \in Nat /\ DOMAIN t = 1 .. n + 1 /\ DOMAIN s = 1..n
  OBVIOUS
<1>2. t[n + 1] = f /\ \A i \in 1..n : t[i] = s[i]
  OBVIOUS
<1>3. n + 1 \in 1 .. n + 1 /\ \A i \in 1 .. n + 1 : i # n + 1 => i \in 1..n
  BY <1>1
<1>4. \A i \in 1..n : i \in 1 .. n + 1 /\ i # n + 1
  BY <1>1
<1>5. first + (n + 1) - 1 = first + n
  BY <1>1
<1> HIDE DEF t, n
<1>6. ASSUME NEW x \in PageClaims(d, e, first, t)
      PROVE  x \in PageClaims(d, e, first, s) \cup {<<d, e, first + n, f>>}
  BY <1>1, <1>2, <1>3, <1>5 DEF PageClaims
<1>7. ASSUME NEW x \in PageClaims(d, e, first, s)
      PROVE  x \in PageClaims(d, e, first, t)
  BY <1>1, <1>2, <1>4 DEF PageClaims
<1>8. <<d, e, first + n, f>> \in PageClaims(d, e, first, t)
  BY <1>1, <1>2, <1>3, <1>5 DEF PageClaims
<1>9. PageClaims(d, e, first, t) = PageClaims(d, e, first, s) \cup {<<d, e, first + n, f>>}
  BY <1>6, <1>7, <1>8
<1> QED BY <1>9 DEF t, n

(* One round keeps the types.                                              *)
LEMMA AllocPageType ==
  ASSUME NEW s \in Got, NEW d \in Frames, NEW e \in DirEntries, NEW p
  PROVE  AllocPage(s, d, e, p) \in Got
<1> DEFINE f == Lowest(s.m)
           a == AllocFrame(s.m)
           n == MapPage(a, d, e, p, f)
           t == Append(s.frames, f)
<1>1. s.m \in Memory /\ s.frames \in Seq(Frames)
  BY DEF Got
<1>2. CASE s.failed \/ f = NONE
  <2> HIDE DEF f
  <2>1. AllocPage(s, d, e, p) = [s EXCEPT !.failed = TRUE]
    BY <1>2 DEF AllocPage, f
  <2> QED BY <2>1 DEF Got
<1>3. CASE ~(s.failed \/ f = NONE)
  <2>1. f \in Frames /\ a \in Memory
    BY <1>1, <1>3, LowestIsFree, AllocFrameFields
  <2>2. n \in Memory
    <3> HIDE DEF f, a
    <3> QED BY <2>1, MapPageFields
  <2>3. t \in Seq(Frames)
    BY <1>1, <2>1
  <2>4. AllocPage(s, d, e, p) = [m |-> n, frames |-> t, failed |-> FALSE]
    BY <1>3 DEF AllocPage
  <2> HIDE DEF n, t
  <2> QED BY <2>2, <2>3, <2>4 DEF Got
<1> QED BY <1>2, <1>3

(* The recursive function of AllocPages, round by round.                   *)
LEMMA AllocPagesRun ==
  ASSUME NEW m \in Memory, NEW d \in Frames, NEW e \in DirEntries, NEW first \in Nat, NEW n \in Nat
  PROVE  \E g \in [0..n -> Got] :
           /\ g[0] = Begin(m)
           /\ \A i \in 1..n : g[i] = AllocPage(g[i-1], d, e, first + i - 1)
           /\ AllocPages(m, d, e, first, n) = g[n]
<1> DEFINE step == [x \in (1..n) \X Got |-> AllocPage(x[2], d, e, first + x[1] - 1)]
           Rec(g) == [i \in 0..n |-> IF i = 0 THEN Begin(m)
                                     ELSE AllocPage(g[i-1], d, e, first + i - 1)]
<1>1. Begin(m) \in Got
  BY DEF Begin, Got
<1>2. step \in [(1..n) \X Got -> Got]
  <2>1. ASSUME NEW x \in (1..n) \X Got PROVE AllocPage(x[2], d, e, first + x[1] - 1) \in Got
    BY AllocPageType
  <2> HIDE DEF AllocPage, Got
  <2> QED BY <2>1
<1>3. PICK g : IsRun(g, n, Got, Begin(m), step)
  <2> HIDE DEF step, Begin, Got
  <2> QED BY <1>1, <1>2, LoopRuns
<1>4. \A i \in 1..n : g[i] = AllocPage(g[i-1], d, e, first + i - 1)
  <2> SUFFICES ASSUME NEW i \in 1..n PROVE g[i] = AllocPage(g[i-1], d, e, first + i - 1)
    OBVIOUS
  <2>1. i - 1 \in 0..n
    OBVIOUS
  <2>2. <<i, g[i-1]>> \in (1..n) \X Got
    BY <1>3, <2>1 DEF IsRun
  <2> HIDE DEF AllocPage, Got
  <2> QED BY <1>3, <2>2 DEF IsRun
<1>5. g = Rec(g)
  <2>1. \A i \in 0..n : i # 0 => i \in 1..n
    OBVIOUS
  <2> HIDE DEF AllocPage, Got, Begin
  <2> QED BY <1>3, <1>4, <2>1 DEF IsRun
<1>6. AllocPages(m, d, e, first, n) = (CHOOSE h : h = Rec(h))[n]
  BY DEF AllocPages
<1>7. PICK h : h = Rec(h) /\ AllocPages(m, d, e, first, n) = h[n]
  <2> HIDE DEF Rec
  <2> QED BY <1>5, <1>6
<1>8. ASSUME NEW i \in 0..n
      PROVE  h[i] = IF i = 0 THEN Begin(m) ELSE AllocPage(h[i-1], d, e, first + i - 1)
  <2> DEFINE v == Rec(h)
  <2>1. h[i] = v[i]
    BY <1>7
  <2>2. v[i] = IF i = 0 THEN Begin(m) ELSE AllocPage(h[i-1], d, e, first + i - 1)
    <3> HIDE DEF AllocPage, Begin
    <3> QED OBVIOUS
  <2> HIDE DEF v
  <2> QED BY <2>1, <2>2
<1>9. h[0] = Begin(m) /\ \A i \in 1..n : h[i] = AllocPage(h[i-1], d, e, first + i - 1)
  <2> HIDE DEF AllocPage, Begin
  <2> QED BY <1>8
<1>10. \A i \in 0..n : h[i] \in Got
  <2> DEFINE P == {i \in 0..n : h[i] \in Got}
  <2>1. 0 \in P
    BY <1>1, <1>9
  <2>2. ASSUME NEW i \in 0 .. n - 1, i \in P PROVE i + 1 \in P
    <3>1. i + 1 \in 1..n /\ i + 1 \in 0..n /\ (i + 1) - 1 = i
      OBVIOUS
    <3>2. h[i + 1] = AllocPage(h[i], d, e, first + (i + 1) - 1)
      BY <1>9, <3>1
    <3>3. h[i + 1] \in Got
      BY <2>2, <3>2, AllocPageType
    <3> QED BY <3>1, <3>3
  <2> HIDE DEF P
  <2>3. \A i \in 0..n : i \in P
    BY <2>1, <2>2, LoopInduction
  <2> QED BY <2>3 DEF P
<1>11. h \in [0..n -> Got]
  <2>1. h = [i \in 0..n |-> h[i]]
    BY <1>7
  <2> HIDE DEF Got
  <2> QED BY <2>1, <1>10
<1> HIDE DEF Got, AllocPage, AllocPages, Begin
<1> QED BY <1>7, <1>9, <1>11

(* A place of an image is one of a directory.                              *)
LEMMA PlaceType ==
  ASSUME NEW place \in Place
  PROVE  place[1] \in UserEntries /\ place[1] \in DirEntries /\ place[2] \in Pages
BY Basics DEF Place

(* The loop of sys_exec, round by round.                                   *)
LEMMA LoadPageType ==
  ASSUME NEW s \in Got, NEW d \in Frames, NEW place \in Place
  PROVE  LoadPage(s, d, place) \in Got
<1> DEFINE page == AllocPage(s, d, place[1], place[2])
           n == WriteThroughTemp(page.m, d, Lowest(s.m))
<1>1. page \in Got
  <2> HIDE DEF AllocPage
  <2> QED BY AllocPageType, PlaceType
<1>2. CASE Len(s.frames) >= MAX_USER_CODE_PAGES \/ page.failed
  <2>1. LoadPage(s, d, place) = [s EXCEPT !.failed = TRUE]
    BY <1>2 DEF LoadPage
  <2> QED BY <2>1 DEF Got
<1>3. CASE ~(Len(s.frames) >= MAX_USER_CODE_PAGES \/ page.failed)
  <2>1. LoadPage(s, d, place) = [page EXCEPT !.m = n]
    BY <1>3 DEF LoadPage
  <2>2. Lowest(s.m) \in Frames
    <3>1. s.m \in Memory
      BY DEF Got
    <3>2. Lowest(s.m) # NONE
      BY <1>3 DEF AllocPage
    <3> QED BY <3>1, <3>2, LowestIsFree
  <2>3. n \in Memory
    <3>1. page.m \in Memory
      BY <1>1 DEF Got
    <3> HIDE DEF page
    <3> QED BY <2>2, <3>1, WriteThroughTempFields DEF TempWritten
  <2> HIDE DEF page, n
  <2> QED BY <1>1, <2>1, <2>3 DEF Got
<1> QED BY <1>2, <1>3

(* The recursive function of LoadElf, round by round.                      *)
LEMMA LoadElfRun ==
  ASSUME NEW m \in Memory, NEW d \in Frames, NEW image \in Seq(Place)
  PROVE  \E g \in [0..Len(image) -> Got] :
           /\ g[0] = Begin(m)
           /\ \A i \in 1..Len(image) : g[i] = LoadPage(g[i-1], d, image[i])
           /\ LoadElf(m, d, image) = g[Len(image)]
<1> DEFINE step == [x \in (1..Len(image)) \X Got |-> LoadPage(x[2], d, image[x[1]])]
           Rec(g) == [i \in 0..Len(image) |-> IF i = 0 THEN Begin(m) ELSE LoadPage(g[i-1], d, image[i])]
<1>0. Len(image) \in Nat /\ \A i \in 1..Len(image) : image[i] \in Place
  OBVIOUS
<1>1. Begin(m) \in Got
  BY DEF Begin, Got
<1>2. step \in [(1..Len(image)) \X Got -> Got]
  <2>1. ASSUME NEW x \in (1..Len(image)) \X Got PROVE LoadPage(x[2], d, image[x[1]]) \in Got
    <3>1. image[x[1]] \in Place
      BY <1>0
    <3> HIDE DEF LoadPage, Got
    <3> QED BY <3>1, LoadPageType
  <2> HIDE DEF LoadPage, Got
  <2> QED BY <2>1
<1>3. PICK g : IsRun(g, Len(image), Got, Begin(m), step)
  <2> HIDE DEF step, Begin, Got
  <2> QED BY <1>0, <1>1, <1>2, LoopRuns
<1>4. \A i \in 1..Len(image) : g[i] = LoadPage(g[i-1], d, image[i])
  <2> SUFFICES ASSUME NEW i \in 1..Len(image) PROVE g[i] = LoadPage(g[i-1], d, image[i])
    OBVIOUS
  <2>1. i - 1 \in 0..Len(image)
    OBVIOUS
  <2>2. <<i, g[i-1]>> \in (1..Len(image)) \X Got
    BY <1>3, <2>1 DEF IsRun
  <2> HIDE DEF LoadPage, Got
  <2> QED BY <1>3, <2>2 DEF IsRun
<1>5. g = Rec(g)
  <2>1. \A i \in 0..Len(image) : i # 0 => i \in 1..Len(image)
    OBVIOUS
  <2> HIDE DEF LoadPage, Got, Begin
  <2> QED BY <1>3, <1>4, <2>1 DEF IsRun
<1>6. LoadElf(m, d, image) = (CHOOSE h : h = Rec(h))[Len(image)]
  BY DEF LoadElf
<1>7. PICK h : h = Rec(h) /\ LoadElf(m, d, image) = h[Len(image)]
  <2> HIDE DEF Rec
  <2> QED BY <1>5, <1>6
<1>8. ASSUME NEW i \in 0..Len(image)
      PROVE  h[i] = IF i = 0 THEN Begin(m) ELSE LoadPage(h[i-1], d, image[i])
  <2> DEFINE v == Rec(h)
  <2>1. h[i] = v[i]
    BY <1>7
  <2>2. v[i] = IF i = 0 THEN Begin(m) ELSE LoadPage(h[i-1], d, image[i])
    <3> HIDE DEF LoadPage, Begin
    <3> QED OBVIOUS
  <2> HIDE DEF v
  <2> QED BY <2>1, <2>2
<1>9. h[0] = Begin(m) /\ \A i \in 1..Len(image) : h[i] = LoadPage(h[i-1], d, image[i])
  <2> HIDE DEF LoadPage, Begin
  <2> QED BY <1>8
<1>10. \A i \in 0..Len(image) : h[i] \in Got
  <2> DEFINE P == {i \in 0..Len(image) : h[i] \in Got}
  <2>1. 0 \in P
    BY <1>1, <1>9
  <2>2. ASSUME NEW i \in 0 .. Len(image) - 1, i \in P PROVE i + 1 \in P
    <3>1. i + 1 \in 1..Len(image) /\ i + 1 \in 0..Len(image) /\ (i + 1) - 1 = i
      BY <1>0
    <3>2. h[i + 1] = LoadPage(h[i], d, image[i + 1])
      BY <1>9, <3>1
    <3>3. h[i + 1] \in Got
      BY <1>0, <2>2, <3>1, <3>2, LoadPageType
    <3> QED BY <3>1, <3>3
  <2> HIDE DEF P
  <2>3. \A i \in 0..Len(image) : i \in P
    BY <1>0, <2>1, <2>2, LoopInduction
  <2> QED BY <2>3 DEF P
<1>11. h \in [0..Len(image) -> Got]
  <2>1. h = [i \in 0..Len(image) |-> h[i]]
    BY <1>7
  <2> HIDE DEF Got
  <2> QED BY <2>1, <1>10
<1> HIDE DEF Got, LoadPage, LoadElf, Begin
<1> QED BY <1>7, <1>9, <1>11

(* What such a loop has after k rounds: as many frames, unless it stopped, *)
(* all different and owned by nobody before, and claims on their pages.    *)
Grown(s, k, D, O, C, clean, d, e, first) ==
  /\ s \in Got
  /\ Len(s.frames) <= k /\ (~s.failed => Len(s.frames) = k)
  /\ IsInjective(s.frames) /\ Range(s.frames) \cap O = {}
  /\ Fits(s.m, D, O \cup Range(s.frames), C \cup PageClaims(d, e, first, s.frames), clean)

(* At the start.                                                           *)
LEMMA GrownBegins ==
  ASSUME NEW m, NEW D, NEW O, NEW C, NEW clean, Fits(m, D, O, C, clean),
         NEW d, NEW e, NEW first
  PROVE  Grown(Begin(m), 0, D, O, C, clean, d, e, first)
<1> DEFINE s == Begin(m)
<1>1. m \in Memory
  BY DEF Fits, Sound
<1>2. s.m = m /\ s.frames = <<>> /\ s.failed = FALSE /\ s \in Got
  BY <1>1 DEF Begin, Got
<1>3. Range(<<>>) = {} /\ IsInjective(<<>>) /\ PageClaims(d, e, first, <<>>) = {} /\ Len(<<>>) = 0
  BY DEF Range, IsInjective, PageClaims
<1> HIDE DEF s
<1>4. O \cup Range(s.frames) = O /\ C \cup PageClaims(d, e, first, s.frames) = C
  BY <1>2, <1>3
<1>5. Fits(s.m, D, O \cup Range(s.frames), C \cup PageClaims(d, e, first, s.frames), clean)
  BY <1>2, <1>4, Zenon
<1>6. Range(s.frames) \cap O = {} /\ IsInjective(s.frames) /\ Len(s.frames) = 0
  BY <1>2, <1>3
<1>7. Grown(s, 0, D, O, C, clean, d, e, first)
  BY <1>2, <1>5, <1>6 DEF Grown
<1> QED BY <1>7 DEF s

(* One round of AllocPages.                                                *)
LEMMA AllocPageGrown ==
  ASSUME NEW D, NEW O, NEW C, NEW clean, NEW d \in D, NEW e \in UserEntries,
         NEW first \in Nat, NEW k \in Nat, first + k \in Pages,
         NEW s, Grown(s, k, D, O, C, clean, d, e, first)
  PROVE  Grown(AllocPage(s, d, e, first + k), k + 1, D, O, C, clean, d, e, first)
<1> DEFINE f == Lowest(s.m)
           a == AllocFrame(s.m)
           n == MapPage(a, d, e, first + k, f)
           t == Append(s.frames, f)
           z == AllocPage(s, d, e, first + k)
           Q == O \cup Range(s.frames)
           B == C \cup PageClaims(d, e, first, s.frames)
<1>1. s \in Got /\ s.m \in Memory /\ s.frames \in Seq(Frames) /\ s.failed \in BOOLEAN
  BY DEF Grown, Got
<1>2. Fits(s.m, D, Q, B, clean)
  BY DEF Grown
<1>3. d \in Frames /\ e \in DirEntries
  <2>1. d \in Frames
    BY <1>2 DEF Fits, Sound, Memory
  <2> QED BY <2>1, Basics
<1>4. z \in Got
  BY <1>1, <1>3, AllocPageType
<1>5. CASE s.failed \/ f = NONE
  <2>1. z = [s EXCEPT !.failed = TRUE]
    BY <1>5 DEF AllocPage
  <2> HIDE DEF z
  <2>2. z.m = s.m /\ z.frames = s.frames /\ z.failed = TRUE
    BY <1>1, <2>1 DEF Got
  <2>3. Len(s.frames) <= k => Len(s.frames) <= k + 1
    BY <1>1
  <2>4. Grown(z, k + 1, D, O, C, clean, d, e, first)
    BY <1>4, <2>2, <2>3 DEF Grown
  <2> QED BY <2>4 DEF z
<1>6. CASE ~(s.failed \/ f = NONE)
  <2>1. z = [m |-> n, frames |-> t, failed |-> FALSE]
    BY <1>6 DEF AllocPage
  <2>2. Fits(a, D, Q \cup {f}, B, clean) /\ f \in Frames /\ f \notin Q
    <3> HIDE DEF Q, B
    <3> QED BY <1>2, <1>6, AllocFits
  <2> HIDE DEF f, a
  <2>3. Fits(n, D, Q \cup {f}, B \cup {<<d, e, first + k, f>>}, clean)
    <3> HIDE DEF Q, B
    <3> QED BY <2>2, MapFits
  <2>4. Len(s.frames) = k
    BY <1>6 DEF Grown
  <2>5. /\ t \in Seq(Frames) /\ Len(t) = k + 1
        /\ Range(t) = Range(s.frames) \cup {f}
        /\ IsInjective(t)
        /\ PageClaims(d, e, first, t)
             = PageClaims(d, e, first, s.frames) \cup {<<d, e, first + k, f>>}
    <3>1. IsInjective(s.frames) /\ f \notin Range(s.frames)
      BY <2>2 DEF Grown
    <3> DEFINE r == s.frames
    <3>2. r \in Seq(Frames) /\ IsInjective(r) /\ f \notin Range(r) /\ Len(r) = k
      BY <1>1, <2>4, <3>1
    <3> HIDE DEF r
    <3>3. /\ Append(r, f) \in Seq(Frames) /\ Len(Append(r, f)) = k + 1
          /\ Range(Append(r, f)) = Range(r) \cup {f}
          /\ IsInjective(Append(r, f))
          /\ PageClaims(d, e, first, Append(r, f))
               = PageClaims(d, e, first, r) \cup {<<d, e, first + k, f>>}
      <4>1. f \in Frames
        BY <2>2
      <4>2. PageClaims(d, e, first, Append(r, f))
              = PageClaims(d, e, first, r) \cup {<<d, e, first + Len(r), f>>}
        BY <3>2, <4>1, AppendClaim
      <4>3. /\ Append(r, f) \in Seq(Frames) /\ Len(Append(r, f)) = k + 1
            /\ Range(Append(r, f)) = Range(r) \cup {f}
            /\ IsInjective(Append(r, f))
        BY <3>2, <4>1, AppendOne
      <4> QED BY <3>2, <4>2, <4>3, Zenon
    <3> QED BY <3>3 DEF r
  <2>6. z.m = n /\ z.frames = t /\ z.failed = FALSE
    BY <2>1
  <2> HIDE DEF z, n, t
  <2>7. O \cup Range(t) = Q \cup {f} /\ C \cup PageClaims(d, e, first, t) = B \cup {<<d, e, first + k, f>>}
    BY <2>5
  <2>8. Range(t) \cap O = {}
    BY <2>2, <2>5 DEF Grown
  <2> HIDE DEF Q, B
  <2>9. Fits(z.m, D, O \cup Range(z.frames), C \cup PageClaims(d, e, first, z.frames), clean)
    BY <2>3, <2>6, <2>7, Zenon
  <2>10. Len(z.frames) = k + 1 /\ Len(z.frames) <= k + 1
    BY <2>5, <2>6
  <2>11. Grown(z, k + 1, D, O, C, clean, d, e, first)
    BY <1>4, <2>5, <2>6, <2>8, <2>9, <2>10, Zenon DEF Grown
  <2> QED BY <2>11 DEF z
<1> QED BY <1>5, <1>6

(* The claims an image makes, and what the loop of load_elf has after k    *)
(* pages: each frame may be at any place of the image, one page being      *)
(* mapped over another.                                                    *)
ImageClaims(d, image, F) == {<<d, image[i][1], image[i][2], f>> : i \in DOMAIN image, f \in F}

Loaded(s, k, D, O, C, clean, d, image) ==
  /\ s \in Got
  /\ Len(s.frames) <= k /\ (~s.failed => Len(s.frames) = k)
  /\ Len(s.frames) <= MAX_USER_CODE_PAGES
  /\ IsInjective(s.frames) /\ Range(s.frames) \cap O = {}
  /\ Fits(s.m, D, O \cup Range(s.frames), C \cup ImageClaims(d, image, Range(s.frames)), clean)

(* At the start.                                                           *)
LEMMA LoadedBegins ==
  ASSUME NEW m, NEW D, NEW O, NEW C, NEW clean, Fits(m, D, O, C, clean), NEW d, NEW image
  PROVE  Loaded(Begin(m), 0, D, O, C, clean, d, image)
<1> DEFINE s == Begin(m)
<1>1. m \in Memory
  BY DEF Fits, Sound
<1>2. s.m = m /\ s.frames = <<>> /\ s.failed = FALSE /\ s \in Got
  BY <1>1 DEF Begin, Got
<1>3. /\ Range(<<>>) = {} /\ IsInjective(<<>>) /\ ImageClaims(d, image, {}) = {}
      /\ Len(<<>>) = 0 /\ 0 <= MAX_USER_CODE_PAGES
  BY Basics DEF Range, IsInjective, ImageClaims
<1> HIDE DEF s
<1>4. O \cup Range(s.frames) = O /\ C \cup ImageClaims(d, image, Range(s.frames)) = C
  BY <1>2, <1>3
<1>5. Fits(s.m, D, O \cup Range(s.frames), C \cup ImageClaims(d, image, Range(s.frames)), clean)
  BY <1>2, <1>4, Zenon
<1>6. Range(s.frames) \cap O = {} /\ IsInjective(s.frames) /\ Len(s.frames) = 0
  BY <1>2, <1>3
<1>7. Loaded(s, 0, D, O, C, clean, d, image)
  BY <1>2, <1>3, <1>5, <1>6 DEF Loaded
<1> QED BY <1>7 DEF s

(* One page of load_elf.                                                   *)
LEMMA LoadPageLoaded ==
  ASSUME NEW D, NEW O, NEW C, NEW clean, NEW d \in D, NEW image \in Seq(Place),
         NEW k \in 0 .. Len(image) - 1,
         NEW s, Loaded(s, k, D, O, C, clean, d, image)
  PROVE  Loaded(LoadPage(s, d, image[k + 1]), k + 1, D, O, C, clean, d, image)
<1> DEFINE place == image[k + 1]
           e == place[1]
           p == place[2]
           f == Lowest(s.m)
           a == AllocFrame(s.m)
           n == MapPage(a, d, e, p, f)
           w == WriteThroughTemp(n, d, f)
           t == Append(s.frames, f)
           page == AllocPage(s, d, e, p)
           z == LoadPage(s, d, place)
           Q == O \cup Range(s.frames)
           B == C \cup ImageClaims(d, image, Range(s.frames))
           A == C \cup ImageClaims(d, image, Range(t))
<1>0. /\ k \in Nat /\ k + 1 \in DOMAIN image /\ place \in Place
      /\ MAX_USER_CODE_PAGES \in Nat
  BY Basics
<1>1. s \in Got /\ s.m \in Memory /\ s.frames \in Seq(Frames) /\ s.failed \in BOOLEAN
      /\ Len(s.frames) \in Nat
  BY DEF Loaded, Got
<1>2. Fits(s.m, D, Q, B, clean)
  BY DEF Loaded
<1>3. d \in Frames /\ e \in UserEntries /\ p \in Pages
  <2>1. d \in Frames
    BY <1>2 DEF Fits, Sound, Memory
  <2> HIDE DEF place
  <2> QED BY <1>0, <2>1, PlaceType
<1>4. z \in Got
  <2> HIDE DEF place, LoadPage
  <2> QED BY <1>0, <1>1, <1>3, LoadPageType
<1> HIDE DEF place
<1>5. CASE Len(s.frames) >= MAX_USER_CODE_PAGES \/ page.failed
  <2>1. z = [s EXCEPT !.failed = TRUE]
    BY <1>5 DEF LoadPage
  <2> HIDE DEF z
  <2>2. z.m = s.m /\ z.frames = s.frames /\ z.failed = TRUE
    BY <1>1, <2>1 DEF Got
  <2>3. Len(s.frames) <= k => Len(s.frames) <= k + 1
    BY <1>0, <1>1
  <2>4. Loaded(z, k + 1, D, O, C, clean, d, image)
    BY <1>4, <2>2, <2>3 DEF Loaded
  <2> QED BY <2>4 DEF z, place
<1>6. CASE ~(Len(s.frames) >= MAX_USER_CODE_PAGES \/ page.failed)
  <2>0. f # NONE /\ ~s.failed
    BY <1>6 DEF AllocPage
  <2>1. page = [m |-> n, frames |-> t, failed |-> FALSE]
    BY <2>0 DEF AllocPage
  <2>2. z = [page EXCEPT !.m = WriteThroughTemp(page.m, d, f)]
    <3> HIDE DEF page
    <3> QED BY <1>6 DEF LoadPage, page
  <2>3. z.m = w /\ z.frames = t /\ z.failed = FALSE
    <3> HIDE DEF n, t, z, page, f
    <3> QED BY <2>1, <2>2
  <2>4. Fits(a, D, Q \cup {f}, B, clean) /\ f \in Frames /\ f \notin Q
    <3> HIDE DEF Q, B
    <3> QED BY <1>2, <2>0, AllocFits
  <2> HIDE DEF f, a, z, page
  <2>5. Fits(n, D, Q \cup {f}, B \cup {<<d, e, p, f>>}, clean)
    <3> HIDE DEF Q, B, e, p
    <3> QED BY <1>3, <2>4, MapFits
  <2>6. Fits(w, D, Q \cup {f}, B \cup {<<d, e, p, f>>}, clean)
    <3> HIDE DEF Q, B, e, p, n
    <3> QED BY <2>4, <2>5, TempFits
  <2>7. Len(s.frames) = k /\ IsInjective(s.frames) /\ f \notin Range(s.frames)
    BY <2>0, <2>4 DEF Loaded
  <2>8. /\ t \in Seq(Frames) /\ Len(t) = k + 1
        /\ Range(t) = Range(s.frames) \cup {f}
        /\ IsInjective(t)
    <3> DEFINE r == s.frames
    <3>1. r \in Seq(Frames) /\ IsInjective(r) /\ f \notin Range(r) /\ Len(r) = k
      BY <1>1, <2>7
    <3> HIDE DEF r
    <3>2. /\ Append(r, f) \in Seq(Frames) /\ Len(Append(r, f)) = k + 1
          /\ Range(Append(r, f)) = Range(r) \cup {f}
          /\ IsInjective(Append(r, f))
      BY <2>4, <3>1, AppendOne
    <3> QED BY <3>2 DEF r
  <2> HIDE DEF t, w
  <2>9. B \cup {<<d, e, p, f>>} \subseteq A
    <3>1. <<d, e, p, f>> \in ImageClaims(d, image, Range(t))
      BY <1>0, <2>8 DEF ImageClaims, place
    <3>2. ImageClaims(d, image, Range(s.frames)) \subseteq ImageClaims(d, image, Range(t))
      BY <2>8 DEF ImageClaims
    <3> QED BY <3>1, <3>2
  <2>10. O \cup Range(t) = Q \cup {f}
    BY <2>8
  <2>11. Range(t) \cap O = {}
    BY <2>4, <2>8 DEF Loaded
  <2>12. Fits(w, D, Q \cup {f}, A, clean)
    <3> HIDE DEF Q, B, A, e, p
    <3> QED BY <2>6, <2>9, FitsMore
  <2> HIDE DEF Q, B
  <2>13. Fits(z.m, D, O \cup Range(z.frames), C \cup ImageClaims(d, image, Range(z.frames)), clean)
    BY <2>3, <2>10, <2>12, Zenon
  <2>14. Len(z.frames) = k + 1 /\ Len(z.frames) <= k + 1 /\ Len(z.frames) <= MAX_USER_CODE_PAGES
    BY <1>0, <1>6, <2>3, <2>7, <2>8
  <2>15. Loaded(z, k + 1, D, O, C, clean, d, image)
    BY <1>4, <2>3, <2>8, <2>11, <2>13, <2>14, Zenon DEF Loaded
  <2> QED BY <2>15 DEF z, place
<1> QED BY <1>5, <1>6

(* All rounds of AllocPages.                                               *)
LEMMA AllocPagesGrown ==
  ASSUME NEW m, NEW D, NEW O, NEW C, NEW clean, Fits(m, D, O, C, clean),
         NEW d \in D, NEW e \in UserEntries, NEW first \in Nat, NEW n \in Nat,
         \A k \in 0 .. n - 1 : first + k \in Pages
  PROVE  Grown(AllocPages(m, d, e, first, n), n, D, O, C, clean, d, e, first)
<1>1. m \in Memory /\ d \in Frames /\ e \in DirEntries
  <2>1. m \in Memory /\ d \in Frames
    BY DEF Fits, Sound, Memory
  <2> QED BY <2>1, Basics
<1>2. PICK g \in [0..n -> Got] :
        /\ g[0] = Begin(m)
        /\ \A i \in 1..n : g[i] = AllocPage(g[i-1], d, e, first + i - 1)
        /\ AllocPages(m, d, e, first, n) = g[n]
  <2> HIDE DEF AllocPages, AllocPage, Got, Begin
  <2> QED BY <1>1, AllocPagesRun
<1> DEFINE P == {k \in 0..n : Grown(g[k], k, D, O, C, clean, d, e, first)}
<1>3. 0 \in P
  <2>1. Grown(g[0], 0, D, O, C, clean, d, e, first)
    BY <1>2, GrownBegins
  <2> HIDE DEF Grown
  <2> QED BY <2>1
<1>4. ASSUME NEW k \in 0 .. n - 1, k \in P PROVE k + 1 \in P
  <2>1. k \in Nat /\ k + 1 \in 0..n /\ k + 1 \in 1..n /\ (k + 1) - 1 = k /\ first + (k + 1) - 1 = first + k
    OBVIOUS
  <2>2. g[k + 1] = AllocPage(g[k], d, e, first + k)
    BY <1>2, <2>1
  <2>3. Grown(g[k], k, D, O, C, clean, d, e, first)
    BY <1>4
  <2> DEFINE s == g[k]
  <2>4. Grown(AllocPage(s, d, e, first + k), k + 1, D, O, C, clean, d, e, first)
    <3>1. Grown(s, k, D, O, C, clean, d, e, first) /\ first + k \in Pages
      BY <2>3
    <3> HIDE DEF s, AllocPage
    <3> QED BY <2>1, <3>1, AllocPageGrown
  <2>5. Grown(g[k + 1], k + 1, D, O, C, clean, d, e, first)
    BY <2>2, <2>4
  <2> HIDE DEF Grown
  <2> QED BY <2>1, <2>5
<1>5. n \in 0..n
  OBVIOUS
<1>6. n \in P
  <2> HIDE DEF P
  <2> QED BY <1>3, <1>4, <1>5, LoopInduction
<1>7. Grown(g[n], n, D, O, C, clean, d, e, first)
  BY <1>6
<1> QED BY <1>2, <1>7

(* All of load_elf.                                                        *)
LEMMA LoadElfLoaded ==
  ASSUME NEW m, NEW D, NEW O, NEW C, NEW clean, Fits(m, D, O, C, clean),
         NEW d \in D, NEW image \in Seq(Place)
  PROVE  Loaded(LoadElf(m, d, image), Len(image), D, O, C, clean, d, image)
<1> DEFINE n == Len(image)
<1>1. m \in Memory /\ d \in Frames /\ n \in Nat
  BY DEF Fits, Sound, Memory
<1>2. PICK g \in [0..n -> Got] :
        /\ g[0] = Begin(m)
        /\ \A i \in 1..n : g[i] = LoadPage(g[i-1], d, image[i])
        /\ LoadElf(m, d, image) = g[n]
  <2> HIDE DEF LoadElf, LoadPage, Got, Begin
  <2> QED BY <1>1, LoadElfRun
<1> DEFINE P == {k \in 0..n : Loaded(g[k], k, D, O, C, clean, d, image)}
<1>3. 0 \in P
  <2>1. Loaded(g[0], 0, D, O, C, clean, d, image)
    BY <1>2, LoadedBegins
  <2> HIDE DEF Loaded
  <2> QED BY <1>1, <2>1
<1>4. ASSUME NEW k \in 0 .. n - 1, k \in P PROVE k + 1 \in P
  <2>1. k + 1 \in 0..n /\ k + 1 \in 1..n /\ (k + 1) - 1 = k
    BY <1>1
  <2>2. g[k + 1] = LoadPage(g[k], d, image[k + 1])
    BY <1>2, <2>1
  <2> DEFINE s == g[k]
  <2>3. Loaded(s, k, D, O, C, clean, d, image)
    BY <1>4
  <2>4. Loaded(LoadPage(s, d, image[k + 1]), k + 1, D, O, C, clean, d, image)
    <3> HIDE DEF s, LoadPage
    <3> QED BY <2>3, LoadPageLoaded
  <2>5. Loaded(g[k + 1], k + 1, D, O, C, clean, d, image)
    BY <2>2, <2>4
  <2> HIDE DEF Loaded
  <2> QED BY <2>1, <2>5
<1>5. n \in 0..n
  BY <1>1
<1>6. n \in P
  <2> HIDE DEF P
  <2> QED BY <1>1, <1>3, <1>4, <1>5, LoopInduction
<1>7. Loaded(g[n], n, D, O, C, clean, d, image)
  BY <1>6
<1> QED BY <1>2, <1>7

(* An image that is loaded: what it claims are the task's claims on its    *)
(* code, apart from the pages that cleanup will not look for.              *)
LEMMA ImageOfTask ==
  ASSUME NEW d, NEW image \in Seq(Place), NEW s \in Seq(Frames), Len(s) = Len(image)
  PROVE  ImageClaims(d, image, Range(s)) \subseteq CodeClaims(d, s) \cup StrayClaims(Strays(d, image))
<1> SUFFICES ASSUME NEW i \in DOMAIN image, NEW f \in Range(s)
             PROVE  <<d, image[i][1], image[i][2], f>>
                      \in CodeClaims(d, s) \cup StrayClaims(Strays(d, image))
  BY DEF ImageClaims
<1> DEFINE x == image[i]
<1>1. x \in Range(image) /\ x \in Place /\ f \in Frames /\ DOMAIN s = 1 .. Len(image) /\ Len(image) \in Nat
  <2>1. x \in Place /\ DOMAIN s = 1 .. Len(image) /\ Len(image) \in Nat
    <3> HIDE DEF Place
    <3> QED OBVIOUS
  <2>2. x \in Range(image)
    BY DEF Range
  <2>3. f \in Frames
    BY DEF Range
  <2> QED BY <2>1, <2>2, <2>3
<1>2. x = <<x[1], x[2]>> /\ x[2] \in Nat
  <2> HIDE DEF x
  <2>1. x[2] \in Pages /\ x = <<x[1], x[2]>>
    BY <1>1 DEF Place
  <2> QED BY <2>1, Basics
<1> HIDE DEF x
<1>3. CASE x \in {"code"} \X (0 .. Len(image) - 1)
  <2>1. x[1] = "code" /\ x[2] + 1 \in DOMAIN s /\ (x[2] + 1) - 1 = x[2]
    BY <1>1, <1>3
  <2>2. <<d, x[1], x[2], f>> \in CodeClaims(d, s)
    BY <2>1 DEF CodeClaims
  <2> QED BY <2>2 DEF x
<1>4. CASE x \notin {"code"} \X (0 .. Len(image) - 1)
  <2> DEFINE y == <<d, x[1], x[2]>>
  <2>1. y \in Strays(d, image)
    BY <1>1, <1>4 DEF Strays
  <2>2. y[1] = d /\ y[2] = x[1] /\ y[3] = x[2]
    OBVIOUS
  <2> HIDE DEF y
  <2>3. <<d, x[1], x[2], f>> \in StrayClaims(Strays(d, image))
    BY <1>1, <2>1, <2>2 DEF StrayClaims
  <2> QED BY <2>3 DEF x
<1> QED BY <1>3, <1>4

-----------------------------------------------------------------------------
(* What a task owns, as a set.                                             *)
LEMMA Joined ==
  ASSUME NEW S, NEW s \in Seq(S), NEW t \in Seq(S)
  PROVE  /\ s \o t \in Seq(S)
         /\ Range(s \o t) = Range(s) \cup Range(t)
         /\ IsInjective(s \o t) <=>
              IsInjective(s) /\ IsInjective(t) /\ Range(s) \cap Range(t) = {}
<1> DEFINE j == s \o t
           a == Len(s)
           b == Len(t)
<1>1. /\ j \in Seq(S) /\ a \in Nat /\ b \in Nat /\ Len(j) = a + b
      /\ DOMAIN s = 1..a /\ DOMAIN t = 1..b /\ DOMAIN j = 1 .. a + b
  OBVIOUS
<1>2. \A i \in 1..a : i \in 1 .. a + b /\ j[i] = s[i]
  BY <1>1
<1>3. \A i \in 1..b : a + i \in 1 .. a + b /\ j[a + i] = t[i]
  BY <1>1
<1>4. \A i \in 1 .. a + b : i \in 1..a \/ \E k \in 1..b : i = a + k
  <2> SUFFICES ASSUME NEW i \in 1 .. a + b, i \notin 1..a PROVE \E k \in 1..b : i = a + k
    OBVIOUS
  <2>1. i - a \in 1..b /\ i = a + (i - a)
    BY <1>1
  <2> QED BY <2>1
<1>5. \A i \in 1..a, k \in 1..b : i # a + k
  BY <1>1
<1>6. \A i, k \in 1..b : a + i = a + k => i = k
  BY <1>1
<1> HIDE DEF j, a, b
<1>7. Range(j) = Range(s) \cup Range(t)
  <2>1. ASSUME NEW x \in Range(j) PROVE x \in Range(s) \cup Range(t)
    <3>1. PICK i \in 1 .. a + b : x = j[i]
      BY <1>1 DEF Range
    <3>2. CASE i \in 1..a
      BY <1>1, <1>2, <3>1, <3>2 DEF Range
    <3>3. CASE \E k \in 1..b : i = a + k
      BY <1>1, <1>3, <3>1, <3>3 DEF Range
    <3> QED BY <1>4, <3>2, <3>3
  <2>2. ASSUME NEW x \in Range(s) \cup Range(t) PROVE x \in Range(j)
    BY <1>1, <1>2, <1>3 DEF Range
  <2> QED BY <2>1, <2>2
<1>8. IsInjective(j) => IsInjective(s) /\ IsInjective(t) /\ Range(s) \cap Range(t) = {}
  <2> SUFFICES ASSUME \A x, y \in DOMAIN j : j[x] = j[y] => x = y
               PROVE  IsInjective(s) /\ IsInjective(t) /\ Range(s) \cap Range(t) = {}
    BY DEF IsInjective
  <2>1. IsInjective(s)
    BY <1>1, <1>2 DEF IsInjective
  <2>2. IsInjective(t)
    BY <1>1, <1>3, <1>6 DEF IsInjective
  <2>3. Range(s) \cap Range(t) = {}
    <3> SUFFICES ASSUME NEW x \in 1..a, NEW y \in 1..b, s[x] = t[y] PROVE FALSE
      BY <1>1 DEF Range
    <3>1. j[x] = j[a + y] /\ x \in DOMAIN j /\ a + y \in DOMAIN j
      BY <1>1, <1>2, <1>3
    <3> QED BY <1>5, <3>1
  <2> QED BY <2>1, <2>2, <2>3
<1>9. IsInjective(s) /\ IsInjective(t) /\ Range(s) \cap Range(t) = {} => IsInjective(j)
  <2> SUFFICES ASSUME \A x, y \in 1..a : s[x] = s[y] => x = y,
                      \A x, y \in 1..b : t[x] = t[y] => x = y,
                      \A x \in 1..a, y \in 1..b : s[x] # t[y]
               PROVE  \A x, y \in DOMAIN j : j[x] = j[y] => x = y
    <3>1. /\ IsInjective(s) => \A x, y \in 1..a : s[x] = s[y] => x = y
          /\ IsInjective(t) => \A x, y \in 1..b : t[x] = t[y] => x = y
          /\ IsInjective(j) <=> \A x, y \in DOMAIN j : j[x] = j[y] => x = y
      BY <1>1 DEF IsInjective
    <3>2. Range(s) \cap Range(t) = {} => \A x \in 1..a, y \in 1..b : s[x] # t[y]
      BY <1>1 DEF Range
    <3> QED BY <3>1, <3>2, Zenon
  <2> SUFFICES ASSUME NEW x \in 1 .. a + b, NEW y \in 1 .. a + b, j[x] = j[y] PROVE x = y
    BY <1>1
  <2>1. CASE x \in 1..a
    BY <1>2, <1>3, <1>4, <2>1
  <2>2. CASE x \notin 1..a
    <3>1. PICK k \in 1..b : x = a + k
      BY <1>4, <2>2
    <3>2. j[x] = t[k]
      BY <1>3, <3>1
    <3>3. y \notin 1..a
      BY <1>2, <3>2
    <3>4. PICK l \in 1..b : y = a + l
      BY <1>4, <3>3
    <3>5. k = l
      BY <1>3, <3>2, <3>4
    <3> QED BY <3>1, <3>4, <3>5
  <2> QED BY <2>1, <2>2
<1> QED BY <1>1, <1>7, <1>8, <1>9 DEF j

(* The frames of a task, part by part, and when they are distinct.         *)
Maybe(f)  == IF f = NONE THEN {} ELSE {f}
Single(r) == IF r.type = "USER" THEN {r.paddr} ELSE {}

Apart(r) ==
  /\ IsInjective(r.code) /\ IsInjective(r.heap)
  /\ r.pd \notin Range(r.code) \cup Range(r.heap) \cup Maybe(r.stack) \cup Single(r)
  /\ Range(r.code) \cap (Range(r.heap) \cup Maybe(r.stack) \cup Single(r)) = {}
  /\ Range(r.heap) \cap (Maybe(r.stack) \cup Single(r)) = {}
  /\ Maybe(r.stack) \cap Single(r) = {}

(* Private is the list of these parts.                                     *)
LEMMA PrivateParts ==
  ASSUME NEW r \in Task
  PROVE  /\ Own(r) = {r.pd} \cup Range(r.code) \cup Range(r.heap) \cup Maybe(r.stack) \cup Single(r)
         /\ IsInjective(Private(r)) <=> Apart(r)
<1> DEFINE S == Frames \cup {NONE}
           a == <<r.pd>>
           b == r.code
           c == r.heap
           d == IF r.stack = NONE THEN <<>> ELSE <<r.stack>>
           e == IF r.type = "USER" THEN <<r.paddr>> ELSE <<>>
<1>1. a \in Seq(S) /\ Range(a) = {r.pd} /\ IsInjective(a)
  BY DEF Task, Range, IsInjective
<1>2. b \in Seq(S) /\ c \in Seq(S)
  <2>1. b \in Seq(Frames) /\ c \in Seq(Frames)
    BY DEF Task
  <2> QED BY <2>1
<1>3. d \in Seq(S) /\ Range(d) = Maybe(r.stack) /\ IsInjective(d)
  <2>1. r.stack \in S
    BY DEF Task
  <2>2. CASE r.stack = NONE
    <3>1. d = <<>> /\ Maybe(r.stack) = {}
      BY <2>2 DEF Maybe
    <3> QED BY <3>1 DEF Range, IsInjective
  <2>3. CASE r.stack # NONE
    <3>1. d = <<r.stack>> /\ Maybe(r.stack) = {r.stack}
      BY <2>3 DEF Maybe
    <3> HIDE DEF d
    <3> QED BY <2>1, <3>1 DEF Range, IsInjective
  <2> QED BY <2>2, <2>3
<1>4. e \in Seq(S) /\ Range(e) = Single(r) /\ IsInjective(e)
  <2>1. r.paddr \in S
    BY DEF Task
  <2>2. CASE r.type = "USER"
    <3>1. e = <<r.paddr>> /\ Single(r) = {r.paddr}
      BY <2>2 DEF Single
    <3> HIDE DEF e
    <3> QED BY <2>1, <3>1 DEF Range, IsInjective
  <2>3. CASE r.type # "USER"
    <3>1. e = <<>> /\ Single(r) = {}
      BY <2>3 DEF Single
    <3> QED BY <3>1 DEF Range, IsInjective
  <2> QED BY <2>2, <2>3
<1>5. Private(r) = (((a \o b) \o c) \o d) \o e
  BY DEF Private
<1> DEFINE ab == a \o b
           abc == ab \o c
           abcd == abc \o d
<1> HIDE DEF S, a, b, c, d, e
<1>6. ab \in Seq(S) /\ Range(ab) = {r.pd} \cup Range(b)
      /\ (IsInjective(ab) <=> IsInjective(b) /\ {r.pd} \cap Range(b) = {})
  BY <1>1, <1>2, Joined
<1> HIDE DEF ab
<1>7. abc \in Seq(S) /\ Range(abc) = Range(ab) \cup Range(c)
      /\ (IsInjective(abc) <=> IsInjective(ab) /\ IsInjective(c) /\ Range(ab) \cap Range(c) = {})
  BY <1>2, <1>6, Joined
<1> HIDE DEF abc
<1>8. abcd \in Seq(S) /\ Range(abcd) = Range(abc) \cup Range(d)
      /\ (IsInjective(abcd) <=> IsInjective(abc) /\ IsInjective(d) /\ Range(abc) \cap Range(d) = {})
  BY <1>3, <1>7, Joined
<1> HIDE DEF abcd
<1> DEFINE p == abcd \o e
<1>9. Range(p) = Range(abcd) \cup Range(e)
      /\ (IsInjective(p) <=> IsInjective(abcd) /\ IsInjective(e) /\ Range(abcd) \cap Range(e) = {})
  BY <1>4, <1>8, Joined
<1>10. Private(r) = p
  BY <1>5 DEF ab, abc, abcd
<1> HIDE DEF p
<1>11. Own(r) = {r.pd} \cup Range(r.code) \cup Range(r.heap) \cup Maybe(r.stack) \cup Single(r)
  BY <1>3, <1>4, <1>6, <1>7, <1>8, <1>9, <1>10 DEF Own, b, c
<1>12. IsInjective(Private(r)) <=> Apart(r)
  <2> DEFINE P == Range(r.code)
             Q == Range(r.heap)
             M == Maybe(r.stack)
             X == Single(r)
  <2>1. Range(ab) = {r.pd} \cup P /\ Range(abc) = {r.pd} \cup P \cup Q /\ Range(abcd) = {r.pd} \cup P \cup Q \cup M
    BY <1>3, <1>6, <1>7, <1>8 DEF b, c
  <2>2. IsInjective(Private(r)) <=>
          /\ IsInjective(r.code) /\ IsInjective(r.heap)
          /\ {r.pd} \cap P = {} /\ ({r.pd} \cup P) \cap Q = {}
          /\ ({r.pd} \cup P \cup Q) \cap M = {} /\ ({r.pd} \cup P \cup Q \cup M) \cap X = {}
    BY <1>3, <1>4, <1>6, <1>7, <1>8, <1>9, <1>10, <2>1 DEF b, c
  <2> HIDE DEF P, Q, M, X
  <2>3. Apart(r) <=>
          /\ IsInjective(r.code) /\ IsInjective(r.heap)
          /\ r.pd \notin P \cup Q \cup M \cup X
          /\ P \cap (Q \cup M \cup X) = {} /\ Q \cap (M \cup X) = {} /\ M \cap X = {}
    BY DEF Apart, P, Q, M, X
  <2> QED BY <2>2, <2>3
<1> QED BY <1>11, <1>12

-----------------------------------------------------------------------------
(* The task table.  What the tasks other than t own, claim, and have as    *)
(* directories.                                                            *)
Others(T, t)     == OwnersOf(T) \ {t}
Rest(T, t)       == {KERNEL_PDT} \cup UNION {Own(T[u]) : u \in Others(T, t)}
RestDirs(T, t)   == {KERNEL_PDT} \cup {T[u].pd : u \in Others(T, t)}
RestClaims(T, t, S) == StrayClaims(S) \cup UNION {Claims(T[u]) : u \in Others(T, t)}

(* Two entries of the table that own and claim the same.                   *)
SameUse(r, q) ==
  /\ r.state = "UNUSED" <=> q.state = "UNUSED"
  /\ r.type = q.type /\ r.pd = q.pd /\ r.stack = q.stack /\ r.paddr = q.paddr
  /\ r.code = q.code /\ r.heap = q.heap

(* They own and claim the same.                                            *)
LEMMA SameUseSame ==
  ASSUME NEW r, NEW q, SameUse(r, q)
  PROVE  Private(r) = Private(q) /\ Own(r) = Own(q) /\ Claims(r) = Claims(q) /\ r.pd = q.pd
BY DEF SameUse, Private, Own, Claims

(* The table is one task and the others.                                   *)
LEMMA OneAndOthers ==
  ASSUME NEW T, NEW t \in Tasks, NEW S
  PROVE  /\ T[t].state # "UNUSED" =>
              /\ AllOwned(T) = Rest(T, t) \cup Own(T[t])
              /\ Directories(T) = RestDirs(T, t) \cup {T[t].pd}
              /\ AllClaims(T, S) = RestClaims(T, t, S) \cup Claims(T[t])
         /\ T[t].state = "UNUSED" =>
              /\ AllOwned(T) = Rest(T, t)
              /\ Directories(T) = RestDirs(T, t)
              /\ AllClaims(T, S) = RestClaims(T, t, S)
<1>1. Directories(T) = {KERNEL_PDT} \cup {T[u].pd : u \in OwnersOf(T)}
  BY DEF Directories, OwnersOf
<1>2. ASSUME T[t].state # "UNUSED"
      PROVE  /\ AllOwned(T) = Rest(T, t) \cup Own(T[t])
             /\ Directories(T) = RestDirs(T, t) \cup {T[t].pd}
             /\ AllClaims(T, S) = RestClaims(T, t, S) \cup Claims(T[t])
  <2>1. t \in OwnersOf(T) /\ \A u \in OwnersOf(T) : u = t \/ u \in Others(T, t)
    BY <1>2 DEF OwnersOf, Others
  <2>2. \A u \in Others(T, t) : u \in OwnersOf(T)
    BY DEF Others
  <2> HIDE DEF OwnersOf, Others
  <2>3. AllOwned(T) = Rest(T, t) \cup Own(T[t])
    BY <2>1, <2>2 DEF AllOwned, Rest
  <2>4. Directories(T) = RestDirs(T, t) \cup {T[t].pd}
    BY <1>1, <2>1, <2>2 DEF RestDirs
  <2>5. AllClaims(T, S) = RestClaims(T, t, S) \cup Claims(T[t])
    BY <2>1, <2>2 DEF AllClaims, RestClaims
  <2> QED BY <2>3, <2>4, <2>5
<1>3. ASSUME T[t].state = "UNUSED"
      PROVE  /\ AllOwned(T) = Rest(T, t)
             /\ Directories(T) = RestDirs(T, t)
             /\ AllClaims(T, S) = RestClaims(T, t, S)
  <2>1. OwnersOf(T) = Others(T, t)
    BY <1>3 DEF OwnersOf, Others
  <2> HIDE DEF OwnersOf, Others
  <2> QED BY <1>1, <2>1 DEF AllOwned, Rest, RestDirs, AllClaims, RestClaims
<1> QED BY <1>2, <1>3, Zenon

(* No frame of a task is another's.                                        *)
LEMMA OwnNotRest ==
  ASSUME NEW T, NEW t \in Tasks, Exclusive(T), T[t].state # "UNUSED"
  PROVE  Own(T[t]) \cap Rest(T, t) = {}
<1>1. t \in OwnersOf(T) /\ \A u \in Others(T, t) : u \in OwnersOf(T) \ {t}
  BY DEF OwnersOf, Others
<1>2. KERNEL_PDT \notin Own(T[t]) /\ \A u \in Others(T, t) : Own(T[t]) \cap Own(T[u]) = {}
  <2> HIDE DEF OwnersOf, Others
  <2> QED BY <1>1 DEF Exclusive
<1> HIDE DEF Others
<1> QED BY <1>2 DEF Rest

(* The directories are among the frames that are owned.                    *)
LEMMA DirsOwned ==
  ASSUME NEW T, NEW t \in Tasks, \A u \in Tasks : T[u] \in Task
  PROVE  RestDirs(T, t) \subseteq Rest(T, t) /\ KERNEL_PDT \in RestDirs(T, t)
<1>1. ASSUME NEW u \in Others(T, t) PROVE T[u].pd \in Own(T[u])
  <2>1. T[u] \in Task
    BY DEF Others, OwnersOf
  <2> HIDE DEF Own
  <2> QED BY <2>1, PrivateParts
<1> HIDE DEF Others
<1> QED BY <1>1 DEF Rest, RestDirs

(* One task of the table is changed, and memory with it.                   *)
LEMMA TableChanges ==
  ASSUME NEW T, NEW U, NEW S, NEW t \in Tasks, NEW m, NEW clean, Exclusive(T),
         \A u \in Tasks \ {t} : SameUse(T[u], U[u]),
         U[t].state # "UNUSED",
         IsInjective(Private(U[t])), Own(U[t]) \cap Rest(T, t) = {},
         Fits(m, RestDirs(T, t) \cup {U[t].pd}, Rest(T, t) \cup Own(U[t]),
              RestClaims(T, t, S) \cup Claims(U[t]), clean)
  PROVE  Exclusive(U) /\ Fits(m, Directories(U), AllOwned(U), AllClaims(U, S), clean)
<1>1. ASSUME NEW u \in Tasks \ {t}
      PROVE  /\ u \in OwnersOf(U) <=> u \in OwnersOf(T)
             /\ Private(T[u]) = Private(U[u]) /\ Own(T[u]) = Own(U[u])
             /\ Claims(T[u]) = Claims(U[u]) /\ T[u].pd = U[u].pd
  <2>1. SameUse(T[u], U[u])
    OBVIOUS
  <2>2. u \in OwnersOf(U) <=> u \in OwnersOf(T)
    BY <2>1 DEF SameUse, OwnersOf
  <2> QED BY <2>1, <2>2, SameUseSame, Zenon
<1>2. OwnersOf(T) \subseteq Tasks /\ OwnersOf(U) \subseteq Tasks /\ t \in OwnersOf(U)
  BY DEF OwnersOf
<1>3. Others(T, t) = Others(U, t) /\ \A u \in Others(T, t) : u \in Tasks \ {t} /\ u \in OwnersOf(T)
  <2> HIDE DEF OwnersOf
  <2> QED BY <1>1, <1>2 DEF Others
<1> HIDE DEF OwnersOf, Others
<1>4. Rest(T, t) = Rest(U, t)
  BY <1>1, <1>3 DEF Rest
<1>5. RestDirs(T, t) = RestDirs(U, t)
  BY <1>1, <1>3 DEF RestDirs
<1>6. RestClaims(T, t, S) = RestClaims(U, t, S)
  BY <1>1, <1>3 DEF RestClaims
<1>7. /\ AllOwned(U) = Rest(U, t) \cup Own(U[t])
      /\ Directories(U) = RestDirs(U, t) \cup {U[t].pd}
      /\ AllClaims(U, S) = RestClaims(U, t, S) \cup Claims(U[t])
  BY OneAndOthers, Zenon
<1>8. Fits(m, Directories(U), AllOwned(U), AllClaims(U, S), clean)
  BY <1>4, <1>5, <1>6, <1>7, Zenon
<1>9. Exclusive(U)
  <2>1. \A u \in Others(T, t) : Own(U[t]) \cap Own(U[u]) = {}
    BY <1>1, <1>3 DEF Rest
  <2>2. KERNEL_PDT \notin Own(U[t])
    BY DEF Rest
  <2>3. ASSUME NEW u \in OwnersOf(U)
        PROVE  /\ IsInjective(Private(U[u])) /\ KERNEL_PDT \notin Own(U[u])
               /\ \A v \in OwnersOf(U) \ {u} : Own(U[u]) \cap Own(U[v]) = {}
    <3>1. CASE u = t
      <4>1. \A v \in OwnersOf(U) \ {u} : v \in Others(T, t)
        BY <1>1, <1>2, <3>1 DEF Others
      <4> QED BY <2>1, <2>2, <3>1, <4>1
    <3>2. CASE u # t
      <4>1. u \in OwnersOf(T) /\ u \in Others(T, t)
        BY <1>1, <1>2, <3>2 DEF Others
      <4>2. IsInjective(Private(U[u])) /\ KERNEL_PDT \notin Own(U[u])
        BY <1>1, <1>2, <3>2, <4>1 DEF Exclusive
      <4>3. ASSUME NEW v \in OwnersOf(U) \ {u} PROVE Own(U[u]) \cap Own(U[v]) = {}
        <5>1. CASE v = t
          BY <2>1, <4>1, <5>1
        <5>2. CASE v # t
          <6>1. v \in OwnersOf(T) \ {u} /\ Own(U[v]) = Own(T[v]) /\ Own(U[u]) = Own(T[u])
            BY <1>1, <1>2, <3>2, <5>2
          <6> QED BY <4>1, <6>1 DEF Exclusive
        <5> QED BY <5>1, <5>2
      <4> QED BY <4>2, <4>3
    <3> QED BY <3>1, <3>2
  <2> QED BY <2>3 DEF Exclusive
<1> QED BY <1>8, <1>9

(* A claim names its directory, entry and page.                            *)
LEMMA ClaimNames ==
  ASSUME NEW d, NEW e, NEW s, NEW b, NEW x, NEW q, NEW f, <<b, x, q, f>> \in PageClaims(d, e, 0, s)
  PROVE  b = d /\ x = e /\ q \in {0 + i - 1 : i \in DOMAIN s}
<1>1. PICK i \in DOMAIN s : <<b, x, q, f>> = <<d, e, 0 + i - 1, s[i]>>
  BY DEF PageClaims
<1> QED BY <1>1

(* So does one of code.                                                    *)
LEMMA CodeClaimNames ==
  ASSUME NEW d, NEW s, NEW b, NEW x, NEW q, NEW f, <<b, x, q, f>> \in CodeClaims(d, s)
  PROVE  b = d /\ x = "code" /\ q \in {0 + i - 1 : i \in DOMAIN s} /\ f \in Range(s)
<1>1. PICK i \in DOMAIN s, g \in Range(s) : <<b, x, q, f>> = <<d, "code", i - 1, g>>
  BY DEF CodeClaims
<1> QED BY <1>1

(* Frames at successive pages from the first on are among them.            *)
LEMMA PageInCode ==
  ASSUME NEW d, NEW s \in Seq(Frames)
  PROVE  PageClaims(d, "code", 0, s) \subseteq CodeClaims(d, s)
<1> SUFFICES ASSUME NEW i \in DOMAIN s PROVE <<d, "code", 0 + i - 1, s[i]>> \in CodeClaims(d, s)
  BY DEF PageClaims
<1>1. 0 + i - 1 = i - 1 /\ s[i] \in Range(s)
  BY DEF Range
<1> QED BY <1>1 DEF CodeClaims

(* task_cleanup_user_resources gives back what the process owns, save its  *)
(* directory, and its claims with it.                                      *)
LEMMA CleanupFits ==
  ASSUME NEW T, \A u \in Tasks : T[u] \in Task, NEW S, NEW t \in Tasks, NEW m, NEW clean,
         Exclusive(T), T[t].state # "UNUSED", T[t].type # "USER",
         Fits(m, Directories(T), AllOwned(T), AllClaims(T, S), clean)
  PROVE  Fits(CleanupMemory(m, T[t]), Directories(T), Rest(T, t) \cup {T[t].pd},
              RestClaims(T, t, S), clean)
<1> DEFINE r == T[t]
           D == Directories(T)
           R == Rest(T, t) \cup {r.pd}
           Pc == CodeClaims(r.pd, r.code)
           Ph == PageClaims(r.pd, "heap", 0, r.heap)
           Ps == IF r.stack = NONE THEN {} ELSE {<<r.pd, "stack", 0, r.stack>>}
           RC == RestClaims(T, t, S)
           code == Range(r.code)
           heap == Range(r.heap)
           m1 == IF r.stack = NONE THEN m ELSE ReleasePages(m, r.pd, "stack", 0, <<r.stack>>)
           m2 == ReleasePages(m1, r.pd, "code", 0, r.code)
           m3 == ReleasePages(m2, r.pd, "heap", 0, r.heap)
<1>1. r \in Task /\ r.pd \in D
  <2>1. r.pd \in D
    BY OneAndOthers, Zenon
  <2> QED BY <2>1
<1>2. /\ D = RestDirs(T, t) \cup {r.pd}
      /\ AllOwned(T) = Rest(T, t) \cup Own(r)
      /\ AllClaims(T, S) = RC \cup Claims(r)
  BY OneAndOthers, Zenon
<1>3. Claims(r) = Pc \cup Ph \cup Ps
  BY DEF Claims
<1>4. Own(r) = {r.pd} \cup code \cup heap \cup Maybe(r.stack) /\ Apart(r)
  <2>1. IsInjective(Private(r))
    BY DEF Exclusive, OwnersOf
  <2>2. Single(r) = {}
    BY DEF Single
  <2>3. Apart(r) /\ Own(r) = {r.pd} \cup Range(r.code) \cup Range(r.heap) \cup Maybe(r.stack) \cup Single(r)
    BY <1>1, <2>1, PrivateParts
  <2> QED BY <2>2, <2>3
<1>5. /\ r.pd \notin code \cup heap \cup Maybe(r.stack)
      /\ code \cap (heap \cup Maybe(r.stack)) = {} /\ heap \cap Maybe(r.stack) = {}
  BY <1>4 DEF Apart
<1>6. Own(r) \cap Rest(T, t) = {}
  BY OwnNotRest
<1>7. RestDirs(T, t) \subseteq Rest(T, t)
  BY DirsOwned
<1>8. {"code", "heap", "stack"} \subseteq UserEntries
  BY Basics
<1> DEFINE O0 == AllOwned(T)
           O1 == R \cup code \cup heap
           O2 == R \cup heap
           C0 == AllClaims(T, S)
           C1 == RC \cup Pc \cup Ph
           C2 == RC \cup Ph
<1>9. CleanupMemory(m, T[t]) = m3
  BY DEF CleanupMemory
<1> HIDE DEF D, RC, Pc, Ph, code, heap
<1>10. Fits(m1, D, O1, C1, clean)
  <2>1. CASE r.stack = NONE
    <3>1. m1 = m /\ Ps = {} /\ Maybe(r.stack) = {}
      BY <2>1 DEF Maybe
    <3>2. O0 = O1 /\ C0 = C1
      BY <1>2, <1>3, <1>4, <3>1
    <3>3. Fits(m, D, O0, C0, clean)
      BY DEF D
    <3> QED BY <3>1, <3>2, <3>3, Zenon
  <2>2. CASE r.stack # NONE
    <3> DEFINE s == <<r.stack>>
    <3>1. m1 = ReleasePages(m, r.pd, "stack", 0, s) /\ Ps = {<<r.pd, "stack", 0, r.stack>>}
          /\ Maybe(r.stack) = {r.stack}
      BY <2>2 DEF Maybe
    <3>2. Range(s) = {r.stack} /\ {0 + i - 1 : i \in DOMAIN s} = {0}
      BY DEF Range
    <3>3. ASSUME NEW b \in D, NEW x \in UserEntries, NEW q \in Pages, NEW f \in Frames, <<b, x, q, f>> \in C0
          PROVE  <<b, x, q, f>> \in C1
                 \/ (b = r.pd /\ x = "stack" /\ q \in {0 + i - 1 : i \in DOMAIN s})
      <4>1. <<b, x, q, f>> \in C1 \/ <<b, x, q, f>> = <<r.pd, "stack", 0, r.stack>>
        BY <1>2, <1>3, <3>1, <3>3
      <4>2. <<b, x, q, f>> = <<r.pd, "stack", 0, r.stack>> => b = r.pd /\ x = "stack" /\ q = 0
        OBVIOUS
      <4> HIDE DEF C1, s
      <4> QED BY <3>2, <4>1, <4>2
    <3>4. Range(s) \subseteq O0 /\ Range(s) \cap D = {} /\ O0 \ Range(s) = O1
      <4> HIDE DEF s
      <4> QED BY <1>2, <1>4, <1>5, <1>6, <1>7, <3>1, <3>2
    <3>5. Fits(m, D, O0, C0, clean)
      BY DEF D
    <3>6. Fits(ReleasePages(m, r.pd, "stack", 0, s), D, O0 \ Range(s), C1, clean)
      <4> HIDE DEF s, r, O0, C0, C1
      <4> QED BY <1>1, <1>8, <3>3, <3>4, <3>5, ReleaseFits
    <3> HIDE DEF s, O0, O1, m1
    <3> QED BY <3>1, <3>4, <3>6
  <2> QED BY <2>1, <2>2
<1> HIDE DEF m1
<1>11. Fits(m2, D, O2, C2, clean)
  <2>1. ASSUME NEW b \in D, NEW x \in UserEntries, NEW q \in Pages, NEW f \in Frames, <<b, x, q, f>> \in C1
        PROVE  <<b, x, q, f>> \in C2
               \/ (b = r.pd /\ x = "code" /\ q \in {0 + i - 1 : i \in DOMAIN r.code})
    <3>1. <<b, x, q, f>> \in C2 \/ <<b, x, q, f>> \in Pc
      BY <2>1
    <3>2. <<b, x, q, f>> \in Pc =>
            b = r.pd /\ x = "code" /\ q \in {0 + i - 1 : i \in DOMAIN r.code}
      <4> HIDE DEF r
      <4> QED BY CodeClaimNames DEF Pc
    <3> HIDE DEF C2
    <3> QED BY <3>1, <3>2
  <2>2. code \subseteq O1 /\ code \cap D = {} /\ O1 \ code = O2
    BY <1>2, <1>4, <1>5, <1>6, <1>7
  <2>3. Fits(ReleasePages(m1, r.pd, "code", 0, r.code), D, O1 \ code, C2, clean)
    <3> HIDE DEF r, O1, C1, C2
    <3> QED BY <1>1, <1>8, <1>10, <2>1, <2>2, ReleaseFits DEF code
  <2> HIDE DEF O1, O2, m1
  <2> QED BY <2>2, <2>3
<1> HIDE DEF m2
<1>12. Fits(m3, D, R, RC, clean)
  <2>1. ASSUME NEW b \in D, NEW x \in UserEntries, NEW q \in Pages, NEW f \in Frames, <<b, x, q, f>> \in C2
        PROVE  <<b, x, q, f>> \in RC
               \/ (b = r.pd /\ x = "heap" /\ q \in {0 + i - 1 : i \in DOMAIN r.heap})
    <3>1. <<b, x, q, f>> \in RC \/ <<b, x, q, f>> \in Ph
      BY <2>1
    <3>2. <<b, x, q, f>> \in Ph =>
            b = r.pd /\ x = "heap" /\ q \in {0 + i - 1 : i \in DOMAIN r.heap}
      <4> HIDE DEF r
      <4> QED BY ClaimNames DEF Ph
    <3> QED BY <3>1, <3>2
  <2>2. heap \subseteq O2 /\ heap \cap D = {} /\ O2 \ heap = R
    BY <1>2, <1>4, <1>5, <1>6, <1>7
  <2>3. Fits(ReleasePages(m2, r.pd, "heap", 0, r.heap), D, O2 \ heap, RC, clean)
    <3> HIDE DEF r, O2, C2
    <3> QED BY <1>1, <1>8, <1>11, <2>1, <2>2, ReleaseFits DEF heap
  <2> HIDE DEF O2, R
  <2> QED BY <2>2, <2>3
<1> QED BY <1>9, <1>12 DEF D, RC

-----------------------------------------------------------------------------
(* The steps.  What a call finds.                                          *)
LEMMA Now ==
  ASSUME Inv, mem.ok, NEW clean, clean <=> ~failed
  PROVE  /\ Fits(mem, Directories(task), AllOwned(task), AllClaims(task, stray), clean)
         /\ Sound(mem, Directories(task), AllOwned(task))
         /\ Exclusive(task) /\ \A u \in Tasks : task[u] \in Task
         /\ KERNEL_PDT \in Directories(task)
<1>1. Exclusive(task) /\ Fits(mem, Directories(task), AllOwned(task), AllClaims(task, stray), ~failed)
  BY DEF Inv, MemoryInv
<1>2. \A u \in Tasks : task[u] \in Task
  BY DEF Inv, TypeOK
<1>3. KERNEL_PDT \in Directories(task)
  BY DEF Directories
<1> HIDE DEF Task, Inv, Tasks
<1>4. Fits(mem, Directories(task), AllOwned(task), AllClaims(task, stray), clean)
      /\ Sound(mem, Directories(task), AllOwned(task))
  BY <1>1 DEF Fits
<1> QED BY <1>1, <1>2, <1>3, <1>4

(* task_alloc finds an entry.                                              *)
LEMMA NewTaskIsUnused ==
  ASSUME CanAlloc
  PROVE  NewTask \in Tasks /\ task[NewTask].state = "UNUSED"
<1> DEFINE S == {t \in Tasks : task[t].state = "UNUSED"}
<1>1. S \in SUBSET Nat /\ S # {}
  BY DEF CanAlloc, Tasks
<1>2. \E t \in S : \A u \in S : t <= u
  <2> HIDE DEF S
  <2> QED BY <1>1, LeastMember
<1>3. \E t \in Tasks : task[t].state = "UNUSED" /\ \A u \in Tasks : task[u].state = "UNUSED" => t <= u
  BY <1>2
<1> QED BY <1>3 DEF NewTask

(* A creation that fails.                                                  *)
LEMMA CreateFailsInv ==
  ASSUME Inv, mem.ok, CanAlloc, calls' \in 0..MAX_CALLS,
         NEW m, Sound(m, Directories(task), AllOwned(task)), CreateFails(m)
  PROVE  Inv'
<1>1. mem' = m /\ stacks' = stacks - 1 /\ failed' = TRUE /\ task' = task /\ stray' = stray
  BY DEF CreateFails
<1>2. stacks \in 0..TASK_MAX /\ stacks > 0 /\ TASK_MAX \in Nat
  BY Basics DEF Inv, TypeOK, CanAlloc
<1>3. stacks' \in 0..TASK_MAX /\ stacks' < TASK_MAX
  BY <1>1, <1>2
<1>4. m \in Memory
  BY DEF Sound
<1>5. TypeOK'
  <2> HIDE DEF Tasks, Task, Memory
  <2> QED BY <1>1, <1>3, <1>4 DEF Inv, TypeOK
<1>6. Exclusive(task')
  BY <1>1 DEF Inv, MemoryInv
<1>7. Fits(mem', Directories(task'), AllOwned(task'), AllClaims(task', stray'), ~failed')
  <2> HIDE DEF Sound
  <2>1. Sound(mem', Directories(task'), AllOwned(task'))
    BY <1>1
  <2> QED BY <1>1, <2>1 DEF Fits
<1>8. MemoryInv'
  BY <1>3, <1>6, <1>7 DEF MemoryInv
<1> QED BY <1>5, <1>8 DEF Inv

(* A task is made.                                                         *)
LEMMA TaskMade ==
  ASSUME Inv, mem.ok, CanAlloc, calls' \in 0..MAX_CALLS,
         NEW clean, clean <=> ~failed, NEW m, NEW r \in Task, r.state # "UNUSED",
         Len(r.code) <= MAX_USER_CODE_PAGES, Len(r.heap) <= MAX_USER_HEAP_PAGES,
         Apart(r), Own(r) \cap AllOwned(task) = {},
         Fits(m, Directories(task) \cup {r.pd}, AllOwned(task) \cup Own(r),
              AllClaims(task, stray) \cup Claims(r), clean),
         mem' = m, stacks' = stacks - 1, failed' = failed, stray' = stray,
         task' \in [Tasks -> Task], task'[NewTask] = r,
         \A u \in Tasks \ {NewTask} : SameUse(task[u], task'[u])
  PROVE  Inv'
<1> DEFINE T == task
           U == task'
           n == NewTask
<1>1. n \in Tasks /\ T[n].state = "UNUSED"
  BY NewTaskIsUnused
<1>2. stacks \in 0..TASK_MAX /\ stacks > 0 /\ TASK_MAX \in Nat
  BY Basics DEF Inv, TypeOK, CanAlloc
<1>3. stacks' \in 0..TASK_MAX /\ stacks' < TASK_MAX
  BY <1>2
<1>4. m \in Memory
  BY DEF Fits, Sound
<1>5. ASSUME NEW u \in Tasks
      PROVE  Len(U[u].code) <= MAX_USER_CODE_PAGES /\ Len(U[u].heap) <= MAX_USER_HEAP_PAGES
  <2>1. CASE u = n
    BY <2>1
  <2>2. CASE u # n
    <3>1. U[u].code = T[u].code /\ U[u].heap = T[u].heap
      BY <2>2 DEF SameUse
    <3> QED BY <3>1 DEF Inv, TypeOK
  <2> QED BY <2>1, <2>2
<1>6. TypeOK'
  <2>1. failed' \in BOOLEAN /\ stray' \subseteq Frames \X UserEntries \X Pages
    BY DEF Inv, TypeOK
  <2> HIDE DEF Tasks, Task, Memory
  <2> QED BY <1>3, <1>4, <1>5, <2>1 DEF TypeOK
<1>7. AllOwned(T) = Rest(T, n) /\ Directories(T) = RestDirs(T, n) /\ AllClaims(T, stray) = RestClaims(T, n, stray)
  BY <1>1, OneAndOthers, Zenon
<1>8. Exclusive(T)
  BY DEF Inv, MemoryInv
<1>9. Exclusive(U) /\ Fits(m, Directories(U), AllOwned(U), AllClaims(U, stray), clean)
  <2>1. IsInjective(Private(r))
    BY PrivateParts
  <2>2. U[n] = r /\ \A u \in Tasks \ {n} : SameUse(T[u], U[u])
    OBVIOUS
  <2>3. Own(r) \cap Rest(T, n) = {}
    BY <1>7
  <2>4. Fits(m, RestDirs(T, n) \cup {r.pd}, Rest(T, n) \cup Own(r), RestClaims(T, n, stray) \cup Claims(r), clean)
    BY <1>7, Zenon
  <2> HIDE DEF T, U, n
  <2> QED BY <1>1, <1>8, <2>1, <2>2, <2>3, <2>4, TableChanges
<1>10. MemoryInv'
  <2>1. Fits(mem', Directories(task'), AllOwned(task'), AllClaims(task', stray'), ~failed')
    BY <1>9 DEF Fits
  <2> HIDE DEF Fits, Exclusive
  <2> QED BY <1>3, <1>9, <2>1 DEF MemoryInv
<1> QED BY <1>6, <1>10 DEF Inv

(* A task changes what it owns.                                            *)
LEMMA TaskChanged ==
  ASSUME Inv, mem.ok, calls' \in 0..MAX_CALLS, failed' \in BOOLEAN,
         NEW clean, clean <=> ~failed', NEW m, NEW t \in Tasks, task[t].state # "UNUSED",
         NEW r \in Task, r.state # "UNUSED",
         Len(r.code) <= MAX_USER_CODE_PAGES, Len(r.heap) <= MAX_USER_HEAP_PAGES,
         Apart(r), Own(r) \cap Rest(task, t) = {},
         Fits(m, RestDirs(task, t) \cup {r.pd}, Rest(task, t) \cup Own(r),
              RestClaims(task, t, stray') \cup Claims(r), clean),
         mem' = m, stacks' = stacks, task' = [task EXCEPT ![t] = r],
         stray' \subseteq Frames \X UserEntries \X Pages
  PROVE  Inv'
<1> DEFINE T == task
           U == task'
<1>1. T \in [Tasks -> Task]
  BY DEF Inv, TypeOK
<1>2. U \in [Tasks -> Task] /\ U[t] = r /\ \A u \in Tasks \ {t} : U[u] = T[u]
  <2> HIDE DEF Tasks, Task
  <2> QED BY <1>1
<1>3. m \in Memory
  BY DEF Fits, Sound
<1>4. ASSUME NEW u \in Tasks
      PROVE  Len(U[u].code) <= MAX_USER_CODE_PAGES /\ Len(U[u].heap) <= MAX_USER_HEAP_PAGES
  <2>1. CASE u = t
    BY <1>2, <2>1
  <2>2. CASE u # t
    <3>1. U[u] = T[u]
      BY <1>2, <2>2
    <3> QED BY <3>1 DEF Inv, TypeOK
  <2> QED BY <2>1, <2>2
<1>5. TypeOK'
  <2>1. stacks' \in 0..TASK_MAX
    BY DEF Inv, TypeOK
  <2> HIDE DEF Tasks, Task, Memory
  <2> QED BY <1>2, <1>3, <1>4, <2>1 DEF TypeOK
<1>6. Exclusive(T)
  BY DEF Inv, MemoryInv
<1>7. Exclusive(U) /\ Fits(m, Directories(U), AllOwned(U), AllClaims(U, stray'), clean)
  <2>1. IsInjective(Private(r))
    BY PrivateParts
  <2>2. \A u \in Tasks \ {t} : SameUse(T[u], U[u])
    BY <1>2 DEF SameUse
  <2>3. /\ U[t] = r /\ Own(r) \cap Rest(T, t) = {}
        /\ Fits(m, RestDirs(T, t) \cup {r.pd}, Rest(T, t) \cup Own(r),
                RestClaims(T, t, stray') \cup Claims(r), clean)
    BY <1>2
  <2> HIDE DEF T, U
  <2> QED BY <1>6, <2>1, <2>2, <2>3, TableChanges
<1>8. MemoryInv'
  <2>1. Fits(mem', Directories(task'), AllOwned(task'), AllClaims(task', stray'), ~failed')
    BY <1>7 DEF Fits
  <2>2. stacks' < TASK_MAX
    <3>1. t \in OwnersOf(task)
      BY DEF OwnersOf
    <3> QED BY <3>1 DEF Inv, MemoryInv
  <2> HIDE DEF Fits, Exclusive
  <2> QED BY <1>7, <2>1, <2>2 DEF MemoryInv
<1> QED BY <1>5, <1>8 DEF Inv

(* vmm_clone_kernel_mappings, also when it finds no frame.                 *)
LEMMA CloneSound ==
  ASSUME NEW m, NEW D, NEW O, Sound(m, D, O), NEW c \in D
  PROVE  /\ Sound(CloneKernelMappings(m, c), D, O)
         /\ Lowest(m) = NONE => CloneKernelMappings(m, c) = m
<1>1. CASE Lowest(m) = NONE
  BY <1>1 DEF CloneKernelMappings
<1>2. CASE Lowest(m) # NONE
  <2>1. Fits(m, D, O, {}, FALSE)
    BY DEF Fits
  <2>2. Fits(CloneKernelMappings(m, c), D \cup {Lowest(m)}, O \cup {Lowest(m)}, {}, FALSE)
    BY <1>2, <2>1, CloneFits
  <2>3. Sound(CloneKernelMappings(m, c), D \cup {Lowest(m)}, O \cup {Lowest(m)})
    BY <2>2 DEF Fits
  <2>4. KERNEL_PDT \in D /\ D \subseteq O
    BY DEF Sound
  <2> HIDE DEF Sound
  <2> QED BY <1>2, <2>3, <2>4, SoundForLess
<1> QED BY <1>1, <1>2

(* The entry task_create_user makes, and what the task owns and claims.    *)
UserTask(pd, stack, code) ==
  [Unused EXCEPT !.state = "LIVE", !.pd = pd, !.stack = stack, !.paddr = code]

IsUserTask(r, pd, stack, code) ==
  /\ r \in Task /\ r.state # "UNUSED" /\ r.pd = pd
  /\ Len(r.code) <= MAX_USER_CODE_PAGES /\ Len(r.heap) <= MAX_USER_HEAP_PAGES
  /\ Own(r) = {pd, stack, code} /\ Apart(r)
  /\ Claims(r) = {<<pd, "stack", 0, stack>>, <<pd, "code", 0, code>>}

(* An entry nobody uses.                                                   *)
LEMMA UnusedEntry ==
  /\ Unused \in Task /\ Unused.state = "UNUSED" /\ Unused.type = "USER"
  /\ Unused.code = <<>> /\ Unused.heap = <<>> /\ Unused.children = {}
  /\ Unused.pd = NONE /\ Unused.stack = NONE /\ Unused.paddr = NONE
<1>1. <<>> \in Seq(Frames) /\ {} \in SUBSET Tasks
  OBVIOUS
<1> QED BY <1>1 DEF Unused, Task

(* A directory, a stack and a page of code, all different.                 *)
LEMMA UserTaskUse ==
  ASSUME NEW pd \in Frames, NEW stack \in Frames, NEW code \in Frames,
         pd # stack, pd # code, stack # code
  PROVE  IsUserTask(UserTask(pd, stack, code), pd, stack, code)
<1> DEFINE r == UserTask(pd, stack, code)
<1>1. /\ r.state = "LIVE" /\ r.type = "USER" /\ r.pd = pd /\ r.stack = stack /\ r.paddr = code
      /\ r.code = <<>> /\ r.heap = <<>> /\ r.children = {}
  BY UnusedEntry DEF UserTask, Task
<1>2. r \in Task
  BY UnusedEntry DEF UserTask, Task
<1> HIDE DEF r
<1>3. stack # NONE
  BY Basics
<1>4. Maybe(r.stack) = {stack} /\ Single(r) = {code}
  BY <1>1, <1>3 DEF Maybe, Single
<1>5. Range(<<>>) = {} /\ IsInjective(<<>>) /\ (\A d, e : PageClaims(d, e, 0, <<>>) = {})
      /\ \A d : CodeClaims(d, <<>>) = {}
  BY DEF Range, IsInjective, PageClaims, CodeClaims
<1>6. Own(r) = {pd, stack, code}
  <2> HIDE DEF Own
  <2>1. Own(r) = {r.pd} \cup Range(r.code) \cup Range(r.heap) \cup Maybe(r.stack) \cup Single(r)
    BY <1>2, PrivateParts
  <2> QED BY <1>1, <1>4, <1>5, <2>1
<1>7. Apart(r)
  BY <1>1, <1>4, <1>5 DEF Apart
<1>8. Claims(r) = {<<pd, "stack", 0, stack>>, <<pd, "code", 0, code>>}
  BY <1>1, <1>3, <1>5 DEF Claims
<1>9. Len(r.code) <= MAX_USER_CODE_PAGES /\ Len(r.heap) <= MAX_USER_HEAP_PAGES
  BY <1>1, Basics
<1>10. IsUserTask(r, pd, stack, code)
  BY <1>1, <1>2, <1>6, <1>7, <1>8, <1>9 DEF IsUserTask
<1> QED BY <1>10 DEF r

(* task_create_user.                                                       *)
LEMMA TaskCreateUserInv ==
  ASSUME Inv, calls' \in 0..MAX_CALLS, TaskCreateUser, NEW clean, clean <=> ~failed
  PROVE  Inv'
<1> DEFINE D == Directories(task)
           O == AllOwned(task)
           C == AllClaims(task, stray)
           pd == Lowest(mem)
           m1 == CloneKernelMappings(mem, KERNEL_PDT)
           stack == Lowest(m1)
           m2 == AllocFrame(m1)
           code == Lowest(m2)
           m3 == AllocFrame(m2)
           m4 == WriteThroughTemp(m3, KERNEL_PDT, code)
           m5 == MapPage(m4, pd, "stack", 0, stack)
           m6 == MapPage(m5, pd, "code", 0, code)
           r == UserTask(pd, stack, code)
<1>1. mem.ok /\ CanAlloc
  BY DEF TaskCreateUser
<1>2. IF code = NONE THEN CreateFails(m3) ELSE CreateSucceeds(m6, r)
  BY DEF TaskCreateUser, UserTask
<1>3. Fits(mem, D, O, C, clean) /\ Sound(mem, D, O) /\ KERNEL_PDT \in D /\ mem \in Memory
  <2>1. Fits(mem, D, O, C, clean) /\ Sound(mem, D, O) /\ KERNEL_PDT \in D
    BY <1>1, Now
  <2> QED BY <2>1 DEF Sound
<1> HIDE DEF D, O, C
<1>4. Sound(m1, D, O) /\ (pd = NONE => m1 = mem)
  BY <1>3, CloneSound
<1>5. m1 \in Memory /\ m2 \in Memory /\ Sound(m2, D, O) /\ Sound(m3, D, O)
  <2>1. m1 \in Memory
    BY <1>4 DEF Sound
  <2> HIDE DEF m1
  <2>2. Sound(m2, D, O)
    BY <1>4, AllocSound
  <2>3. m2 \in Memory
    BY <2>2 DEF Sound
  <2> HIDE DEF m2
  <2>4. Sound(m3, D, O)
    BY <2>2, AllocSound
  <2> QED BY <2>1, <2>2, <2>3, <2>4
<1>6. CASE code = NONE
  <2>1. CreateFails(m3)
    BY <1>2, <1>6
  <2> HIDE DEF m3
  <2> QED BY <1>1, <1>5, <2>1, CreateFailsInv DEF D, O
<1>7. CASE code # NONE
  <2>1. stack # NONE
    <3> HIDE DEF m1
    <3> QED BY <1>5, <1>7, StillNone
  <2>2. pd # NONE
    BY <1>4, <2>1
  <2>3. Fits(m1, D \cup {pd}, O \cup {pd}, C, clean) /\ pd \in Frames /\ pd \notin O
    <3> HIDE DEF Lowest, CloneKernelMappings
    <3> QED BY <1>3, <2>2, CloneFits
  <2> HIDE DEF pd, m1
  <2>4. /\ Fits(m2, D \cup {pd}, (O \cup {pd}) \cup {stack}, C, clean)
        /\ stack \in Frames /\ stack \notin O \cup {pd}
    BY <2>1, <2>3, AllocFits
  <2> HIDE DEF stack, m2
  <2>5. /\ Fits(m3, D \cup {pd}, ((O \cup {pd}) \cup {stack}) \cup {code}, C, clean)
        /\ code \in Frames /\ code \notin (O \cup {pd}) \cup {stack}
    BY <1>7, <2>4, AllocFits
  <2> HIDE DEF code, m3
  <2> DEFINE E == D \cup {pd}
             Q == ((O \cup {pd}) \cup {stack}) \cup {code}
  <2>6. pd \in E /\ KERNEL_PDT \in E /\ "stack" \in UserEntries /\ "code" \in UserEntries /\ 0 \in Pages
    BY <1>3, Basics
  <2> HIDE DEF E, Q
  <2>7. Fits(m3, E, Q, C, clean)
    BY <2>5 DEF E, Q
  <2>8. Fits(m4, E, Q, C, clean)
    BY <2>5, <2>6, <2>7, TempFits
  <2> HIDE DEF m4
  <2>9. Fits(m5, E, Q, C \cup {<<pd, "stack", 0, stack>>}, clean)
    BY <2>4, <2>6, <2>8, MapFits
  <2> HIDE DEF m5
  <2>10. Fits(m6, E, Q, (C \cup {<<pd, "stack", 0, stack>>}) \cup {<<pd, "code", 0, code>>}, clean)
    BY <2>5, <2>6, <2>9, MapFits
  <2> HIDE DEF m6
  <2>11. /\ r \in Task /\ r.state # "UNUSED" /\ r.pd = pd
         /\ Len(r.code) <= MAX_USER_CODE_PAGES /\ Len(r.heap) <= MAX_USER_HEAP_PAGES
         /\ Own(r) = {pd, stack, code} /\ Apart(r)
         /\ Claims(r) = {<<pd, "stack", 0, stack>>, <<pd, "code", 0, code>>}
    <3>1. pd # stack /\ pd # code /\ stack # code
      BY <2>4, <2>5
    <3>2. IsUserTask(r, pd, stack, code)
      BY <2>3, <2>4, <2>5, <3>1, UserTaskUse
    <3> QED BY <3>2 DEF IsUserTask
  <2>12. CreateSucceeds(m6, r)
    BY <1>2, <1>7
  <2> HIDE DEF r
  <2>13. Q = O \cup Own(r) /\ Own(r) \cap O = {}
    BY <2>3, <2>4, <2>5, <2>11 DEF Q
  <2>14. (C \cup {<<pd, "stack", 0, stack>>}) \cup {<<pd, "code", 0, code>>} = C \cup Claims(r)
    BY <2>11
  <2>15. Fits(m6, D \cup {r.pd}, O \cup Own(r), C \cup Claims(r), clean)
    BY <2>10, <2>11, <2>13, <2>14, Zenon DEF E
  <2>16. mem' = m6 /\ stacks' = stacks - 1 /\ failed' = failed /\ stray' = stray /\ task' = [task EXCEPT ![NewTask] = r]
    BY <2>12 DEF CreateSucceeds
  <2>17. task \in [Tasks -> Task] /\ NewTask \in Tasks
    BY <1>1, NewTaskIsUnused DEF Inv, TypeOK
  <2>18. /\ task' \in [Tasks -> Task] /\ task'[NewTask] = r
         /\ \A u \in Tasks \ {NewTask} : SameUse(task[u], task'[u])
    <3> HIDE DEF Tasks, Task, NewTask
    <3> QED BY <2>11, <2>16, <2>17 DEF SameUse
  <2> QED BY <1>1, <2>11, <2>13, <2>15, <2>16, <2>18, TaskMade DEF D, O, C
<1> QED BY <1>6, <1>7

(* What a process with a stack owns and claims.                            *)
LEMMA ProcessUse ==
  ASSUME NEW r \in Task, r.type = "USER_PROCESS", r.stack # NONE
  PROVE  /\ Own(r) = {r.pd, r.stack} \cup Range(r.code) \cup Range(r.heap)
         /\ Claims(r) = CodeClaims(r.pd, r.code) \cup PageClaims(r.pd, "heap", 0, r.heap)
                          \cup {<<r.pd, "stack", 0, r.stack>>}
         /\ /\ IsInjective(r.code) /\ IsInjective(r.heap) /\ r.pd # r.stack
            /\ {r.pd, r.stack} \cap (Range(r.code) \cup Range(r.heap)) = {}
            /\ Range(r.code) \cap Range(r.heap) = {}
            => Apart(r)
<1>1. Maybe(r.stack) = {r.stack} /\ Single(r) = {}
  BY DEF Maybe, Single
<1>2. Own(r) = {r.pd, r.stack} \cup Range(r.code) \cup Range(r.heap)
  <2> HIDE DEF Own
  <2>1. Own(r) = {r.pd} \cup Range(r.code) \cup Range(r.heap) \cup Maybe(r.stack) \cup Single(r)
    BY PrivateParts
  <2> QED BY <1>1, <2>1
<1>3. Claims(r) = CodeClaims(r.pd, r.code) \cup PageClaims(r.pd, "heap", 0, r.heap)
                    \cup {<<r.pd, "stack", 0, r.stack>>}
  BY DEF Claims
<1>4. /\ IsInjective(r.code) /\ IsInjective(r.heap) /\ r.pd # r.stack
      /\ {r.pd, r.stack} \cap (Range(r.code) \cup Range(r.heap)) = {}
      /\ Range(r.code) \cap Range(r.heap) = {}
      => Apart(r)
  BY <1>1 DEF Apart
<1> QED BY <1>2, <1>3, <1>4

(* No frames.                                                              *)
LEMMA NoFrames ==
  /\ Range(<<>>) = {} /\ IsInjective(<<>>) /\ Len(<<>>) = 0
  /\ \A d, e : PageClaims(d, e, 0, <<>>) = {}
  /\ \A d : CodeClaims(d, <<>>) = {}
BY DEF Range, IsInjective, PageClaims, CodeClaims

(* The entry task_create_user_from_binary makes.                           *)
ProcessTask(pd, stack, paddr, code) ==
  [Unused EXCEPT !.state = "LIVE", !.type = "USER_PROCESS",
                 !.pd = pd, !.stack = stack, !.paddr = paddr, !.code = code]

IsProcessTask(r, pd, stack, code) ==
  /\ r \in Task /\ r.state # "UNUSED" /\ r.type = "USER_PROCESS"
  /\ r.pd = pd /\ r.stack = stack /\ r.code = code /\ r.heap = <<>>

(* Its fields.                                                             *)
LEMMA ProcessTaskUse ==
  ASSUME NEW pd \in Frames, NEW stack \in Frames, NEW paddr \in Frames, NEW code \in Seq(Frames)
  PROVE  IsProcessTask(ProcessTask(pd, stack, paddr, code), pd, stack, code)
BY UnusedEntry DEF ProcessTask, IsProcessTask, Task

(* task_create_user_from_binary.                                           *)
LEMMA TaskCreateUserFromBinaryInv ==
  ASSUME Inv, calls' \in 0..MAX_CALLS, NEW n \in 1..MAX_USER_CODE_PAGES,
         TaskCreateUserFromBinary(n), NEW clean, clean <=> ~failed
  PROVE  Inv'
<1> DEFINE D == Directories(task)
           O == AllOwned(task)
           C == AllClaims(task, stray)
           pd == Lowest(mem)
           m1 == CloneKernelMappings(mem, KERNEL_PDT)
           stack == Lowest(m1)
           m2 == AllocFrame(m1)
           m3 == MapPage(m2, pd, "stack", 0, stack)
           bin == AllocPages(m3, pd, "code", 0, n)
           stub == Lowest(bin.m)
           fr == bin.frames
           m4 == AllocFrame(bin.m)
           m5 == MapPage(m4, pd, "code", n, stub)
           r == ProcessTask(pd, stack, Head(fr), Append(fr, stub))
<1>1. mem.ok /\ CanAlloc
  BY DEF TaskCreateUserFromBinary
<1>2. IF stack = NONE THEN CreateFails(m2)
      ELSE IF n + 1 > MAX_USER_CODE_PAGES THEN CreateFails(FreeFrames(m3, {stack}))
      ELSE IF bin.failed \/ stub = NONE
      THEN CreateFails(FreeFrames(bin.m, {stack} \cup Range(fr)))
      ELSE CreateSucceeds(m5, r)
  <2> HIDE DEF AllocPages, MapPage, AllocFrame, Lowest, FreeFrames, CreateFails, CreateSucceeds, CloneKernelMappings
  <2> QED BY DEF TaskCreateUserFromBinary, ProcessTask
<1>3. Fits(mem, D, O, C, clean) /\ Sound(mem, D, O) /\ KERNEL_PDT \in D
  BY <1>1, Now
<1> HIDE DEF D, O, C
<1>4. Sound(m1, D, O) /\ (pd = NONE => m1 = mem) /\ D \subseteq O
  <2>1. Sound(m1, D, O) /\ (pd = NONE => m1 = mem)
    BY <1>3, CloneSound
  <2>2. D \subseteq O
    BY <1>3 DEF Sound
  <2> QED BY <2>1, <2>2
<1>5. CASE stack = NONE
  <2> HIDE DEF m1
  <2>1. Sound(m2, D, O)
    BY <1>4, AllocSound
  <2>2. CreateFails(m2)
    BY <1>2, <1>5
  <2> HIDE DEF m2
  <2> QED BY <1>1, <2>1, <2>2, CreateFailsInv DEF D, O
<1>6. CASE stack # NONE
  <2>1. pd # NONE
    BY <1>4, <1>6
  <2>2. Fits(m1, D \cup {pd}, O \cup {pd}, C, clean) /\ pd \in Frames /\ pd \notin O
    <3> HIDE DEF Lowest, CloneKernelMappings
    <3> QED BY <1>3, <2>1, CloneFits
  <2> HIDE DEF pd, m1
  <2>3. /\ Fits(m2, D \cup {pd}, (O \cup {pd}) \cup {stack}, C, clean)
        /\ stack \in Frames /\ stack \notin O \cup {pd}
    BY <1>6, <2>2, AllocFits
  <2> HIDE DEF stack, m2
  <2> DEFINE E == D \cup {pd}
             Q == (O \cup {pd}) \cup {stack}
             B == C \cup {<<pd, "stack", 0, stack>>}
  <2>4. pd \in E /\ KERNEL_PDT \in D /\ "stack" \in UserEntries /\ "code" \in UserEntries /\ 0 \in Pages
    BY <1>3, Basics
  <2>5. Fits(m3, E, Q, B, clean)
    <3> HIDE DEF E, Q
    <3>1. Fits(m2, E, Q, C, clean)
      BY <2>3 DEF E, Q
    <3> QED BY <2>3, <2>4, <3>1, MapFits
  <2> HIDE DEF m3
  <2>6. CASE n + 1 > MAX_USER_CODE_PAGES
    <3> DEFINE F == {stack}
               z == FreeFrames(m3, F)
    <3>1. F \subseteq Q /\ F \cap E = {}
      BY <1>4, <2>3
    <3>2. Fits(z, E, Q \ F, B, clean)
      <4> HIDE DEF F, E, Q, B
      <4> QED BY <2>5, <3>1, FreeFits
    <3>3. CreateFails(z)
      BY <1>2, <1>6, <2>6
    <3> HIDE DEF z
    <3>4. D \subseteq E /\ O \subseteq Q \ F
      BY <2>3
    <3>5. Sound(z, D, O)
      <4>1. Sound(z, E, Q \ F)
        BY <3>2 DEF Fits
      <4> HIDE DEF E, Q, F
      <4> QED BY <1>4, <2>4, <3>4, <4>1, SoundForLess
    <3> QED BY <1>1, <3>3, <3>5, CreateFailsInv DEF D, O
  <2>7. n \in Nat /\ (\A k \in 0 .. n - 1 : 0 + k \in Pages)
        /\ (~(n + 1 > MAX_USER_CODE_PAGES) => n \in Pages /\ n + 1 <= MAX_USER_CODE_PAGES)
    BY Basics DEF Pages
  <2>8. Grown(bin, n, E, Q, B, clean, pd, "code", 0)
    <3> HIDE DEF E, Q, B, AllocPages
    <3> QED BY <2>4, <2>5, <2>7, AllocPagesGrown
  <2> HIDE DEF bin
  <2>9. /\ bin.m \in Memory /\ fr \in Seq(Frames) /\ IsInjective(fr) /\ Range(fr) \cap Q = {}
        /\ ~bin.failed => Len(fr) = n
        /\ Fits(bin.m, E, Q \cup Range(fr), B \cup PageClaims(pd, "code", 0, fr), clean)
    <3> HIDE DEF E, Q, B
    <3> QED BY <2>8 DEF Grown, Got
  <2> HIDE DEF fr
  <2>10. CASE ~(n + 1 > MAX_USER_CODE_PAGES) /\ (bin.failed \/ stub = NONE)
    <3> DEFINE F == {stack} \cup Range(fr)
               z == FreeFrames(bin.m, F)
               P == Q \cup Range(fr)
    <3>1. F \subseteq P /\ F \cap E = {} /\ O \subseteq P \ F /\ D \subseteq E
      BY <1>4, <2>3, <2>9
    <3>2. Fits(z, E, P \ F, B \cup PageClaims(pd, "code", 0, fr), clean)
      <4>1. Fits(bin.m, E, P, B \cup PageClaims(pd, "code", 0, fr), clean)
        BY <2>9
      <4> HIDE DEF F, E, P, B
      <4> QED BY <4>1, <3>1, FreeFits
    <3>3. CreateFails(z)
      BY <1>2, <1>6, <2>10
    <3> HIDE DEF z
    <3>4. Sound(z, D, O)
      <4>1. Sound(z, E, P \ F)
        BY <3>2 DEF Fits
      <4> HIDE DEF E, P, F
      <4> QED BY <1>4, <2>4, <3>1, <4>1, SoundForLess
    <3> QED BY <1>1, <3>3, <3>4, CreateFailsInv DEF D, O
  <2>11. CASE ~(n + 1 > MAX_USER_CODE_PAGES) /\ ~(bin.failed \/ stub = NONE)
    <3> DEFINE P == Q \cup Range(fr)
               A == B \cup PageClaims(pd, "code", 0, fr)
               code == Append(fr, stub)
    <3>1. Fits(m4, E, P \cup {stub}, A, clean) /\ stub \in Frames /\ stub \notin P
      <4>1. Fits(bin.m, E, P, A, clean)
        BY <2>9
      <4> HIDE DEF E, P, A
      <4> QED BY <2>11, <4>1, AllocFits
    <3> HIDE DEF stub, m4
    <3>2. Fits(m5, E, P \cup {stub}, A \cup {<<pd, "code", n, stub>>}, clean)
      <4> HIDE DEF E, P, A
      <4> QED BY <2>4, <2>7, <2>11, <3>1, MapFits
    <3> HIDE DEF m5
    <3>3. /\ code \in Seq(Frames) /\ Len(code) = n + 1 /\ Range(code) = Range(fr) \cup {stub}
          /\ IsInjective(code) /\ Head(fr) \in Frames
      <4>1. stub \notin Range(fr) /\ Len(fr) = n /\ n # 0
        BY <2>9, <2>11, <3>1
      <4>2. Head(fr) \in Frames
        BY <2>9, <4>1
      <4> QED BY <2>9, <3>1, <4>1, <4>2, AppendOne
    <3>4. PageClaims(pd, "code", 0, code) = PageClaims(pd, "code", 0, fr) \cup {<<pd, "code", n, stub>>}
      <4>1. Len(fr) = n /\ 0 + n = n /\ 0 \in Nat
        BY <2>9, <2>11
      <4>2. PageClaims(pd, "code", 0, code)
              = PageClaims(pd, "code", 0, fr) \cup {<<pd, "code", 0 + Len(fr), stub>>}
        BY <2>9, <3>1, <4>1, AppendClaim
      <4> HIDE DEF code
      <4> QED BY <4>1, <4>2
    <3> DEFINE h == Head(fr)
    <3>5. r = ProcessTask(pd, stack, h, code) /\ CreateSucceeds(m5, r)
      BY <1>2, <1>6, <2>11
    <3>6. h \in Frames
      BY <3>3
    <3> HIDE DEF r, code, h
    <3>7. /\ r \in Task /\ r.state # "UNUSED" /\ r.type = "USER_PROCESS"
          /\ r.pd = pd /\ r.stack = stack /\ r.code = code /\ r.heap = <<>>
      BY <2>2, <2>3, <3>3, <3>5, <3>6, ProcessTaskUse DEF IsProcessTask
    <3>8. stack # NONE
      BY <2>3, Basics
    <3>9. /\ Own(r) = {pd, stack} \cup Range(code) \cup Range(<<>>)
          /\ Claims(r) = CodeClaims(pd, code) \cup PageClaims(pd, "heap", 0, <<>>)
                           \cup {<<pd, "stack", 0, stack>>}
          /\ /\ IsInjective(code) /\ IsInjective(<<>>) /\ pd # stack
             /\ {pd, stack} \cap (Range(code) \cup Range(<<>>)) = {}
             /\ Range(code) \cap Range(<<>>) = {}
             => Apart(r)
      BY <3>7, <3>8, ProcessUse
    <3>10. Apart(r)
      <4>1. {pd, stack} \cap Range(code) = {} /\ pd # stack
        BY <2>3, <2>9, <3>1, <3>3
      <4> QED BY <3>3, <3>9, <4>1, NoFrames
    <3>11. P \cup {stub} = O \cup Own(r) /\ Own(r) \cap O = {}
      BY <2>2, <2>3, <2>9, <3>1, <3>3, <3>9, NoFrames
    <3>12. A \cup {<<pd, "code", n, stub>>} \subseteq C \cup Claims(r)
      <4>1. PageClaims(pd, "code", 0, code) \subseteq CodeClaims(pd, code)
        BY <3>3, PageInCode
      <4> QED BY <3>4, <3>9, <4>1, NoFrames
    <3>13. Fits(m5, D \cup {r.pd}, O \cup Own(r), C \cup Claims(r), clean)
      <4>1. E = D \cup {r.pd}
        BY <3>7
      <4> HIDE DEF E, P, A
      <4>2. Fits(m5, E, P \cup {stub}, C \cup Claims(r), clean)
        BY <3>2, <3>12, FitsMore
      <4> QED BY <3>11, <4>1, <4>2, Zenon
    <3>14. mem' = m5 /\ stacks' = stacks - 1 /\ failed' = failed /\ stray' = stray /\ task' = [task EXCEPT ![NewTask] = r]
      BY <3>5 DEF CreateSucceeds
    <3>15. task \in [Tasks -> Task] /\ NewTask \in Tasks
      BY <1>1, NewTaskIsUnused DEF Inv, TypeOK
    <3>16. /\ task' \in [Tasks -> Task] /\ task'[NewTask] = r
           /\ \A u \in Tasks \ {NewTask} : SameUse(task[u], task'[u])
      <4> HIDE DEF Tasks, Task, NewTask
      <4> QED BY <3>7, <3>14, <3>15 DEF SameUse
    <3>17. Len(r.code) <= MAX_USER_CODE_PAGES /\ Len(r.heap) <= MAX_USER_HEAP_PAGES
      BY <2>7, <2>11, <3>3, <3>7, NoFrames, Basics
    <3> QED BY <1>1, <3>7, <3>10, <3>11, <3>13, <3>14, <3>16, <3>17, TaskMade DEF D, O, C
  <2> QED BY <2>6, <2>10, <2>11
<1> QED BY <1>5, <1>6

-----------------------------------------------------------------------------
(* A task that makes a system call.                                        *)
LEMMA Caller ==
  ASSUME Inv, NEW t \in Tasks, Process(t)
  PROVE  /\ mem.ok /\ task[t] \in Task /\ task[t].state = "LIVE" /\ task[t].type = "USER_PROCESS"
         /\ Len(task[t].code) <= MAX_USER_CODE_PAGES /\ Len(task[t].heap) <= MAX_USER_HEAP_PAGES
         /\ task[t].pd \in Directories(task)
         /\ Directories(task) \subseteq AllOwned(task)
<1>1. mem.ok /\ task[t].state = "LIVE" /\ task[t].type = "USER_PROCESS"
  BY DEF Process, Executes
<1>2. /\ task[t] \in Task
      /\ Len(task[t].code) <= MAX_USER_CODE_PAGES /\ Len(task[t].heap) <= MAX_USER_HEAP_PAGES
  BY DEF Inv, TypeOK
<1>3. task[t].pd \in Directories(task)
  BY <1>1 DEF Directories
<1>4. Directories(task) \subseteq AllOwned(task)
  BY <1>1 DEF Inv, MemoryInv, Fits, Sound
<1> QED BY <1>1, <1>2, <1>3, <1>4

(* The entry of a child: the caller's, with frames of its own.             *)
Child(r, pd, stack, code, heap) ==
  [r EXCEPT !.pd = pd, !.stack = stack, !.code = code, !.heap = heap, !.children = {}]

IsChild(c, r, pd, stack, code, heap) ==
  /\ c \in Task /\ c.state = r.state /\ c.type = r.type
  /\ c.pd = pd /\ c.stack = stack /\ c.code = code /\ c.heap = heap

(* Its fields.                                                             *)
LEMMA ChildUse ==
  ASSUME NEW r \in Task, NEW pd \in Frames, NEW stack \in Frames,
         NEW code \in Seq(Frames), NEW heap \in Seq(Frames)
  PROVE  IsChild(Child(r, pd, stack, code, heap), r, pd, stack, code, heap)
<1>1. {} \in SUBSET Tasks
  OBVIOUS
<1> QED BY <1>1 DEF Child, IsChild, Task

(* sys_fork.                                                               *)
LEMMA SysForkInv ==
  ASSUME Inv, calls' \in 0..MAX_CALLS, NEW t \in Tasks, SysFork(t), NEW clean, clean <=> ~failed
  PROVE  Inv'
<1> DEFINE D == Directories(task)
           O == AllOwned(task)
           C == AllClaims(task, stray)
           r == task[t]
           pd == Lowest(mem)
           m1 == CloneKernelMappings(mem, r.pd)
           code == AllocPages(m1, pd, "code", 0, Len(r.code))
           cf == code.frames
           stack == Lowest(code.m)
           a == AllocFrame(code.m)
           m2 == MapPage(a, pd, "stack", 0, stack)
           heap == AllocPages(m2, pd, "heap", 0, Len(r.heap))
           hf == heap.frames
           freed == FreeFrames(heap.m, {stack} \cup Range(cf))
           c == Child(r, pd, stack, cf, hf)
<1>1. Process(t) /\ CanAlloc
  BY DEF SysFork
<1>2. IF pd = NONE THEN CreateFails(mem)
      ELSE IF code.failed THEN CreateFails(FreeFrames(code.m, Range(cf)))
      ELSE IF stack = NONE THEN CreateFails(ReleasePages(code.m, pd, "code", 0, cf))
      ELSE IF heap.failed THEN CreateFails(ReleasePages(freed, pd, "heap", 0, hf))
      ELSE /\ mem' = heap.m
           /\ stacks' = stacks - 1
           /\ task' = [task EXCEPT ![NewTask] = c, ![t].children = @ \cup {NewTask}]
           /\ failed' = failed /\ stray' = stray
  <2> HIDE DEF AllocPages, MapPage, AllocFrame, Lowest, FreeFrames, CreateFails, ReleasePages, CloneKernelMappings, NewTask
  <2> QED BY DEF SysFork, Child
<1>3. /\ mem.ok /\ r \in Task /\ r.state = "LIVE" /\ r.type = "USER_PROCESS"
      /\ Len(r.code) <= MAX_USER_CODE_PAGES /\ Len(r.heap) <= MAX_USER_HEAP_PAGES
      /\ r.pd \in D /\ D \subseteq O
  BY <1>1, Caller
<1>4. Fits(mem, D, O, C, clean) /\ Sound(mem, D, O) /\ KERNEL_PDT \in D
  BY <1>3, Now
<1>5. Len(r.code) \in Nat /\ Len(r.heap) \in Nat
  BY <1>3 DEF Task
<1>6. /\ \A k \in 0 .. Len(r.code) - 1 : 0 + k \in Pages
      /\ \A k \in 0 .. Len(r.heap) - 1 : 0 + k \in Pages
      /\ 0 \in Nat
  <2> HIDE DEF r
  <2>1. MAX_USER_CODE_PAGES \in Nat /\ MAX_USER_HEAP_PAGES \in Nat
    BY Basics
  <2>2. ASSUME NEW n \in Nat, n <= MAX_USER_CODE_PAGES \/ n <= MAX_USER_HEAP_PAGES
        PROVE  \A k \in 0 .. n - 1 : 0 + k \in Pages
    BY <2>1, <2>2 DEF Pages
  <2> QED BY <1>3, <1>5, <2>2
<1>7. {"code", "heap", "stack"} \subseteq UserEntries /\ 0 \in Pages
  BY Basics
<1> HIDE DEF D, O, C
<1>8. CASE pd = NONE
  <2>1. CreateFails(mem)
    BY <1>2, <1>8
  <2> QED BY <1>1, <1>3, <1>4, <2>1, CreateFailsInv DEF D, O
<1>9. CASE pd # NONE
  <2> DEFINE E == D \cup {pd}
             Q1 == O \cup {pd}
  <2>1. Fits(m1, E, Q1, C, clean) /\ pd \in Frames /\ pd \notin O
    <3> HIDE DEF Lowest, CloneKernelMappings, r
    <3> QED BY <1>3, <1>4, <1>9, CloneFits
  <2> HIDE DEF pd, m1
  <2>2. pd \in E /\ KERNEL_PDT \in D /\ D \subseteq E /\ E \subseteq Q1 /\ O \subseteq Q1
    BY <1>3, <1>4
  <2>3. Grown(code, Len(r.code), E, Q1, C, clean, pd, "code", 0)
    <3> HIDE DEF E, Q1, AllocPages
    <3> QED BY <1>5, <1>6, <1>7, <2>1, <2>2, AllocPagesGrown
  <2> HIDE DEF code
  <2> DEFINE Q2 == Q1 \cup Range(cf)
             C2 == C \cup PageClaims(pd, "code", 0, cf)
  <2>4. /\ code.m \in Memory /\ cf \in Seq(Frames) /\ IsInjective(cf) /\ Range(cf) \cap Q1 = {}
        /\ ~code.failed => Len(cf) = Len(r.code)
        /\ Fits(code.m, E, Q2, C2, clean)
    <3> HIDE DEF E, Q1, r
    <3> QED BY <2>3 DEF Grown, Got
  <2> HIDE DEF cf
  <2>5. Range(cf) \subseteq Q2 /\ Range(cf) \cap E = {} /\ O \subseteq Q2 \ Range(cf)
    BY <2>2, <2>4
  <2>6. CASE code.failed
    <3> DEFINE F == Range(cf)
               z == FreeFrames(code.m, F)
    <3>1. Fits(z, E, Q2 \ F, C2, clean)
      <4> HIDE DEF E, Q2, C2, F
      <4>1. F \subseteq Q2 /\ F \cap E = {}
        BY <2>5 DEF F
      <4> QED BY <2>4, <4>1, FreeFits
    <3>2. CreateFails(z)
      BY <1>2, <1>9, <2>6
    <3> HIDE DEF z
    <3>3. Sound(z, D, O)
      <4>1. Sound(z, E, Q2 \ F) /\ D \subseteq E /\ O \subseteq Q2 \ F
        BY <2>2, <2>5, <3>1 DEF Fits
      <4> HIDE DEF E, Q2, F
      <4> QED BY <1>3, <1>4, <4>1, SoundForLess
    <3> QED BY <1>1, <1>3, <3>2, <3>3, CreateFailsInv DEF D, O
  <2>7. CASE ~code.failed /\ stack = NONE
    <3> DEFINE z == ReleasePages(code.m, pd, "code", 0, cf)
    <3>1. Fits(z, E, Q2 \ Range(cf), C2, clean)
      <4> HIDE DEF E, Q2, C2
      <4> QED BY <1>7, <2>2, <2>4, <2>5, ReleaseFits
    <3>2. CreateFails(z)
      BY <1>2, <1>9, <2>7
    <3> HIDE DEF z
    <3>3. Sound(z, D, O)
      <4>1. Sound(z, E, Q2 \ Range(cf)) /\ D \subseteq E /\ O \subseteq Q2 \ Range(cf)
        BY <2>2, <2>5, <3>1 DEF Fits
      <4> HIDE DEF E, Q2
      <4> QED BY <1>3, <1>4, <4>1, SoundForLess
    <3> QED BY <1>1, <1>3, <3>2, <3>3, CreateFailsInv DEF D, O
  <2>8. CASE ~code.failed /\ stack # NONE
    <3> DEFINE Q3 == Q2 \cup {stack}
               C3 == C2 \cup {<<pd, "stack", 0, stack>>}
    <3>1. Fits(a, E, Q3, C2, clean) /\ stack \in Frames /\ stack \notin Q2
      <4> HIDE DEF E, Q2, C2
      <4> QED BY <2>4, <2>8, AllocFits
    <3> HIDE DEF stack, a
    <3>2. Fits(m2, E, Q3, C3, clean)
      <4> HIDE DEF E, Q3, C2
      <4> QED BY <1>7, <2>2, <3>1, MapFits
    <3> HIDE DEF m2
    <3>3. Grown(heap, Len(r.heap), E, Q3, C3, clean, pd, "heap", 0)
      <4> HIDE DEF E, Q3, C3, AllocPages
      <4> QED BY <1>5, <1>6, <1>7, <2>2, <3>2, AllocPagesGrown
    <3> HIDE DEF heap
    <3> DEFINE Q4 == Q3 \cup Range(hf)
               C4 == C3 \cup PageClaims(pd, "heap", 0, hf)
    <3>4. /\ heap.m \in Memory /\ hf \in Seq(Frames) /\ IsInjective(hf) /\ Range(hf) \cap Q3 = {}
          /\ ~heap.failed => Len(hf) = Len(r.heap)
          /\ Fits(heap.m, E, Q4, C4, clean)
      <4> HIDE DEF E, Q3, C3, r
      <4> QED BY <3>3 DEF Grown, Got
    <3> HIDE DEF hf
    <3>5. CASE heap.failed
      <4> DEFINE F == {stack} \cup Range(cf)
                 z == ReleasePages(freed, pd, "heap", 0, hf)
                 Q5 == Q4 \ F
                 Q6 == Q5 \ Range(hf)
      <4>1. F \subseteq Q4 /\ F \cap E = {}
        BY <2>2, <2>5, <3>1
      <4>2. Fits(freed, E, Q5, C4, clean)
        <5> HIDE DEF E, Q4, C4, F
        <5>1. freed = FreeFrames(heap.m, F)
          BY DEF F
        <5> HIDE DEF freed
        <5>2. Fits(FreeFrames(heap.m, F), E, Q4 \ F, C4, clean)
          BY <3>4, <4>1, FreeFits
        <5> QED BY <5>1, <5>2
      <4> HIDE DEF freed
      <4>3. Range(hf) \subseteq Q5 /\ Range(hf) \cap E = {} /\ O \subseteq Q6
        BY <2>1, <2>2, <2>4, <3>1, <3>4
      <4>4. Fits(z, E, Q6, C4, clean)
        <5> HIDE DEF E, Q5, C4
        <5> QED BY <1>7, <2>2, <4>2, <4>3, ReleaseFits
      <4>5. CreateFails(z)
        BY <1>2, <1>9, <2>8, <3>5
      <4> HIDE DEF z
      <4>6. Sound(z, D, O)
        <5>1. Sound(z, E, Q6) /\ D \subseteq E
          BY <2>2, <4>4 DEF Fits
        <5> HIDE DEF E, Q6
        <5> QED BY <1>3, <1>4, <4>3, <5>1, SoundForLess
      <4> QED BY <1>1, <1>3, <4>5, <4>6, CreateFailsInv DEF D, O
    <3>6. CASE ~heap.failed
      <4>1. /\ mem' = heap.m /\ stacks' = stacks - 1 /\ failed' = failed /\ stray' = stray
            /\ task' = [task EXCEPT ![NewTask] = c, ![t].children = @ \cup {NewTask}]
        BY <1>2, <1>9, <2>8, <3>6
      <4>2. /\ c \in Task /\ c.state = "LIVE" /\ c.type = "USER_PROCESS"
            /\ c.pd = pd /\ c.stack = stack /\ c.code = cf /\ c.heap = hf
        BY <1>3, <2>1, <2>4, <3>1, <3>4, ChildUse DEF IsChild
      <4> HIDE DEF c
      <4>3. stack # NONE
        BY <3>1, Basics
      <4>4. /\ Own(c) = {pd, stack} \cup Range(cf) \cup Range(hf)
            /\ Claims(c) = CodeClaims(pd, cf) \cup PageClaims(pd, "heap", 0, hf)
                             \cup {<<pd, "stack", 0, stack>>}
            /\ /\ IsInjective(cf) /\ IsInjective(hf) /\ pd # stack
               /\ {pd, stack} \cap (Range(cf) \cup Range(hf)) = {}
               /\ Range(cf) \cap Range(hf) = {}
               => Apart(c)
        BY <4>2, <4>3, ProcessUse
      <4>5. Apart(c)
        <5>1. {pd, stack} \cap (Range(cf) \cup Range(hf)) = {} /\ pd # stack /\ Range(cf) \cap Range(hf) = {}
          BY <2>4, <3>1, <3>4
        <5> QED BY <2>4, <3>4, <4>4, <5>1
      <4>6. Q4 = O \cup Own(c) /\ Own(c) \cap O = {}
        BY <2>1, <2>4, <3>1, <3>4, <4>4
      <4>7. C4 \subseteq C \cup Claims(c)
        <5>1. PageClaims(pd, "code", 0, cf) \subseteq CodeClaims(pd, cf)
          BY <2>4, PageInCode
        <5> QED BY <4>4, <5>1
      <4>8. Fits(heap.m, D \cup {c.pd}, O \cup Own(c), C \cup Claims(c), clean)
        <5>1. E = D \cup {c.pd}
          BY <4>2
        <5> HIDE DEF E, Q4, C4
        <5>2. Fits(heap.m, E, Q4, C \cup Claims(c), clean)
          BY <3>4, <4>7, FitsMore
        <5> QED BY <4>6, <5>1, <5>2, Zenon
      <4>9. task \in [Tasks -> Task] /\ NewTask \in Tasks /\ NewTask # t
        BY <1>1, <1>3, NewTaskIsUnused DEF Inv, TypeOK
      <4>10. /\ task' \in [Tasks -> Task] /\ task'[NewTask] = c
             /\ \A u \in Tasks \ {NewTask} : SameUse(task[u], task'[u])
        <5> DEFINE n == NewTask
                   k == [r EXCEPT !.children = @ \cup {n}]
        <5>1. k \in Task /\ SameUse(r, k)
          BY <1>3, <4>9 DEF Task, SameUse
        <5>2. task' = [task EXCEPT ![n] = c, ![t] = k]
          <6> HIDE DEF n
          <6>1. n # t
            BY <4>9 DEF n
          <6> QED BY <4>1, <4>9, <6>1 DEF n
        <5>3. n \in Tasks /\ n # t
          BY <4>9
        <5> HIDE DEF Tasks, Task, n, k
        <5>4. /\ task' \in [Tasks -> Task] /\ task'[n] = c /\ task'[t] = k
              /\ \A u \in Tasks \ {n, t} : task'[u] = task[u]
          BY <4>2, <4>9, <5>1, <5>2, <5>3
        <5>5. ASSUME NEW u \in Tasks \ {n} PROVE SameUse(task[u], task'[u])
          <6>1. CASE u = t
            BY <5>1, <5>4, <6>1
          <6>2. CASE u # t
            <7>1. task'[u] = task[u]
              BY <5>4, <6>2
            <7> QED BY <7>1 DEF SameUse
          <6> QED BY <6>1, <6>2
        <5> QED BY <5>4, <5>5 DEF n
      <4>11. Len(c.code) <= MAX_USER_CODE_PAGES /\ Len(c.heap) <= MAX_USER_HEAP_PAGES
        BY <1>3, <2>4, <2>8, <3>4, <3>6, <4>2
      <4> QED BY <1>1, <1>3, <4>1, <4>2, <4>5, <4>6, <4>8, <4>10, <4>11, TaskMade DEF D, O, C
    <3> QED BY <3>5, <3>6
  <2> QED BY <2>6, <2>7, <2>8
<1> QED BY <1>8, <1>9

(* What task_cleanup_user_resources leaves to a process.                   *)
LEMMA CleanedUse ==
  ASSUME NEW r \in Task, r.type = "USER_PROCESS", NEW paddr \in Frames \cup {NONE},
         NEW c, c = [CleanupTask(r) EXCEPT !.paddr = paddr]
  PROVE  /\ c \in Task /\ c.state = r.state /\ c.type = r.type /\ c.pd = r.pd
         /\ c.stack = NONE /\ c.code = <<>> /\ c.heap = <<>> /\ c.children = r.children
         /\ Own(c) = {r.pd} /\ Apart(c) /\ Claims(c) = {}
<1>1. <<>> \in Seq(Frames)
  OBVIOUS
<1>2. /\ c \in Task /\ c.state = r.state /\ c.type = r.type /\ c.pd = r.pd
      /\ c.stack = NONE /\ c.code = <<>> /\ c.heap = <<>> /\ c.children = r.children
  BY <1>1 DEF CleanupTask, Task
<1>3. Maybe(c.stack) = {} /\ Single(c) = {}
  BY <1>2 DEF Maybe, Single
<1>4. Own(c) = {r.pd}
  <2> HIDE DEF Own
  <2>1. Own(c) = {c.pd} \cup Range(c.code) \cup Range(c.heap) \cup Maybe(c.stack) \cup Single(c)
    BY <1>2, PrivateParts
  <2> QED BY <1>2, <1>3, <2>1, NoFrames
<1>5. Apart(c)
  BY <1>2, <1>3, NoFrames DEF Apart
<1>6. Claims(c) = {}
  BY <1>2, NoFrames DEF Claims
<1> QED BY <1>2, <1>4, <1>5, <1>6

(* An exec that fails leaves a process with its directory and nothing else. *)
LEMMA ExecFailsInv ==
  ASSUME Inv, calls' \in 0..MAX_CALLS, NEW t \in Tasks, Process(t),
         NEW m, Sound(m, Directories(task), Rest(task, t) \cup {task[t].pd}),
         NEW paddr \in Frames \cup {NONE}, ExecFails(t, m, paddr)
  PROVE  Inv'
<1> DEFINE r == [CleanupTask(task[t]) EXCEPT !.paddr = paddr]
<1>1. /\ mem.ok /\ task[t] \in Task /\ task[t].state = "LIVE" /\ task[t].type = "USER_PROCESS"
  BY Caller
<1>2. mem' = m /\ task' = [task EXCEPT ![t] = r] /\ failed' = TRUE /\ stacks' = stacks
      /\ stray' = stray /\ stray' \subseteq Frames \X UserEntries \X Pages
  <2>1. stray \subseteq Frames \X UserEntries \X Pages
    BY DEF Inv, TypeOK
  <2>2. task' = [task EXCEPT ![t] = r]
    <3> HIDE DEF CleanupTask
    <3> QED BY DEF ExecFails
  <2> QED BY <2>1, <2>2 DEF ExecFails
<1>9. r = [CleanupTask(task[t]) EXCEPT !.paddr = paddr]
  OBVIOUS
<1> HIDE DEF r
<1>3. /\ r \in Task /\ r.state = "LIVE" /\ r.pd = task[t].pd
      /\ r.code = <<>> /\ r.heap = <<>> /\ Own(r) = {task[t].pd} /\ Apart(r)
  <2> DEFINE q == task[t]
  <2>1. q \in Task /\ q.type = "USER_PROCESS" /\ q.state = "LIVE"
        /\ r = [CleanupTask(q) EXCEPT !.paddr = paddr]
    BY <1>1, <1>9
  <2> HIDE DEF q
  <2>2. /\ r \in Task /\ r.state = "LIVE" /\ r.pd = q.pd
        /\ r.code = <<>> /\ r.heap = <<>> /\ Own(r) = {q.pd} /\ Apart(r)
    BY <2>1, CleanedUse
  <2> QED BY <2>2 DEF q
<1>4. Own(r) \cap Rest(task, t) = {}
  <2>1. Exclusive(task)
    BY <1>1 DEF Inv, MemoryInv
  <2>2. Own(task[t]) \cap Rest(task, t) = {}
    BY <1>1, <2>1, OwnNotRest
  <2>3. task[t].pd \in Own(task[t])
    <3> HIDE DEF Own
    <3> QED BY <1>1, PrivateParts
  <2> QED BY <1>3, <2>2, <2>3
<1>5. Fits(m, RestDirs(task, t) \cup {r.pd}, Rest(task, t) \cup Own(r),
           RestClaims(task, t, stray') \cup Claims(r), FALSE)
  <2>1. /\ Directories(task) = RestDirs(task, t) \cup {r.pd}
        /\ AllClaims(task, stray) = RestClaims(task, t, stray) \cup Claims(task[t])
    BY <1>1, <1>3, OneAndOthers
  <2>2. Rest(task, t) \cup {task[t].pd} = Rest(task, t) \cup Own(r)
    BY <1>3
  <2>3. Sound(m, RestDirs(task, t) \cup {r.pd}, Rest(task, t) \cup Own(r))
    BY <2>1, <2>2, Zenon
  <2> QED BY <2>3 DEF Fits
<1>6. Len(r.code) <= MAX_USER_CODE_PAGES /\ Len(r.heap) <= MAX_USER_HEAP_PAGES
  BY <1>3, NoFrames, Basics
<1>7. FALSE <=> ~failed'
  BY <1>2
<1>8. failed' \in BOOLEAN /\ r.state # "UNUSED" /\ task[t].state # "UNUSED"
  BY <1>1, <1>2, <1>3
<1> QED BY <1>1, <1>2, <1>3, <1>4, <1>5, <1>6, <1>7, <1>8, TaskChanged

(* The entry after an exec.                                                *)
Image(r, stack, paddr, code) ==
  [CleanupTask(r) EXCEPT !.stack = stack, !.code = code, !.paddr = paddr]

(* Its fields.                                                             *)
LEMMA ImageUse ==
  ASSUME NEW r \in Task, r.type = "USER_PROCESS",
         NEW stack \in Frames, NEW paddr \in Frames \cup {NONE}, NEW code \in Seq(Frames),
         NEW i, i = Image(r, stack, paddr, code)
  PROVE  /\ i \in Task /\ i.state = r.state /\ i.type = r.type /\ i.pd = r.pd
         /\ i.stack = stack /\ i.code = code /\ i.heap = <<>>
<1>1. <<>> \in Seq(Frames)
  OBVIOUS
<1> QED BY <1>1 DEF Image, CleanupTask, Task

(* sys_exec.                                                               *)
LEMMA SysExecInv ==
  ASSUME Inv, calls' \in 0..MAX_CALLS, NEW t \in Tasks, NEW image \in Images,
         NEW o, SysExec(t, image, o), NEW clean, clean <=> ~failed
  PROVE  Inv'
<1> DEFINE D == Directories(task)
           d == task[t].pd
           O == Rest(task, t) \cup {d}
           C == RestClaims(task, t, stray)
           m1 == CleanupMemory(mem, task[t])
           stack == Lowest(m1)
           a == AllocFrame(m1)
           m2 == MapPage(a, d, "stack", 0, stack)
           elf == LoadElf(m2, d, image)
           fr == elf.frames
           paddr == First(fr)
           r == Image(task[t], stack, paddr, fr)
<1>1. Process(t)
  BY DEF SysExec
<1>2. IF stack = NONE THEN ExecFails(t, m1, NONE)
      ELSE IF o = BadHeader THEN ExecFails(t, FreeFrames(m2, {stack}), NONE)
      ELSE IF elf.failed \/ o = BadSegment THEN ExecFails(t, FreeFrames(elf.m, {stack}), NONE)
      ELSE IF o = BadRelocation THEN ExecFails(t, FreeFrames(elf.m, {stack} \cup Range(fr)), NONE)
      ELSE IF o = ArgumentsTooLong THEN ExecFails(t, FreeFrames(elf.m, Range(fr)), paddr)
      ELSE IF o = ArgumentsUnmapped
           THEN /\ mem' = [elf.m EXCEPT !.ok = FALSE]
                /\ task' = task /\ stacks' = stacks /\ failed' = failed /\ stray' = stray
      ELSE /\ mem' = elf.m /\ task' = [task EXCEPT ![t] = r] /\ stacks' = stacks /\ failed' = failed
           /\ stray' = stray \cup Strays(d, image)
  <2> HIDE DEF LoadElf, MapPage, AllocFrame, Lowest, FreeFrames, ExecFails, CleanupMemory, CleanupTask, BadHeader, BadSegment, BadRelocation, ArgumentsTooLong, ArgumentsUnmapped, First, Strays
  <2> QED BY DEF SysExec, Image
<1>3. /\ mem.ok /\ task[t] \in Task /\ task[t].state = "LIVE" /\ task[t].type = "USER_PROCESS"
      /\ d \in D
  BY <1>1, Caller
<1>4. Fits(m1, D, O, C, clean) /\ KERNEL_PDT \in D /\ D \subseteq O
  <2>1. /\ Fits(mem, D, AllOwned(task), AllClaims(task, stray), clean) /\ KERNEL_PDT \in D
        /\ Exclusive(task) /\ \A u \in Tasks : task[u] \in Task
    BY <1>3, Now
  <2>2. task[t].state # "UNUSED" /\ task[t].type # "USER"
    BY <1>3
  <2>3. Fits(m1, D, O, C, clean)
    <3> HIDE DEF CleanupMemory
    <3> QED BY <2>1, <2>2, CleanupFits
  <2>4. D \subseteq O
    BY <2>3 DEF Fits, Sound
  <2> QED BY <2>1, <2>3, <2>4
<1>0. image \in Seq(Place)
  BY ImagesAssumption
<1>5. d \in Frames \cup {NONE} /\ {"code", "stack"} \subseteq UserEntries /\ 0 \in Pages
  BY <1>3, Basics DEF Task
<1> HIDE DEF D, m1
<1>6. CASE stack = NONE
  <2>1. ExecFails(t, m1, NONE) /\ NONE \in Frames \cup {NONE}
    BY <1>2, <1>6
  <2>2. Sound(m1, D, O)
    BY <1>4 DEF Fits
  <2> QED BY <1>1, <2>1, <2>2, ExecFailsInv DEF D
<1>7. CASE stack # NONE
  <2> DEFINE Q == O \cup {stack}
             B == C \cup {<<d, "stack", 0, stack>>}
  <2>1. Fits(a, D, Q, C, clean) /\ stack \in Frames /\ stack \notin O
    <3> HIDE DEF O, C
    <3> QED BY <1>4, <1>7, AllocFits
  <2> HIDE DEF a, stack
  <2>2. Fits(m2, D, Q, B, clean)
    <3> HIDE DEF Q, C, d
    <3> QED BY <1>3, <1>5, <2>1, MapFits
  <2> HIDE DEF m2
  <2>3. Loaded(elf, Len(image), D, Q, B, clean, d, image)
    <3> HIDE DEF Q, B, d, LoadElf
    <3> QED BY <1>0, <1>3, <2>2, LoadElfLoaded
  <2> HIDE DEF elf
  <2> DEFINE P == Q \cup Range(fr)
             A == B \cup ImageClaims(d, image, Range(fr))
  <2>4. /\ fr \in Seq(Frames) /\ IsInjective(fr) /\ Range(fr) \cap Q = {}
        /\ Len(fr) <= MAX_USER_CODE_PAGES
        /\ ~elf.failed => Len(fr) = Len(image)
        /\ Fits(elf.m, D, P, A, clean)
    <3> HIDE DEF Q, B, d
    <3> QED BY <2>3 DEF Loaded, Got
  <2> HIDE DEF fr
  <2>14. paddr \in Frames \cup {NONE} /\ NONE \in Frames \cup {NONE}
    BY <2>4 DEF First
  <2> HIDE DEF paddr
  <2>5. ASSUME NEW m, NEW Z, NEW F, Sound(m, D, Z), F \subseteq Z, F \cap O = {}, O \subseteq Z,
               NEW q \in Frames \cup {NONE}, ExecFails(t, FreeFrames(m, F), q)
        PROVE  Inv'
    <3> DEFINE z == FreeFrames(m, F)
    <3>1. F \cap D = {}
      BY <1>4, <2>5
    <3>2. Fits(m, D, Z, {}, FALSE)
      BY <2>5 DEF Fits
    <3>3. Fits(z, D, Z \ F, {}, FALSE)
      <4> HIDE DEF O
      <4> QED BY <2>5, <3>1, <3>2, FreeFits
    <3>4. ExecFails(t, z, q)
      BY <2>5
    <3> HIDE DEF z
    <3>5. Sound(z, D, Z \ F) /\ O \subseteq Z \ F
      BY <2>5, <3>3 DEF Fits
    <3>6. Sound(z, D, O)
      <4> HIDE DEF O
      <4> QED BY <1>4, <3>5, SoundForLess
    <3> QED BY <1>1, <3>4, <3>6, ExecFailsInv DEF D
  <2>6. Sound(m2, D, Q) /\ Sound(elf.m, D, P)
    BY <2>2, <2>4 DEF Fits
  <2>7. /\ {stack} \subseteq Q /\ {stack} \subseteq P /\ {stack} \cap O = {}
        /\ Range(fr) \subseteq P /\ Range(fr) \cap O = {}
        /\ {stack} \cup Range(fr) \subseteq P /\ ({stack} \cup Range(fr)) \cap O = {}
        /\ O \subseteq Q /\ O \subseteq P
    BY <2>1, <2>4
  <2>8. CASE ExecFails(t, FreeFrames(m2, {stack}), NONE)
    <3> HIDE DEF O, Q, P
    <3> QED BY <2>5, <2>6, <2>7, <2>8, <2>14
  <2>9. CASE ExecFails(t, FreeFrames(elf.m, {stack}), NONE)
    <3> HIDE DEF O, Q, P
    <3> QED BY <2>5, <2>6, <2>7, <2>9, <2>14
  <2>10. CASE ExecFails(t, FreeFrames(elf.m, {stack} \cup Range(fr)), NONE)
    <3> HIDE DEF O, Q, P
    <3> DEFINE F == {stack} \cup Range(fr)
    <3>1. F \subseteq P /\ F \cap O = {} /\ O \subseteq P /\ ExecFails(t, FreeFrames(elf.m, F), NONE)
      BY <2>7, <2>10
    <3> HIDE DEF F
    <3> QED BY <2>5, <2>6, <2>14, <3>1
  <2>11. CASE ExecFails(t, FreeFrames(elf.m, Range(fr)), paddr)
    <3> HIDE DEF O, Q, P
    <3> QED BY <2>5, <2>6, <2>7, <2>11, <2>14
  <2>12. CASE ~elf.failed /\ mem' = elf.m /\ task' = [task EXCEPT ![t] = r]
              /\ stacks' = stacks /\ failed' = failed /\ stray' = stray \cup Strays(d, image)
    <3>2. /\ r \in Task /\ r.state = "LIVE" /\ r.type = "USER_PROCESS" /\ r.pd = d
          /\ r.stack = stack /\ r.code = fr /\ r.heap = <<>>
      BY <1>3, <2>1, <2>4, <2>14, ImageUse
    <3> HIDE DEF r
    <3>3. stack # NONE
      BY <2>1, Basics
    <3>4. /\ Own(r) = {d, stack} \cup Range(fr) \cup Range(<<>>)
          /\ Claims(r) = CodeClaims(d, fr) \cup PageClaims(d, "heap", 0, <<>>)
                           \cup {<<d, "stack", 0, stack>>}
          /\ /\ IsInjective(fr) /\ IsInjective(<<>>) /\ d # stack
             /\ {d, stack} \cap (Range(fr) \cup Range(<<>>)) = {}
             /\ Range(fr) \cap Range(<<>>) = {}
             => Apart(r)
      <4> HIDE DEF d
      <4> QED BY <3>2, <3>3, ProcessUse
    <3>5. Apart(r)
      <4>1. {d, stack} \cap Range(fr) = {} /\ d # stack
        BY <2>1, <2>4
      <4> QED BY <2>4, <3>4, <4>1, NoFrames
    <3>6. d \notin Rest(task, t)
      <4>1. Exclusive(task)
        BY <1>3 DEF Inv, MemoryInv
      <4>2. Own(task[t]) \cap Rest(task, t) = {}
        BY <1>3, <4>1, OwnNotRest
      <4>3. d \in Own(task[t])
        <5> HIDE DEF Own
        <5> QED BY <1>3, PrivateParts
      <4> QED BY <4>2, <4>3
    <3>7. P = Rest(task, t) \cup Own(r) /\ Own(r) \cap Rest(task, t) = {}
      <4> HIDE DEF d
      <4> QED BY <2>1, <2>4, <3>4, <3>6, NoFrames
    <3>8. A \subseteq RestClaims(task, t, stray') \cup Claims(r)
      <4>1. ImageClaims(d, image, Range(fr)) \subseteq CodeClaims(d, fr) \cup StrayClaims(Strays(d, image))
        <5> HIDE DEF d
        <5> QED BY <1>0, <2>4, <2>12, ImageOfTask
      <4>2. StrayClaims(stray) \cup StrayClaims(Strays(d, image)) \subseteq StrayClaims(stray')
        <5> HIDE DEF d, Strays
        <5> QED BY <2>12 DEF StrayClaims
      <4>3. C \cup StrayClaims(Strays(d, image)) \subseteq RestClaims(task, t, stray')
        <5> DEFINE K == UNION {Claims(task[u]) : u \in Others(task, t)}
        <5>1. C = StrayClaims(stray) \cup K /\ RestClaims(task, t, stray') = StrayClaims(stray') \cup K
          BY DEF RestClaims
        <5> HIDE DEF K, C, d, Strays, StrayClaims
        <5> QED BY <4>2, <5>1
      <4> HIDE DEF d, C
      <4> QED BY <3>4, <4>1, <4>3
    <3>9. D = RestDirs(task, t) \cup {r.pd}
      BY <1>3, <3>2, OneAndOthers DEF D
    <3>10. Fits(elf.m, RestDirs(task, t) \cup {r.pd}, Rest(task, t) \cup Own(r),
                RestClaims(task, t, stray') \cup Claims(r), clean)
      <4> HIDE DEF P, A
      <4>1. Fits(elf.m, D, P, RestClaims(task, t, stray') \cup Claims(r), clean)
        BY <2>4, <3>8, FitsMore
      <4> QED BY <3>7, <3>9, <4>1, Zenon
    <3>11. Len(r.code) <= MAX_USER_CODE_PAGES /\ Len(r.heap) <= MAX_USER_HEAP_PAGES
      BY <2>4, <3>2, NoFrames, Basics
    <3>12. failed' \in BOOLEAN /\ (clean <=> ~failed')
      BY <2>12 DEF Inv, TypeOK
    <3>13. task[t].state # "UNUSED" /\ r.state # "UNUSED"
      BY <1>3, <3>2
    <3>14. stray' \subseteq Frames \X UserEntries \X Pages
      <4>1. stray \subseteq Frames \X UserEntries \X Pages
        BY DEF Inv, TypeOK
      <4>2. d \in Frames /\ \A x \in Range(image) : x \in Place
        <5>1. d \in Frames
          BY <1>3, <1>4 DEF Fits, Sound, Memory
        <5> HIDE DEF d, Place
        <5> QED BY <1>0, <5>1 DEF Range
      <4>3. Strays(d, image) \subseteq Frames \X UserEntries \X Pages
        <5> HIDE DEF d
        <5> QED BY <4>2, PlaceType DEF Strays
      <4> QED BY <2>12, <4>1, <4>3
    <3> HIDE DEF d, C, O, P, A, B, Q
    <3> QED BY <1>3, <2>12, <3>2, <3>5, <3>7, <3>10, <3>11, <3>12, <3>13, <3>14, TaskChanged
  <2>13. CASE /\ mem' = [elf.m EXCEPT !.ok = FALSE]
              /\ task' = task /\ stacks' = stacks /\ failed' = failed /\ stray' = stray
    <3>1. mem' \in Memory /\ mem'.ok = FALSE
      <4>1. elf.m \in Memory
        BY <2>6 DEF Sound
      <4> QED BY <2>13, <4>1 DEF Memory
    <3>2. TypeOK'
      <4> HIDE DEF Tasks, Task, Memory
      <4> QED BY <2>13, <3>1 DEF Inv, TypeOK
    <3> QED BY <3>1, <3>2 DEF Inv, MemoryInv
  <2> QED BY <1>2, <1>7, <2>8, <2>9, <2>10, <2>11, <2>12, <2>13
<1> QED BY <1>6, <1>7

(* An allocation that fails gives back what it got.                        *)
LEMMA AllocFailsInv ==
  ASSUME Inv, mem.ok, calls' \in 0..MAX_CALLS,
         NEW m, Sound(m, Directories(task), AllOwned(task)),
         mem' = m, failed' = TRUE, task' = task, stacks' = stacks, stray' = stray
  PROVE  Inv'
<1>1. m \in Memory
  BY DEF Sound
<1>2. TypeOK'
  <2> HIDE DEF Tasks, Task, Memory
  <2> QED BY <1>1 DEF Inv, TypeOK
<1>3. Exclusive(task') /\ (OwnersOf(task') # {} => stacks' < TASK_MAX)
  BY DEF Inv, MemoryInv
<1>4. Fits(mem', Directories(task'), AllOwned(task'), AllClaims(task', stray'), ~failed')
  <2> HIDE DEF Sound
  <2>1. Sound(mem', Directories(task'), AllOwned(task'))
    OBVIOUS
  <2> QED BY <2>1 DEF Fits
<1>5. MemoryInv'
  BY <1>3, <1>4 DEF MemoryInv
<1> QED BY <1>2, <1>5 DEF Inv

(* The claims of the pages of a heap that has grown.                       *)
LEMMA JoinedClaims ==
  ASSUME NEW s \in Seq(Frames), NEW t \in Seq(Frames), NEW d, NEW e
  PROVE  PageClaims(d, e, 0, s \o t) = PageClaims(d, e, 0, s) \cup PageClaims(d, e, Len(s), t)
<1> DEFINE j == s \o t
           a == Len(s)
           b == Len(t)
<1>1. /\ a \in Nat /\ b \in Nat
      /\ DOMAIN s = 1..a /\ DOMAIN t = 1..b /\ DOMAIN j = 1 .. a + b
  OBVIOUS
<1>2. \A i \in 1..a : i \in 1 .. a + b /\ j[i] = s[i]
  BY <1>1
<1>3. \A k \in 1..b : a + k \in 1 .. a + b /\ j[a + k] = t[k] /\ 0 + (a + k) - 1 = a + k - 1
  BY <1>1
<1>4. \A i \in 1 .. a + b : i \in 1..a \/ \E k \in 1..b : i = a + k
  <2> SUFFICES ASSUME NEW i \in 1 .. a + b, i \notin 1..a PROVE \E k \in 1..b : i = a + k
    OBVIOUS
  <2>1. i - a \in 1..b /\ i = a + (i - a)
    BY <1>1
  <2> QED BY <2>1
<1> HIDE DEF j, a, b
<1>5. ASSUME NEW x \in PageClaims(d, e, 0, j)
      PROVE  x \in PageClaims(d, e, 0, s) \cup PageClaims(d, e, a, t)
  <2>1. PICK i \in 1 .. a + b : x = <<d, e, 0 + i - 1, j[i]>>
    BY <1>1 DEF PageClaims
  <2>2. CASE i \in 1..a
    BY <1>1, <1>2, <2>1, <2>2 DEF PageClaims
  <2>3. CASE \E k \in 1..b : i = a + k
    <3>1. PICK k \in 1..b : i = a + k
      BY <2>3
    <3>2. x = <<d, e, a + k - 1, t[k]>>
      BY <1>3, <2>1, <3>1
    <3> QED BY <1>1, <3>2 DEF PageClaims
  <2> QED BY <1>4, <2>2, <2>3
<1>6. ASSUME NEW x \in PageClaims(d, e, 0, s) PROVE x \in PageClaims(d, e, 0, j)
  BY <1>1, <1>2 DEF PageClaims
<1>7. ASSUME NEW x \in PageClaims(d, e, a, t) PROVE x \in PageClaims(d, e, 0, j)
  <2>1. PICK k \in 1..b : x = <<d, e, a + k - 1, t[k]>>
    BY <1>1 DEF PageClaims
  <2>2. x = <<d, e, 0 + (a + k) - 1, j[a + k]>> /\ a + k \in DOMAIN j
    BY <1>1, <1>3, <2>1
  <2> QED BY <2>2 DEF PageClaims
<1>8. PageClaims(d, e, 0, j) = PageClaims(d, e, 0, s) \cup PageClaims(d, e, a, t)
  BY <1>5, <1>6, <1>7
<1> QED BY <1>8 DEF j, a

(* The entry of a process whose heap has grown.                            *)
MoreHeap(r, s) == [r EXCEPT !.heap = @ \o s]

(* What it owns and claims.                                                *)
LEMMA MoreHeapUse ==
  ASSUME NEW r \in Task, Apart(r), NEW s \in Seq(Frames), IsInjective(s), Range(s) \cap Own(r) = {},
         NEW g, g = MoreHeap(r, s)
  PROVE  /\ g \in Task /\ g.state = r.state /\ g.pd = r.pd /\ g.code = r.code
         /\ Len(g.heap) = Len(r.heap) + Len(s)
         /\ Own(g) = Own(r) \cup Range(s) /\ Apart(g)
         /\ Claims(g) = Claims(r) \cup PageClaims(r.pd, "heap", Len(r.heap), s)
<1> DEFINE h == r.heap \o s
<1>1. r.heap \in Seq(Frames)
  BY DEF Task
<1>2. /\ h \in Seq(Frames) /\ Len(h) = Len(r.heap) + Len(s)
      /\ Range(h) = Range(r.heap) \cup Range(s)
      /\ IsInjective(h) <=> IsInjective(r.heap) /\ IsInjective(s) /\ Range(r.heap) \cap Range(s) = {}
  <2>1. Len(h) = Len(r.heap) + Len(s)
    BY <1>1
  <2> QED BY <1>1, <2>1, Joined
<1>3. PageClaims(r.pd, "heap", 0, h)
        = PageClaims(r.pd, "heap", 0, r.heap) \cup PageClaims(r.pd, "heap", Len(r.heap), s)
  BY <1>1, JoinedClaims
<1>4. g = [r EXCEPT !.heap = h]
  BY DEF MoreHeap
<1> HIDE DEF h
<1>5. /\ g \in Task /\ g.state = r.state /\ g.type = r.type /\ g.pd = r.pd /\ g.code = r.code
      /\ g.stack = r.stack /\ g.paddr = r.paddr /\ g.heap = h
  BY <1>2, <1>4 DEF Task
<1>6. /\ Own(r) = {r.pd} \cup Range(r.code) \cup Range(r.heap) \cup Maybe(r.stack) \cup Single(r)
      /\ Own(g) = {g.pd} \cup Range(g.code) \cup Range(g.heap) \cup Maybe(g.stack) \cup Single(g)
  <2> HIDE DEF Own
  <2> QED BY <1>5, PrivateParts
<1>7. Maybe(g.stack) = Maybe(r.stack) /\ Single(g) = Single(r)
  BY <1>5 DEF Single
<1> HIDE DEF Own, Maybe, Single
<1>8. Own(g) = Own(r) \cup Range(s)
  BY <1>2, <1>5, <1>6, <1>7
<1>9. Apart(g)
  BY <1>2, <1>5, <1>6, <1>7 DEF Apart
<1>10. Claims(g) = Claims(r) \cup PageClaims(r.pd, "heap", Len(r.heap), s)
  BY <1>3, <1>5 DEF Claims
<1> QED BY <1>2, <1>5, <1>8, <1>9, <1>10

(* sys_alloc.                                                              *)
LEMMA SysAllocInv ==
  ASSUME Inv, calls' \in 0..MAX_CALLS, NEW t \in Tasks, NEW n \in 1..MAX_USER_HEAP_PAGES,
         SysAlloc(t, n), NEW clean, clean <=> ~failed
  PROVE  Inv'
<1> DEFINE D == Directories(task)
           O == AllOwned(task)
           C == AllClaims(task, stray)
           d == task[t].pd
           first == Len(task[t].heap)
           got == AllocPages(mem, d, "heap", first, n)
           fr == got.frames
           z == ReleasePages(got.m, d, "heap", first, fr)
           r == MoreHeap(task[t], fr)
<1>1. Process(t) /\ HeapHasRoom(t, n)
  BY DEF SysAlloc
<1>2. IF got.failed THEN mem' = z /\ failed' = TRUE /\ task' = task /\ stacks' = stacks /\ stray' = stray
      ELSE mem' = got.m /\ task' = [task EXCEPT ![t] = r] /\ stacks' = stacks /\ stray' = stray /\ failed' = failed
  <2> HIDE DEF AllocPages, ReleasePages
  <2> QED BY DEF SysAlloc, MoreHeap
<1>3. /\ mem.ok /\ task[t] \in Task /\ task[t].state = "LIVE" /\ task[t].type = "USER_PROCESS"
      /\ Len(task[t].code) <= MAX_USER_CODE_PAGES /\ first <= MAX_USER_HEAP_PAGES
      /\ d \in D /\ D \subseteq O
  BY <1>1, Caller
<1>4. Fits(mem, D, O, C, clean) /\ KERNEL_PDT \in D /\ Exclusive(task)
  BY <1>3, Now
<1>5. /\ first \in Nat /\ n \in Nat /\ first + n <= MAX_USER_HEAP_PAGES
      /\ (\A k \in 0 .. n - 1 : first + k \in Pages)
      /\ "heap" \in UserEntries
  <2>1. first \in Nat
    BY <1>3 DEF Task
  <2>2. first + n <= MAX_USER_HEAP_PAGES
    BY <1>1 DEF HeapHasRoom
  <2>3. n \in Nat
    BY Basics
  <2>4. MAX_USER_HEAP_PAGES \in Nat /\ MAX_USER_CODE_PAGES \in Nat
    BY Basics
  <2> HIDE DEF first
  <2>5. \A k \in 0 .. n - 1 : first + k \in Pages
    BY <2>1, <2>2, <2>3, <2>4 DEF Pages
  <2> QED BY <2>1, <2>2, <2>3, <2>5, Basics
<1> HIDE DEF D, O, C
<1>6. Grown(got, n, D, O, C, clean, d, "heap", first)
  <2> HIDE DEF AllocPages, d, first
  <2> QED BY <1>3, <1>4, <1>5, AllocPagesGrown
<1> HIDE DEF got
<1> DEFINE P == O \cup Range(fr)
           A == C \cup PageClaims(d, "heap", first, fr)
<1>7. /\ fr \in Seq(Frames) /\ IsInjective(fr) /\ Range(fr) \cap O = {}
      /\ ~got.failed => Len(fr) = n
      /\ Fits(got.m, D, P, A, clean)
  <2> HIDE DEF d, first
  <2> QED BY <1>6 DEF Grown, Got
<1> HIDE DEF fr
<1>8. CASE got.failed
  <2>1. Range(fr) \subseteq P /\ Range(fr) \cap D = {} /\ O \subseteq P \ Range(fr)
    BY <1>3, <1>7
  <2>2. Fits(z, D, P \ Range(fr), A, clean)
    <3> HIDE DEF d, first, P, A
    <3> QED BY <1>3, <1>5, <1>7, <2>1, ReleaseFits
  <2>3. mem' = z /\ failed' = TRUE /\ task' = task /\ stacks' = stacks /\ stray' = stray
    BY <1>2, <1>8
  <2> HIDE DEF z
  <2>4. Sound(z, D, P \ Range(fr))
    BY <2>2 DEF Fits
  <2>5. Sound(z, D, O)
    <3> HIDE DEF P
    <3> QED BY <1>3, <1>4, <2>1, <2>4, SoundForLess
  <2> QED BY <1>3, <2>3, <2>5, AllocFailsInv DEF D, O
<1>9. CASE ~got.failed
  <2>1. mem' = got.m /\ task' = [task EXCEPT ![t] = r] /\ stacks' = stacks /\ stray' = stray /\ failed' = failed
    BY <1>2, <1>9
  <2>2. /\ O = Rest(task, t) \cup Own(task[t])
        /\ D = RestDirs(task, t) \cup {d}
        /\ C = RestClaims(task, t, stray) \cup Claims(task[t])
        /\ Own(task[t]) \cap Rest(task, t) = {}
    BY <1>3, <1>4, OneAndOthers, OwnNotRest DEF D, O, C
  <2>3. Apart(task[t])
    <3>1. IsInjective(Private(task[t]))
      BY <1>3, <1>4 DEF Exclusive, OwnersOf
    <3> QED BY <1>3, <3>1, PrivateParts
  <2>4. Range(fr) \cap Own(task[t]) = {}
    BY <1>7, <2>2
  <2>5. /\ r \in Task /\ r.state = "LIVE" /\ r.pd = d /\ r.code = task[t].code
        /\ Len(r.heap) = first + Len(fr)
        /\ Own(r) = Own(task[t]) \cup Range(fr) /\ Apart(r)
        /\ Claims(r) = Claims(task[t]) \cup PageClaims(d, "heap", first, fr)
    BY <1>3, <1>7, <2>3, <2>4, MoreHeapUse
  <2> HIDE DEF r, d, first
  <2>6. P = Rest(task, t) \cup Own(r) /\ Own(r) \cap Rest(task, t) = {}
    BY <1>7, <2>2, <2>5
  <2>7. A = RestClaims(task, t, stray) \cup Claims(r)
    BY <2>2, <2>5
  <2>8. D = RestDirs(task, t) \cup {r.pd}
    BY <2>2, <2>5
  <2>9. Fits(got.m, RestDirs(task, t) \cup {r.pd}, Rest(task, t) \cup Own(r),
             RestClaims(task, t, stray') \cup Claims(r), clean)
    <3> HIDE DEF P, A
    <3> QED BY <1>7, <2>1, <2>6, <2>7, <2>8, Zenon
  <2>10. Len(r.code) <= MAX_USER_CODE_PAGES /\ Len(r.heap) <= MAX_USER_HEAP_PAGES
    BY <1>3, <1>5, <1>7, <1>9, <2>5
  <2>11. failed' \in BOOLEAN /\ (clean <=> ~failed') /\ stray' \subseteq Frames \X UserEntries \X Pages
    BY <2>1 DEF Inv, TypeOK
  <2>12. task[t].state # "UNUSED" /\ r.state # "UNUSED"
    BY <1>3, <2>5
  <2> HIDE DEF P, A
  <2> QED BY <1>3, <2>1, <2>5, <2>6, <2>9, <2>10, <2>11, <2>12, TaskChanged
<1> QED BY <1>8, <1>9

(* sys_exit.                                                               *)
LEMMA ExitInv ==
  ASSUME Inv, calls' \in 0..MAX_CALLS, NEW t \in Tasks, Exit(t), NEW clean, clean <=> ~failed
  PROVE  Inv'
<1> DEFINE r == [task[t] EXCEPT !.state = "ZOMBIE"]
<1>1. /\ mem.ok /\ task[t].state = "LIVE" /\ task' = [task EXCEPT ![t] = r]
      /\ mem' = mem /\ stacks' = stacks /\ failed' = failed /\ stray' = stray
  BY DEF Exit
<1>2. Fits(mem, Directories(task), AllOwned(task), AllClaims(task, stray), clean) /\ Exclusive(task)
  BY <1>1, Now
<1>3. /\ task[t] \in Task
      /\ Len(task[t].code) <= MAX_USER_CODE_PAGES /\ Len(task[t].heap) <= MAX_USER_HEAP_PAGES
  BY DEF Inv, TypeOK
<1>4. r \in Task /\ r.state = "ZOMBIE" /\ SameUse(r, task[t])
  BY <1>1, <1>3 DEF Task, SameUse
<1>5. Len(r.code) <= MAX_USER_CODE_PAGES /\ Len(r.heap) <= MAX_USER_HEAP_PAGES
  BY <1>3, <1>4 DEF SameUse
<1> HIDE DEF r
<1>6. Private(r) = Private(task[t]) /\ Own(r) = Own(task[t]) /\ Claims(r) = Claims(task[t]) /\ r.pd = task[t].pd
  BY <1>4, SameUseSame
<1>7. Apart(r)
  <2>1. IsInjective(Private(r))
    BY <1>1, <1>2, <1>6 DEF Exclusive, OwnersOf
  <2> QED BY <1>4, <2>1, PrivateParts
<1>8. /\ AllOwned(task) = Rest(task, t) \cup Own(r)
      /\ Directories(task) = RestDirs(task, t) \cup {r.pd}
      /\ AllClaims(task, stray) = RestClaims(task, t, stray) \cup Claims(r)
      /\ Own(r) \cap Rest(task, t) = {}
  BY <1>1, <1>2, <1>6, OneAndOthers, OwnNotRest
<1>9. Fits(mem, RestDirs(task, t) \cup {r.pd}, Rest(task, t) \cup Own(r),
           RestClaims(task, t, stray') \cup Claims(r), clean)
  BY <1>1, <1>2, <1>8, Zenon
<1>10. stray' \subseteq Frames \X UserEntries \X Pages
       /\ failed' \in BOOLEAN /\ (clean <=> ~failed') /\ task[t].state # "UNUSED" /\ r.state # "UNUSED"
  BY <1>1, <1>4 DEF Inv, TypeOK
<1> QED BY <1>1, <1>4, <1>5, <1>7, <1>8, <1>9, <1>10, TaskChanged

(* Releasing pages changes no directory.                                   *)
LEMMA ReleasePagesFields ==
  ASSUME NEW m \in Memory, NEW d \in Frames, NEW e \in DirEntries, NEW first, NEW s
  PROVE  /\ ReleasePages(m, d, e, first, s) \in Memory
         /\ ReleasePages(m, d, e, first, s).dir = m.dir
<1> DEFINE P == {first + i - 1 : i \in DOMAIN s}
           k == UnmapPages(m, d, e, P)
<1>1. k \in Memory /\ k.dir = m.dir
  <2> HIDE DEF P, UnmapPages
  <2> QED BY UnmapPagesFields
<1>2. ReleasePages(m, d, e, first, s) = FreeFrames(k, Range(s))
  BY DEF ReleasePages
<1> HIDE DEF k
<1> QED BY <1>1, <1>2, FreeFramesFields

(* Nor does task_cleanup_user_resources.                                   *)
LEMMA CleanupMemoryFields ==
  ASSUME NEW m \in Memory, NEW r, r.pd \in Frames
  PROVE  CleanupMemory(m, r) \in Memory /\ CleanupMemory(m, r).dir = m.dir
<1> DEFINE m1 == IF r.stack = NONE THEN m ELSE ReleasePages(m, r.pd, "stack", 0, <<r.stack>>)
           m2 == ReleasePages(m1, r.pd, "code", 0, r.code)
           m3 == ReleasePages(m2, r.pd, "heap", 0, r.heap)
<1>1. {"code", "heap", "stack"} \subseteq DirEntries
  BY Basics
<1>2. m1 \in Memory /\ m1.dir = m.dir
  <2> HIDE DEF ReleasePages
  <2> QED BY <1>1, ReleasePagesFields
<1> HIDE DEF m1
<1>3. m2 \in Memory /\ m2.dir = m.dir
  <2> HIDE DEF ReleasePages
  <2> QED BY <1>1, <1>2, ReleasePagesFields
<1> HIDE DEF m2
<1>4. m3 \in Memory /\ m3.dir = m.dir
  <2> HIDE DEF ReleasePages
  <2> QED BY <1>1, <1>3, ReleasePagesFields
<1>5. CleanupMemory(m, r) = m3
  BY DEF CleanupMemory, m1, m2
<1> QED BY <1>4, <1>5

(* sys_wait: the directory of the child links the kernel's low table,      *)
(* which is freed with it; nothing is promised from then on.               *)
LEMMA SysWaitReapInv ==
  ASSUME Inv, calls' \in 0..MAX_CALLS, NEW t \in Tasks, NEW c \in Tasks, SysWaitReap(t, c)
  PROVE  Inv'
<1> DEFINE d == task[c].pd
           m0 == CleanupMemory(mem, task[c])
           F == {d} \cup {m0.dir[d][e] : e \in UserEntries}
           k == FreeFrames(m0, F)
           m == FreePageDirectory(m0, d)
           T == [task EXCEPT ![c] = Unused, ![t].children = @ \ {c}]
           sound == m.ok /\ Linked(m, T) \subseteq m.used
<1>1. /\ Process(t) /\ task[c].state = "ZOMBIE"
      /\ mem' = [m EXCEPT !.ok = sound] /\ task' = T /\ stacks' = stacks + 1 /\ failed' = failed /\ stray' = stray
  <2> HIDE DEF FreePageDirectory, CleanupMemory, Linked
  <2> QED BY DEF SysWaitReap
<1>2. mem.ok /\ task[t] \in Task /\ task[t].state = "LIVE"
  BY <1>1, Caller
<1>3. /\ mem \in Memory /\ mem.dir[KERNEL_PDT]["low"] = PT_LOW /\ mem.dir[d]["low"] = PT_LOW
      /\ d \in Frames
  <2>1. Sound(mem, Directories(task), AllOwned(task))
    BY <1>2 DEF Inv, MemoryInv, Fits
  <2>2. KERNEL_PDT \in Directories(task) /\ d \in Directories(task)
    BY <1>1 DEF Directories
  <2> QED BY <2>1, <2>2 DEF Sound, Memory
<1>4. d # KERNEL_PDT
  <2>1. KERNEL_PDT \notin Own(task[c])
    BY <1>1, <1>2 DEF Inv, MemoryInv, Exclusive, OwnersOf
  <2>2. task[c] \in Task
    BY DEF Inv, TypeOK
  <2>3. d \in Own(task[c])
    <3> HIDE DEF Own
    <3> QED BY <2>2, PrivateParts
  <2> QED BY <2>1, <2>3
<1>5. m0 \in Memory /\ m0.dir = mem.dir
  <2> HIDE DEF CleanupMemory
  <2> QED BY <1>3, CleanupMemoryFields
<1> HIDE DEF m0
<1>6. PT_LOW \in F
  BY <1>3, <1>5, Basics
<1>7. k \in Memory /\ k.used = m0.used \ F /\ k.dir = m0.dir
  <2> HIDE DEF F
  <2> QED BY <1>5, FreeFramesFields
<1>8. m = [k EXCEPT !.dir[d] = NoEntries]
  BY DEF FreePageDirectory
<1>9. NoEntries \in Directory
  BY DEF NoEntries, Directory
<1> HIDE DEF k, F, m
<1>10. m \in Memory /\ m.used = m0.used \ F /\ m.dir[KERNEL_PDT] = mem.dir[KERNEL_PDT]
  <2> HIDE DEF d
  <2> QED BY <1>3, <1>4, <1>5, <1>7, <1>8, <1>9, Basics DEF Memory
<1>11. PT_LOW \in Linked(m, T) /\ PT_LOW \notin m.used
  <2>1. KERNEL_PDT \in Directories(T)
    BY DEF Directories
  <2>2. "low" \in DirEntries /\ PT_LOW # NONE
    BY Basics
  <2> HIDE DEF T
  <2>3. PT_LOW \in Linked(m, T)
    BY <1>3, <1>10, <2>1, <2>2 DEF Linked
  <2> QED BY <1>6, <1>10, <2>3
<1>12. sound = FALSE
  <2> HIDE DEF T, Linked
  <2> QED BY <1>11
<1>13. mem' \in Memory /\ mem'.ok = FALSE
  <2>1. mem' = [m EXCEPT !.ok = FALSE]
    BY <1>1, <1>12
  <2> QED BY <1>10, <2>1 DEF Memory
<1>14. stacks' \in 0..TASK_MAX
  <2>1. OwnersOf(task) # {}
    BY <1>2 DEF OwnersOf
  <2>2. stacks < TASK_MAX /\ stacks \in 0..TASK_MAX
    BY <1>2, <2>1 DEF Inv, MemoryInv, TypeOK
  <2> QED BY <1>1, <2>2, Basics
<1>15. /\ task' \in [Tasks -> Task]
       /\ \A u \in Tasks : /\ Len(task'[u].code) <= MAX_USER_CODE_PAGES
                           /\ Len(task'[u].heap) <= MAX_USER_HEAP_PAGES
  <2> DEFINE q == [task[t] EXCEPT !.children = @ \ {c}]
  <2>1. t # c
    BY <1>1, <1>2
  <2>2. q \in Task /\ q.code = task[t].code /\ q.heap = task[t].heap
    BY <1>2 DEF Task
  <2>3. /\ task \in [Tasks -> Task]
        /\ \A u \in Tasks : /\ Len(task[u].code) <= MAX_USER_CODE_PAGES
                            /\ Len(task[u].heap) <= MAX_USER_HEAP_PAGES
    BY DEF Inv, TypeOK
  <2>4. task' = [task EXCEPT ![c] = Unused, ![t] = q]
    BY <1>1, <2>1, <2>3
  <2>5. /\ Unused \in Task
        /\ Len(Unused.code) <= MAX_USER_CODE_PAGES /\ Len(Unused.heap) <= MAX_USER_HEAP_PAGES
    BY UnusedEntry, NoFrames, Basics
  <2> HIDE DEF q, Task, Tasks, Unused
  <2>6. /\ task' \in [Tasks -> Task] /\ task'[c] = Unused /\ task'[t] = q
        /\ \A u \in Tasks \ {c, t} : task'[u] = task[u]
    BY <2>1, <2>2, <2>3, <2>4, <2>5
  <2>7. ASSUME NEW u \in Tasks
        PROVE  Len(task'[u].code) <= MAX_USER_CODE_PAGES /\ Len(task'[u].heap) <= MAX_USER_HEAP_PAGES
    <3>1. CASE u = c
      BY <2>5, <2>6, <3>1
    <3>2. CASE u = t
      BY <2>2, <2>3, <2>6, <3>2
    <3>3. CASE u \notin {c, t}
      <4>1. task'[u] = task[u]
        BY <2>6, <3>3
      <4> QED BY <2>3, <4>1
    <3> QED BY <3>1, <3>2, <3>3
  <2> QED BY <2>6, <2>7
<1>16. failed' \in BOOLEAN /\ stray' \subseteq Frames \X UserEntries \X Pages
  BY <1>1 DEF Inv, TypeOK
<1>17. TypeOK'
  <2> HIDE DEF Task, Tasks, Memory, T
  <2> QED BY <1>13, <1>14, <1>15, <1>16 DEF TypeOK
<1> QED BY <1>13, <1>17 DEF Inv, MemoryInv

-----------------------------------------------------------------------------
(* After paging_init and task_init.                                        *)
LEMMA InitInv ==
  ASSUME Init
  PROVE  Inv
<1> DEFINE low == [NoEntries EXCEPT !["low"] = PT_LOW]
           dirs == [f \in Frames |-> IF f = KERNEL_PDT THEN low ELSE NoEntries]
           tables == [f \in Frames |-> NoPages]
<1>1. /\ low \in Directory /\ NoEntries \in Directory
      /\ \A e \in DirEntries : low[e] = IF e = "low" THEN PT_LOW ELSE NONE
  BY Basics DEF NoEntries, Directory
<1>2. NoPages \in Table /\ \A p \in Pages : NoPages[p] = NONE
  BY DEF NoPages, Table
<1>3. /\ mem = [used |-> {KERNEL_PDT, PT_LOW}, dir |-> dirs, table |-> tables, ok |-> TRUE]
      /\ task = [t \in Tasks |-> Unused] /\ stacks = TASK_MAX /\ failed = FALSE /\ stray = {} /\ calls = 0
  BY DEF Init
<1> HIDE DEF low
<1>4. dirs \in [Frames -> Directory] /\ dirs[KERNEL_PDT] = low /\ tables \in [Frames -> Table]
  BY <1>1, <1>2, Basics
<1>5. \A f \in Frames : tables[f] = NoPages
  OBVIOUS
<1> HIDE DEF dirs, tables
<1>6. {KERNEL_PDT, PT_LOW} \in SUBSET Frames
  BY Basics
<1>7. /\ mem \in Memory /\ mem.used = {KERNEL_PDT, PT_LOW} /\ mem.dir = dirs /\ mem.table = tables
  BY <1>3, <1>4, <1>6 DEF Memory
<1>8. TypeOK
  <2>1. task \in [Tasks -> Task] /\ \A t \in Tasks : task[t] = Unused
    BY <1>3, UnusedEntry
  <2>2. Len(Unused.code) <= MAX_USER_CODE_PAGES /\ Len(Unused.heap) <= MAX_USER_HEAP_PAGES
    BY UnusedEntry, NoFrames, Basics
  <2>3. calls \in 0..MAX_CALLS /\ stacks \in 0..TASK_MAX /\ failed \in BOOLEAN
    <3>1. MAX_CALLS \in Nat /\ TASK_MAX \in Nat
      BY AddressSpaceAssumption
    <3>2. 0 \in 0..MAX_CALLS /\ TASK_MAX \in 0..TASK_MAX
      BY <3>1
    <3>3. calls \in 0..MAX_CALLS /\ stacks \in 0..TASK_MAX
      BY <1>3, <3>2
    <3>4. failed \in BOOLEAN
      BY <1>3, Zenon
    <3> QED BY <3>3, <3>4
  <2> HIDE DEF Unused, Task, Tasks, Memory
  <2> QED BY <1>3, <1>7, <2>1, <2>2, <2>3 DEF TypeOK
<1>9. OwnersOf(task) = {} /\ Directories(task) = {KERNEL_PDT}
  BY <1>3, UnusedEntry DEF OwnersOf, Directories
<1>10. AllOwned(task) = {KERNEL_PDT} /\ AllClaims(task, stray) = {} /\ Exclusive(task)
  BY <1>3, <1>9 DEF AllOwned, AllClaims, StrayClaims, Exclusive
<1>11. Sound(mem, {KERNEL_PDT}, {KERNEL_PDT})
  BY <1>1, <1>4, <1>7, Basics DEF Sound
<1>12. Exact(mem, {KERNEL_PDT}, {KERNEL_PDT})
  BY <1>1, <1>4, <1>7, Basics DEF Exact
<1>13. Backed(mem, {KERNEL_PDT}, {})
  BY <1>1, <1>2, <1>4, <1>5, <1>7, Basics DEF Backed
<1>14. Fits(mem, {KERNEL_PDT}, {KERNEL_PDT}, {}, ~failed)
  BY <1>11, <1>12, <1>13 DEF Fits
<1>15. Fits(mem, Directories(task), AllOwned(task), AllClaims(task, stray), ~failed)
  BY <1>9, <1>10, <1>14
<1> QED BY <1>8, <1>9, <1>10, <1>15 DEF Inv, MemoryInv

(* Every call keeps the invariant.                                         *)
LEMMA NextInv ==
  ASSUME Inv, [Next]_vars
  PROVE  Inv'
<1>1. PICK clean \in BOOLEAN : clean <=> ~failed
  OBVIOUS
<1>2. CASE UNCHANGED vars
  <2>1. mem' = mem /\ task' = task /\ stacks' = stacks /\ failed' = failed /\ stray' = stray /\ calls' = calls
    BY <1>2 DEF vars
  <2>2. TypeOK'
    BY <2>1 DEF Inv, TypeOK
  <2>3. MemoryInv'
    BY <2>1 DEF Inv, MemoryInv
  <2> QED BY <2>2, <2>3 DEF Inv
<1>3. CASE Next
  <2>1. calls' \in 0..MAX_CALLS /\ Step
    BY <1>3, AddressSpaceAssumption DEF Next, Inv, TypeOK
  <2>2. CASE TaskCreateUser
    BY <1>1, <2>1, <2>2, TaskCreateUserInv
  <2>3. ASSUME NEW n \in 1..MAX_USER_CODE_PAGES, TaskCreateUserFromBinary(n) PROVE Inv'
    BY <1>1, <2>1, <2>3, TaskCreateUserFromBinaryInv
  <2>4. ASSUME NEW t \in Tasks, SysFork(t) PROVE Inv'
    BY <1>1, <2>1, <2>4, SysForkInv
  <2>5. ASSUME NEW t \in Tasks, NEW image \in Images, NEW o \in Outcomes, SysExec(t, image, o)
        PROVE  Inv'
    BY <1>1, <2>1, <2>5, SysExecInv
  <2>6. ASSUME NEW t \in Tasks, NEW n \in 1..MAX_USER_HEAP_PAGES, SysAlloc(t, n) PROVE Inv'
    BY <1>1, <2>1, <2>6, SysAllocInv
  <2>7. ASSUME NEW t \in Tasks, Exit(t) PROVE Inv'
    BY <1>1, <2>1, <2>7, ExitInv
  <2>8. ASSUME NEW t \in Tasks, NEW c \in Tasks, SysWaitReap(t, c) PROVE Inv'
    BY <2>1, <2>8, SysWaitReapInv
  <2> HIDE DEF Inv
  <2> QED BY <2>1, <2>2, <2>3, <2>4, <2>5, <2>6, <2>7, <2>8 DEF Step
<1> QED BY <1>2, <1>3

(* What the invariant says of the frames: the definitions it is made of    *)
(* are those of the properties, taken apart.                               *)
LEMMA InvMeans ==
  ASSUME Inv
  PROVE  FramesExclusive /\ NoFrameLost /\ NoDanglingPage
<1> SUFFICES ASSUME mem.ok PROVE FramesExclusive /\ NoFrameLost /\ NoDanglingPage
  BY DEF FramesExclusive, NoFrameLost, NoDanglingPage
<1> DEFINE D == Directories(task)
           O == AllOwned(task)
           C == AllClaims(task, stray)
<1>1. Exclusive(task) /\ Fits(mem, D, O, C, ~failed)
  BY DEF Inv, MemoryInv
<1>2. /\ KERNEL_PDT \in D /\ D \subseteq O /\ O \subseteq mem.used
      /\ \A d \in D, e \in DirEntries : mem.dir[d][e] # NONE => mem.dir[d][e] \in mem.used \ O
  BY <1>1 DEF Fits, Sound
<1>3. Owners = OwnersOf(task) /\ \A t \in Tasks : Owned(t) = Own(task[t])
  BY DEF Owners, OwnersOf, Owned, Own
<1>4. O = {KERNEL_PDT} \cup UNION {Owned(t) : t \in Owners}
  BY <1>3 DEF AllOwned, Owners
<1> HIDE DEF D, O
<1>5. Linked(mem, task) = {mem.dir[d][e] : d \in D, e \in DirEntries} \ {NONE}
  BY DEF Linked, D
<1>6. Linked(mem, task) \subseteq mem.used \ O /\ KERNEL_PDT \in O
  BY <1>2, <1>5
<1>7. FramesExclusive
  <2>1. ASSUME NEW t \in Owners
        PROVE  /\ IsInjective(Private(task[t]))
               /\ Owned(t) \subseteq mem.used \ (Linked(mem, task) \cup {KERNEL_PDT})
               /\ \A u \in Owners \ {t} : Owned(t) \cap Owned(u) = {}
    <3>1. /\ IsInjective(Private(task[t])) /\ KERNEL_PDT \notin Own(task[t])
          /\ \A u \in OwnersOf(task) \ {t} : Own(task[t]) \cap Own(task[u]) = {}
      BY <1>1, <1>3, <2>1 DEF Exclusive
    <3>2. Owned(t) = Own(task[t]) /\ \A u \in Owners \ {t} : Owned(u) = Own(task[u])
      BY <1>3, <2>1 DEF Owners
    <3>3. Owned(t) \subseteq O
      BY <1>4, <2>1
    <3> HIDE DEF Owned, Own, Linked, Owners, OwnersOf
    <3> QED BY <1>2, <1>3, <1>6, <3>1, <3>2, <3>3
  <2>2. Linked(mem, task) \cup {KERNEL_PDT} \subseteq mem.used
    <3> HIDE DEF Linked
    <3> QED BY <1>2, <1>6
  <2> HIDE DEF Linked, Owned, Owners
  <2> QED BY <2>1, <2>2 DEF FramesExclusive
<1>8. NoFrameLost
  <2> SUFFICES ASSUME ~failed PROVE mem.used = Linked(mem, task) \cup O
    BY <1>4 DEF NoFrameLost
  <2>1. \A f \in mem.used : f \in O \/ \E d \in D, e \in DirEntries : mem.dir[d][e] = f
    BY <1>1 DEF Fits, Exact
  <2>2. NONE \notin mem.used
    BY Basics DEF Inv, TypeOK, Memory
  <2>3. \A f \in mem.used : f \in O \/ f \in Linked(mem, task)
    BY <1>5, <2>1, <2>2
  <2> HIDE DEF Linked
  <2> QED BY <1>2, <1>6, <2>3
<1>9. NoDanglingPage
  <2> SUFFICES ASSUME ~failed, NEW t \in Owners, NEW e \in UserEntries, NEW p \in Pages,
                      Dangling(t, e, p)
               PROVE  \E s \in stray : mem.dir[s[1]][s[2]] = mem.dir[task[t].pd][e] /\ s[3] = p
    BY DEF NoDanglingPage
  <2> DEFINE pt == mem.dir[task[t].pd][e]
             f == mem.table[pt][p]
  <2>0. /\ pt # NONE /\ f # NONE
        /\ \A u \in Owners, x \in UserEntries :
             mem.dir[task[u].pd][x] = pt => f \notin Kept(task[u], x)
    BY DEF Dangling
  <2>1. task[t].pd \in D
    BY DEF D, Directories, Owners
  <2>2. Backed(mem, D, C)
    BY <1>1 DEF Fits
  <2>3. Backs(mem, D, C, pt, p)
    BY <2>0, <2>1, <2>2 DEF Backed
  <2>4. PICK b \in D, x \in UserEntries : mem.dir[b][x] = pt /\ <<b, x, p, f>> \in C
    BY <2>3 DEF Backs
  <2> HIDE DEF f, pt
  <2>5. ASSUME NEW u \in Owners PROVE <<b, x, p, f>> \notin Claims(task[u])
    <3> SUFFICES ASSUME <<b, x, p, f>> \in Claims(task[u]) PROVE FALSE
      OBVIOUS
    <3> DEFINE r == task[u]
    <3>1. mem.dir[r.pd][x] = pt => f \notin Kept(r, x)
      BY <2>0
    <3>2. <<b, x, p, f>> \in Claims(r)
      OBVIOUS
    <3> HIDE DEF r
    <3>3. b = r.pd /\ f \in Kept(r, x)
      <4>1. CASE <<b, x, p, f>> \in CodeClaims(r.pd, r.code)
        BY <4>1 DEF CodeClaims, Kept
      <4>2. CASE <<b, x, p, f>> \in PageClaims(r.pd, "heap", 0, r.heap)
        BY <4>2 DEF PageClaims, Range, Kept
      <4>3. CASE r.stack # NONE /\ <<b, x, p, f>> = <<r.pd, "stack", 0, r.stack>>
        BY <4>3 DEF Kept
      <4>4. CASE r.type = "USER" /\ <<b, x, p, f>> = <<r.pd, "code", 0, r.paddr>>
        BY <4>4 DEF Kept
      <4> QED BY <3>2, <4>1, <4>2, <4>3, <4>4 DEF Claims
    <3> QED BY <2>4, <3>1, <3>3
  <2>6. <<b, x, p, f>> \in StrayClaims(stray)
    <3> DEFINE y == <<b, x, p, f>>
    <3>1. C = StrayClaims(stray) \cup UNION {Claims(task[u]) : u \in Owners}
      BY <1>3 DEF AllClaims
    <3>2. y \in C /\ \A u \in Owners : y \notin Claims(task[u])
      BY <2>4, <2>5
    <3> HIDE DEF y, C, Owners, Claims, StrayClaims
    <3>3. y \in StrayClaims(stray)
      BY <3>1, <3>2
    <3> QED BY <3>3 DEF y
  <2>7. PICK s \in stray : s[1] = b /\ s[2] = x /\ s[3] = p
    BY <2>6 DEF StrayClaims
  <2> QED BY <2>4, <2>7 DEF pt
<1> QED BY <1>7, <1>8, <1>9

-----------------------------------------------------------------------------
(* The inductive invariant holds for every number of frames, tasks and     *)
(* pages: whatever the sequence of creations, forks, execs, allocations    *)
(* and exits, memory is sound, and exact until a call reports an error.    *)
THEOREM MemoryStaysSound == Spec => []Inv
<1>1. Init => Inv
  BY InitInv
<1>2. Inv /\ [Next]_vars => Inv'
  BY NextInv
<1> QED BY <1>1, <1>2, PTL DEF Spec

(* Types and bounds: in particular no task ever has more than              *)
(* MAX_USER_CODE_PAGES pages of code or MAX_USER_HEAP_PAGES of heap, and   *)
(* no more kernel stacks are given back than were taken.                   *)
THEOREM TypeCorrect == Spec => []TypeOK
<1>1. Inv => TypeOK
  BY DEF Inv
<1> QED BY <1>1, MemoryStaysSound, PTL

(* No frame has two uses, on any path of creation, fork, exec and alloc,   *)
(* the ones that fail and give frames back included.                       *)
THEOREM FramesStayExclusive == Spec => []FramesExclusive
<1>1. Inv => FramesExclusive
  BY InvMeans
<1> QED BY <1>1, MemoryStaysSound, PTL

(* Until a call reports an error, every frame in use is accounted for.     *)
THEOREM NoFrameIsLost == Spec => []NoFrameLost
<1>1. Inv => NoFrameLost
  BY InvMeans
<1> QED BY <1>1, MemoryStaysSound, PTL

(* Until a call reports an error, a page of a task leads to a frame that a *)
(* task linking the table keeps for it, although a parent and its child    *)
(* share their page tables, for images laid out in any way; the pages of   *)
(* an image outside those that cleanup unmaps are the only exception.      *)
THEOREM NoPageDangles == Spec => []NoDanglingPage
<1>1. Inv => NoDanglingPage
  BY InvMeans
<1> QED BY <1>1, MemoryStaysSound, PTL
=============================================================================
