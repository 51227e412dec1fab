------------------------ MODULE ModuleLoader_proofs ------------------------
(***************************************************************************)
(* Loading and unloading modules keeps the frames apart: proofs about Pmm  *)
(* and ModuleLoader, for every memory map the boot loader may report,      *)
(* every set of objects and every number of slots.                         *)
(*                                                                         *)
(* First pmm_init: the frames it leaves free, computed from regions, are   *)
(* those the byte-by-byte reference calls usable, and the end of the last  *)
(* region stays in the bitmap.  Then the loops written as recursive        *)
(* functions: n calls of pmm_alloc_frame, and the sums over sections.      *)
(*                                                                         *)
(* The invariant divides the usable frames among the bitmap, the rest of   *)
(* the kernel, the page table and the lists of the modules (Divided), says *)
(* what the sections loaded so far look like in memory (Laid, Loading,     *)
(* Newest), and which pages may be mapped while a call is in progress      *)
(* (Mapped).  The last three are needed because a call runs in many steps: *)
(* what an error path unmaps by counting must be what the loop mapped.     *)
(***************************************************************************)
EXTENDS ModuleLoader, BoundedInduction

-----------------------------------------------------------------------------
(* The constants of pmm.c.                                                 *)
LEMMA PmmConstants ==
  /\ PAGE_SIZE \in Nat \ {0} /\ BITMAP_BITS \in Nat \ {0} /\ MAX_PMM_REGIONS \in Nat \ {0}
  /\ BIOS_END \in Nat /\ KERNEL_START \in Nat /\ KERNEL_END \in Nat /\ VGA \in Nat
  /\ KERNEL_START <= KERNEL_END - 1 /\ KERNEL_END - 1 \in Nat
  /\ NONE \in Frames /\ Frames \subseteq Nat
BY PmmAssumption DEF Frames, NONE

(* The frame of a byte.                                                    *)
LEMMA FrameBounds ==
  ASSUME NEW x \in Nat
  PROVE  /\ Frame(x) \in Nat /\ Frame(x) * PAGE_SIZE <= x /\ x < Frame(x) * PAGE_SIZE + PAGE_SIZE
         /\ \A f \in Nat : f <= Frame(x) <=> f * PAGE_SIZE <= x
         /\ \A f \in Nat : Frame(x) <= f <=> x < f * PAGE_SIZE + PAGE_SIZE
<1>1. PAGE_SIZE \in Nat \ {0}
  BY PmmConstants
<1>2. Frame(x) \in Nat /\ Frame(x) * PAGE_SIZE <= x /\ x < Frame(x) * PAGE_SIZE + PAGE_SIZE
  BY <1>1 DEF Frame
<1> DEFINE q == Frame(x)
<1> HIDE DEF q
<1>3. ASSUME NEW a \in Nat, NEW b \in Nat, a <= b PROVE a * PAGE_SIZE <= b * PAGE_SIZE
  BY <1>1, <1>3
<1>4. ASSUME NEW a \in Nat, NEW b \in Nat, a < b PROVE a * PAGE_SIZE + PAGE_SIZE <= b * PAGE_SIZE
  BY <1>1, <1>4
<1>5. q \in Nat /\ q * PAGE_SIZE <= x /\ x < q * PAGE_SIZE + PAGE_SIZE
  BY <1>2 DEF q
<1>6. ASSUME NEW f \in Nat PROVE f <= q <=> f * PAGE_SIZE <= x
  <2>1. CASE f <= q
    <3>1. f * PAGE_SIZE <= q * PAGE_SIZE
      BY <1>3, <1>5, <2>1
    <3> QED BY <1>1, <1>5, <2>1, <3>1
  <2>2. CASE q < f
    <3>1. q * PAGE_SIZE + PAGE_SIZE <= f * PAGE_SIZE
      BY <1>4, <1>5, <2>2
    <3> QED BY <1>1, <1>5, <2>2, <3>1
  <2> QED BY <1>5, <2>1, <2>2
<1>7. ASSUME NEW f \in Nat PROVE q <= f <=> x < f * PAGE_SIZE + PAGE_SIZE
  <2>1. CASE q <= f
    <3>1. q * PAGE_SIZE <= f * PAGE_SIZE
      BY <1>3, <1>5, <2>1
    <3> QED BY <1>1, <1>5, <2>1, <3>1
  <2>2. CASE f < q
    <3>1. f * PAGE_SIZE + PAGE_SIZE <= q * PAGE_SIZE
      BY <1>4, <1>5, <2>2
    <3> QED BY <1>1, <1>5, <2>2, <3>1
  <2> QED BY <1>5, <2>1, <2>2
<1> QED BY <1>2, <1>6, <1>7 DEF q

(* A frame has bytes of an interval if it lies between the frames of its   *)
(* ends.                                                                   *)
LEMMA Touches ==
  ASSUME NEW a \in Nat, NEW b \in Nat, a <= b, NEW f \in Nat
  PROVE  BytesOf(f) \cap a..b # {} <=> Frame(a) <= f /\ f <= Frame(b)
<1>1. PAGE_SIZE \in Nat \ {0} /\ f * PAGE_SIZE \in Nat
  BY PmmConstants
<1> DEFINE y == f * PAGE_SIZE
<1>2. /\ f <= Frame(b) <=> y <= b
      /\ Frame(a) <= f <=> a < y + PAGE_SIZE
  BY FrameBounds
<1>3. BytesOf(f) = y .. y + PAGE_SIZE - 1
  BY DEF BytesOf
<1>4. y \in Nat
  BY <1>1
<1> HIDE DEF y
<1>5. ASSUME NEW x \in BytesOf(f) \cap a..b PROVE y <= b /\ a < y + PAGE_SIZE
  BY <1>1, <1>3, <1>4
<1>6. ASSUME y <= b, a < y + PAGE_SIZE PROVE BytesOf(f) \cap a..b # {}
  <2>1. CASE a <= y
    <3>1. y \in a..b /\ y \in y .. y + PAGE_SIZE - 1
      BY <1>1, <1>4, <1>6, <2>1
    <3> QED BY <1>3, <3>1
  <2>2. CASE y < a
    <3>1. a \in a..b /\ a \in y .. y + PAGE_SIZE - 1
      BY <1>1, <1>4, <1>6, <2>2
    <3> QED BY <1>3, <3>1
  <2> QED BY <1>4, <2>1, <2>2
<1> HIDE DEF BytesOf
<1> QED BY <1>2, <1>5, <1>6

(* A region of the memory map ends in the bitmap.                          *)
LEMMA EndFrameInBitmap ==
  ASSUME NEW r \in MapEntry
  PROVE  EndFrame(r) \in Frames
<1> HIDE DEF Frame
<1> QED BY PmmConstants DEF EndFrame, Frames

(* Where it ends, unless it is empty.                                      *)
LEMMA EndFrameIs ==
  ASSUME NEW r \in MapEntry, r.len > 0
  PROVE  /\ EndFrame(r) \in Frames
         /\ \A f \in Frames : f <= EndFrame(r) <=> f <= Frame(r.addr + r.len - 1)
<1> DEFINE x == r.addr + r.len - 1
           y == r.addr + r.len + PAGE_SIZE - 1
           last == Frame(y) - 1
<1>1. x \in Nat /\ y \in Nat /\ y = x + PAGE_SIZE /\ PAGE_SIZE \in Nat \ {0}
  BY PmmConstants DEF MapEntry
<1>2. EndFrame(r) = IF last \in Frames THEN last ELSE BITMAP_BITS - 1
  BY DEF EndFrame
<1> HIDE DEF x, y
<1>3. /\ Frame(x) \in Nat /\ Frame(x) * PAGE_SIZE <= x /\ x < Frame(x) * PAGE_SIZE + PAGE_SIZE
      /\ Frame(y) \in Nat
      /\ \A f \in Nat : f <= Frame(y) <=> f * PAGE_SIZE <= y
      /\ \A f \in Nat : Frame(y) <= f <=> y < f * PAGE_SIZE + PAGE_SIZE
  BY <1>1, FrameBounds
<1> DEFINE q == Frame(x)
<1>4. q \in Nat /\ q * PAGE_SIZE <= x /\ x < q * PAGE_SIZE + PAGE_SIZE
  BY <1>3
<1> HIDE DEF q, Frame
<1>5. (q + 1) * PAGE_SIZE = q * PAGE_SIZE + PAGE_SIZE /\ q + 1 \in Nat /\ q * PAGE_SIZE \in Nat
  BY <1>1, <1>4
<1>6. q + 1 <= Frame(y)
  <2>1. (q + 1) * PAGE_SIZE <= y
    BY <1>1, <1>4, <1>5
  <2> QED BY <1>3, <1>5, <2>1
<1>7. Frame(y) <= q + 1
  <2>1. y < (q + 1) * PAGE_SIZE + PAGE_SIZE
    BY <1>1, <1>4, <1>5
  <2> QED BY <1>3, <1>5, <2>1
<1>8. last = q
  BY <1>3, <1>4, <1>6, <1>7
<1>9. BITMAP_BITS \in Nat \ {0}
  BY PmmConstants
<1>10. EndFrame(r) \in Frames /\ \A f \in Frames : f <= EndFrame(r) <=> f <= q
  <2> HIDE DEF last
  <2> QED BY <1>2, <1>4, <1>8, <1>9 DEF Frames
<1> QED BY <1>10 DEF q, x

(* The regions pmm_init reserves, as a set.                                *)
LEMMA ReservedRegions ==
  ASSUME NEW i \in BootInfos
  PROVE  /\ Range(Reserved(i)) =
              { Region(0, Frame(BIOS_END), 0),
                Region(Frame(KERNEL_START), Frame(KERNEL_END - 1), 0),
                Region(Frame(VGA), Frame(VGA), 0) }
              \cup (IF i.mmap
                    THEN {Region(Frame(i.mmap_addr), Frame(i.mmap_addr + i.mmap_length - 1), 0)}
                    ELSE {})
         /\ Reserved(i) \in Seq(Range(Reserved(i)))
         /\ Len(Reserved(i)) \in Nat \ {0}
<1> DEFINE a == Region(0, Frame(BIOS_END), 0)
           b == Region(Frame(KERNEL_START), Frame(KERNEL_END - 1), 0)
           c == Region(Frame(VGA), Frame(VGA), 0)
           d == Region(Frame(i.mmap_addr), Frame(i.mmap_addr + i.mmap_length - 1), 0)
           s == Reserved(i)
<1>1. s = IF i.mmap THEN <<a, b, c, d>> ELSE <<a, b, c>>
  <2>1. s = <<a, b, c>> \o (IF i.mmap THEN <<d>> ELSE <<>>)
    BY DEF Reserved
  <2> HIDE DEF a, b, c, d, s
  <2> QED BY <2>1
<1> HIDE DEF a, b, c, d, s
<1>2. Range(s) = {a, b, c} \cup (IF i.mmap THEN {d} ELSE {})
  BY <1>1 DEF Range
<1>3. s \in Seq(Range(s)) /\ Len(s) \in Nat \ {0}
  <2>1. CASE i.mmap
    BY <1>1, <1>2, <2>1
  <2>2. CASE ~i.mmap
    BY <1>1, <1>2, <2>2
  <2> QED BY <2>1, <2>2
<1> QED BY <1>2, <1>3 DEF a, b, c, d, s

(* A frame has bytes that are taken if it is in a region that is reserved. *)
LEMMA TakenIsReserved ==
  ASSUME NEW i \in BootInfos, NEW f \in Frames
  PROVE  f \in Marked(Reserved(i), 0) <=> BytesOf(f) \cap Taken(i) # {}
<1> DEFINE e == i.mmap_addr + i.mmap_length - 1
<1>1. /\ i.mmap_addr \in Nat /\ e \in Nat /\ i.mmap_addr <= e /\ f \in Nat
      /\ BIOS_END \in Nat /\ KERNEL_START \in Nat /\ KERNEL_END - 1 \in Nat /\ VGA \in Nat
      /\ KERNEL_START <= KERNEL_END - 1 /\ 0 <= BIOS_END /\ 0 \in Nat /\ VGA <= VGA
  BY PmmConstants, PmmAssumption DEF BootInfo
<1> HIDE DEF e
<1> DEFINE A == 0 .. BIOS_END
           B == KERNEL_START .. KERNEL_END - 1
           C == VGA .. VGA
           D == i.mmap_addr .. e
           in(x, y) == Frame(x) <= f /\ f <= Frame(y)
<1>2. /\ BytesOf(f) \cap A # {} <=> in(0, BIOS_END)
      /\ BytesOf(f) \cap B # {} <=> in(KERNEL_START, KERNEL_END - 1)
      /\ BytesOf(f) \cap C # {} <=> in(VGA, VGA)
      /\ BytesOf(f) \cap D # {} <=> in(i.mmap_addr, e)
  BY <1>1, Touches
<1>3. Taken(i) = A \cup B \cup C \cup (IF i.mmap THEN D ELSE {})
  BY <1>1 DEF Taken, e
<1>4. Frame(0) = 0
  BY PmmConstants DEF Frame
<1> DEFINE a == Region(0, Frame(BIOS_END), 0)
           b == Region(Frame(KERNEL_START), Frame(KERNEL_END - 1), 0)
           c == Region(Frame(VGA), Frame(VGA), 0)
           d == Region(Frame(i.mmap_addr), Frame(e), 0)
<1>5. Range(Reserved(i)) = {a, b, c} \cup (IF i.mmap THEN {d} ELSE {})
  BY ReservedRegions DEF e
<1>6. /\ Frame(BIOS_END) \in Nat /\ Frame(KERNEL_START) \in Nat /\ Frame(KERNEL_END - 1) \in Nat
      /\ Frame(VGA) \in Nat /\ Frame(i.mmap_addr) \in Nat /\ Frame(e) \in Nat
  BY <1>1, FrameBounds
<1>7. /\ a.type = 0 /\ f \in a.first .. a.last <=> in(0, BIOS_END)
      /\ b.type = 0 /\ f \in b.first .. b.last <=> in(KERNEL_START, KERNEL_END - 1)
      /\ c.type = 0 /\ f \in c.first .. c.last <=> in(VGA, VGA)
      /\ d.type = 0 /\ f \in d.first .. d.last <=> in(i.mmap_addr, e)
  <2> HIDE DEF Frame
  <2> QED BY <1>1, <1>4, <1>6 DEF Region
<1>8. a.type = 0 /\ b.type = 0 /\ c.type = 0 /\ d.type = 0
  BY DEF Region
<1> HIDE DEF a, b, c, d, A, B, C, D, in, BytesOf, Frame
<1>9. f \in Marked(Reserved(i), 0) <=>
        \/ f \in a.first .. a.last \/ f \in b.first .. b.last \/ f \in c.first .. c.last
        \/ i.mmap /\ f \in d.first .. d.last
  BY <1>5, <1>8 DEF Marked
<1>10. BytesOf(f) \cap Taken(i) # {} <=>
        \/ BytesOf(f) \cap A # {} \/ BytesOf(f) \cap B # {} \/ BytesOf(f) \cap C # {}
        \/ i.mmap /\ BytesOf(f) \cap D # {}
  BY <1>3
<1> QED BY <1>2, <1>7, <1>8, <1>9, <1>10

(* It has bytes of memory if it is in a region of memory.                  *)
LEMMA MemoryIsReported ==
  ASSUME NEW i \in BootInfos, NoEmptyRegion(i), NEW f \in Frames
  PROVE  f \in Marked(Reported(i), 1) <=> BytesOf(f) \cap Memory(i) # {}
<1>1. i \in BootInfo /\ i.top >= PAGE_SIZE /\ f \in Nat /\ PAGE_SIZE \in Nat \ {0} /\ BITMAP_BITS \in Nat \ {0}
  BY PmmAssumption, PmmConstants
<1>2. CASE i.mmap
  <2> DEFINE N == Len(i.map)
             reg(k) == Region(Frame(i.map[k].addr), EndFrame(i.map[k]), i.map[k].type)
             ram(k) == i.map[k].addr .. i.map[k].addr + i.map[k].len - 1
  <2>1. Reported(i) = [k \in 1..N |-> reg(k)]
    BY <1>2 DEF Reported
  <2>2. Memory(i) = UNION {ram(k) : k \in {j \in 1..N : i.map[j].type = 1}}
    BY <1>2 DEF Memory
  <2>3. ASSUME NEW k \in 1..N
        PROVE  f \in reg(k).first .. reg(k).last <=> BytesOf(f) \cap ram(k) # {}
    <3> DEFINE r == i.map[k]
               x == r.addr + r.len - 1
    <3>1. r \in MapEntry /\ r.len > 0
      BY <1>1, <1>2 DEF BootInfo, NoEmptyRegion
    <3>2. r.addr \in Nat /\ x \in Nat /\ r.addr <= x
      BY <3>1 DEF MapEntry
    <3> HIDE DEF r
    <3>3. BytesOf(f) \cap r.addr .. x # {} <=> Frame(r.addr) <= f /\ f <= Frame(x)
      <4> HIDE DEF x
      <4> QED BY <1>1, <3>2, Touches
    <3>4. EndFrame(r) \in Frames /\ (f <= EndFrame(r) <=> f <= Frame(x))
      BY <3>1, EndFrameIs
    <3>5. EndFrame(r) \in Nat /\ Frame(r.addr) \in Nat
      BY <3>2, <3>4, FrameBounds, PmmConstants
    <3>6. reg(k).first = Frame(r.addr) /\ reg(k).last = EndFrame(r)
      BY DEF r, Region
    <3> HIDE DEF x, Frame, EndFrame, BytesOf
    <3>7. f \in reg(k).first .. reg(k).last <=> Frame(r.addr) <= f /\ f <= EndFrame(r)
      <4> HIDE DEF reg
      <4> QED BY <1>1, <3>5, <3>6
    <3>8. ram(k) = r.addr .. x
      BY DEF r, x
    <3> HIDE DEF reg, ram
    <3> QED BY <3>3, <3>4, <3>7, <3>8
  <2>4. \A k \in 1..N : reg(k).type = i.map[k].type
    BY DEF Region
  <2> HIDE DEF reg, ram, N, BytesOf
  <2>5. Range(Reported(i)) = {reg(k) : k \in 1..N}
    BY <2>1 DEF Range
  <2>6. f \in Marked(Reported(i), 1) <=>
          \E k \in 1..N : reg(k).type = 1 /\ f \in reg(k).first .. reg(k).last
    BY <2>5 DEF Marked
  <2>7. BytesOf(f) \cap Memory(i) # {} <=>
          \E k \in 1..N : i.map[k].type = 1 /\ BytesOf(f) \cap ram(k) # {}
    BY <2>2
  <2> QED BY <2>3, <2>4, <2>6, <2>7
<1>3. CASE ~i.mmap
  <2> DEFINE n == Frame(i.top)
             last == Min({n, BITMAP_BITS}) - 1
             r == Region(0, last, 1)
  <2>1. Reported(i) = <<r>> /\ Memory(i) = 0 .. n * PAGE_SIZE - 1
    BY <1>3 DEF Reported, Memory
  <2>2. n \in Nat /\ n >= 1
    <3>1. i.top \in Nat /\ PAGE_SIZE <= i.top /\ 1 \in Nat /\ 1 * PAGE_SIZE = PAGE_SIZE
      BY <1>1 DEF BootInfo
    <3>2. n \in Nat /\ (1 <= n <=> 1 * PAGE_SIZE <= i.top)
      <4> HIDE DEF Frame
      <4> QED BY <3>1, FrameBounds
    <3> QED BY <3>1, <3>2
  <2> HIDE DEF n
  <2>3. last = (IF n <= BITMAP_BITS THEN n ELSE BITMAP_BITS) - 1
    <3>1. Min({n, BITMAP_BITS}) = IF n <= BITMAP_BITS THEN n ELSE BITMAP_BITS
      BY <1>1, <2>2 DEF Min
    <3> QED BY <3>1
  <2> HIDE DEF last
  <2>4. last \in Int /\ f < BITMAP_BITS /\ (f <= last <=> f <= n - 1)
    BY <1>1, <2>2, <2>3 DEF Frames
  <2>5. Range(Reported(i)) = {r} /\ r.first = 0 /\ r.last = last /\ r.type = 1
    BY <2>1 DEF Range, Region
  <2> HIDE DEF r
  <2>6. f \in Marked(Reported(i), 1) <=> f \in 0..last
    BY <2>5 DEF Marked
  <2>7. f \in 0..last <=> f <= n - 1
    BY <1>1, <2>4
  <2>8. n * PAGE_SIZE - 1 \in Nat /\ 0 <= n * PAGE_SIZE - 1
    BY <1>1, <2>2
  <2> DEFINE x == n * PAGE_SIZE - 1
  <2>9. BytesOf(f) \cap 0..x # {} <=> Frame(0) <= f /\ f <= Frame(x)
    <3> HIDE DEF x
    <3>1. x \in Nat /\ 0 <= x /\ 0 \in Nat
      BY <2>8 DEF x
    <3> QED BY <1>1, <3>1, Touches
  <2>10. f <= Frame(x) <=> f <= n - 1
    <3>1. f <= Frame(x) <=> f * PAGE_SIZE <= x
      BY <1>1, <2>8, FrameBounds
    <3>2. CASE f <= n - 1
      <4>1. (n - 1) * PAGE_SIZE = x + 1 - PAGE_SIZE /\ n - 1 \in Nat
        BY <1>1, <2>2
      <4>2. f * PAGE_SIZE <= (n - 1) * PAGE_SIZE
        BY <1>1, <2>2, <3>2, <4>1
      <4>3. f * PAGE_SIZE \in Nat /\ x \in Nat
        BY <1>1, <2>8
      <4> HIDE DEF x
      <4> QED BY <1>1, <3>1, <3>2, <4>1, <4>2, <4>3
    <3>3. CASE n <= f
      <4>1. n * PAGE_SIZE <= f * PAGE_SIZE
        BY <1>1, <2>2, <3>3
      <4>2. n * PAGE_SIZE \in Nat /\ f * PAGE_SIZE \in Nat
        BY <1>1, <2>2
      <4> QED BY <1>1, <2>2, <3>1, <3>3, <4>1, <4>2
    <3> QED BY <1>1, <2>2, <3>2, <3>3
  <2>11. Frame(0) <= f
    <3>1. Frame(0) = 0
      BY PmmConstants DEF Frame
    <3> QED BY <1>1, <3>1
  <2> HIDE DEF Frame, BytesOf
  <2> QED BY <2>1, <2>6, <2>7, <2>9, <2>10, <2>11
<1> QED BY <1>2, <1>3

(* pmm_init frees exactly the frames that are usable.                      *)
LEMMA InitFree ==
  ASSUME NEW i \in BootInfos, NoEmptyRegion(i)
  PROVE  FreedAtBoot(i) = Usable(i)
<1>1. ASSUME NEW f \in Frames
      PROVE  f \in Marked(Reported(i), 1) \ Marked(Reserved(i), 0) <=> f \in Usable(i)
  <2> HIDE DEF Marked, Reported, Reserved, BytesOf, Memory, Taken, Frames
  <2> QED BY TakenIsReserved, MemoryIsReported DEF Usable
<1>2. Usable(i) \subseteq Frames
  BY DEF Usable
<1> HIDE DEF Marked, Reported, Reserved, Usable, Frames
<1> QED BY <1>1, <1>2 DEF FreedAtBoot

(* Frame 0, whose address is NULL, is not freed.                           *)
LEMMA NoneNotFreed ==
  ASSUME NEW i \in BootInfos
  PROVE  FreedAtBoot(i) \subseteq Frames \ {NONE}
<1>1. 0 \in BytesOf(0) /\ 0 \in 0 .. BIOS_END /\ 0 \in Frames
  BY PmmConstants DEF BytesOf, Frames
<1>2. 0 \in Taken(i)
  BY <1>1 DEF Taken
<1>3. 0 \in Marked(Reserved(i), 0)
  <2> HIDE DEF Marked, Reserved, BytesOf, Taken, Frames
  <2> QED BY <1>1, <1>2, TakenIsReserved
<1> HIDE DEF Marked, Reserved, Reported
<1> QED BY <1>3 DEF FreedAtBoot, NONE

(* A set of naturals has a least member.                                   *)
LEMMA MinMember ==
  ASSUME NEW S \in SUBSET Nat, S # {}
  PROVE  Min(S) \in S /\ \A y \in S : Min(S) <= y
BY LeastMember DEF Min

(* A set of numbers up to N has a greatest one.                            *)
LEMMA MaxMember ==
  ASSUME NEW N \in Nat, NEW S \in SUBSET (0..N), S # {}
  PROVE  Max(S) \in S
<1> DEFINE R == {k \in Nat : N - k \in S}
<1>1. PICK z : z \in S
  OBVIOUS
<1>2. N - z \in R
  <2>1. z \in 0..N
    BY <1>1
  <2>2. N - z \in Nat /\ N - (N - z) = z
    BY <2>1
  <2> QED BY <1>1, <2>2
<1>3. PICK w \in R : \A y \in R : w <= y
  <2>1. R \in SUBSET Nat /\ R # {}
    BY <1>2
  <2> HIDE DEF R
  <2> QED BY <2>1, LeastMember
<1> DEFINE x == N - w
<1>4. x \in S
  BY <1>3
<1>5. ASSUME NEW y \in S PROVE x >= y
  <2>1. y \in 0..N
    OBVIOUS
  <2>2. N - y \in Nat /\ N - (N - y) = y
    BY <2>1
  <2>3. N - y \in R
    BY <2>2
  <2>4. w \in Nat /\ w <= N - y
    BY <1>3, <2>3
  <2> HIDE DEF R
  <2> QED BY <2>1, <2>4
<1> HIDE DEF x
<1> QED BY <1>4, <1>5 DEF Max

(* No region reaches past the bitmap.                                      *)
LEMMA RegionsInBitmap ==
  ASSUME NEW i \in BootInfos
  PROVE  \A r \in Range(Reported(i)) \cup Range(Reserved(i)) : r.last + 1 \in 0..BITMAP_BITS
<1>1. i \in BootInfo /\ i.top >= PAGE_SIZE /\ PAGE_SIZE \in Nat \ {0} /\ BITMAP_BITS \in Nat \ {0}
  BY PmmAssumption, PmmConstants
<1>2. ASSUME NEW x \in Nat, x < BITMAP_BITS * PAGE_SIZE PROVE Frame(x) + 1 \in 0..BITMAP_BITS
  <2>1. Frame(x) \in Nat /\ (BITMAP_BITS <= Frame(x) <=> BITMAP_BITS * PAGE_SIZE <= x)
    BY <1>1, FrameBounds
  <2>2. BITMAP_BITS * PAGE_SIZE \in Nat
    BY <1>1
  <2> HIDE DEF Frame
  <2> QED BY <1>1, <1>2, <2>1, <2>2
<1>3. ASSUME NEW r \in Range(Reserved(i)) PROVE r.last + 1 \in 0..BITMAP_BITS
  <2> DEFINE e == i.mmap_addr + i.mmap_length - 1
  <2>1. /\ BIOS_END \in Nat /\ KERNEL_END - 1 \in Nat /\ VGA \in Nat
        /\ BIOS_END < BITMAP_BITS * PAGE_SIZE /\ KERNEL_END - 1 < BITMAP_BITS * PAGE_SIZE
        /\ VGA < BITMAP_BITS * PAGE_SIZE
    BY PmmAssumption, PmmConstants
  <2>2. e \in Nat /\ (i.mmap => e < BITMAP_BITS * PAGE_SIZE)
    <3>1. i.mmap => i.mmap_addr + i.mmap_length <= BITMAP_BITS * PAGE_SIZE
      BY PmmAssumption
    <3>2. i.mmap_addr \in Nat /\ i.mmap_length \in Nat \ {0} /\ BITMAP_BITS * PAGE_SIZE \in Nat
      BY <1>1 DEF BootInfo
    <3> QED BY <3>1, <3>2
  <2> HIDE DEF e
  <2>3. r.last \in {Frame(BIOS_END), Frame(KERNEL_END - 1), Frame(VGA)} \/ (i.mmap /\ r.last = Frame(e))
    <3> HIDE DEF Frame
    <3> QED BY <1>3, ReservedRegions DEF Region, e
  <2> HIDE DEF Frame
  <2> QED BY <1>2, <2>1, <2>2, <2>3
<1>4. ASSUME NEW r \in Range(Reported(i)) PROVE r.last + 1 \in 0..BITMAP_BITS
  <2>1. CASE i.mmap
    <3>1. PICK k \in 1..Len(i.map) :
            r = Region(Frame(i.map[k].addr), EndFrame(i.map[k]), i.map[k].type)
      BY <1>4, <2>1 DEF Reported, Range
    <3>2. i.map[k] \in MapEntry
      BY <1>1 DEF BootInfo
    <3>3. r.last \in Frames
      <4> HIDE DEF EndFrame, Frame, Frames
      <4> QED BY <3>1, <3>2, EndFrameInBitmap DEF Region
    <3> QED BY <1>1, <3>3 DEF Frames
  <2>2. CASE ~i.mmap
    <3> DEFINE n == Frame(i.top)
    <3>1. r = Region(0, Min({n, BITMAP_BITS}) - 1, 1)
      BY <1>4, <2>2 DEF Reported, Range
    <3>2. n \in Nat
      BY <1>1, FrameBounds DEF BootInfo
    <3> HIDE DEF n
    <3>3. Min({n, BITMAP_BITS}) \in 0..BITMAP_BITS
      BY <1>1, <3>2 DEF Min
    <3> DEFINE x == Min({n, BITMAP_BITS})
    <3> HIDE DEF x
    <3>4. r.last = x - 1 /\ x \in 0..BITMAP_BITS
      BY <3>1, <3>3 DEF Region, x
    <3> QED BY <1>1, <3>4
  <2> QED BY <2>1, <2>2
<1> QED BY <1>3, <1>4

(* pmm_init: the bitmap and its end.                                       *)
LEMMA PmmInitMeans ==
  ASSUME PmmInit
  PROVE  info \in BootInfos /\ free = FreedAtBoot(info) /\ total_frames \in 0..BITMAP_BITS
<1>1. info \in BootInfos /\ free = FreedAtBoot(info)
  <2> HIDE DEF FreedAtBoot
  <2> QED BY DEF PmmInit
<1> DEFINE rep == Reported(info)
           res == Reserved(info)
           all == rep \o res
           top == Min({Len(all), MAX_PMM_REGIONS})
           recorded == {all[k] : k \in 1..top}
           seen == recorded \cup Range(rep) \cup (IF info.mmap THEN {Last(res)} ELSE {})
           ends == {r.last + 1 : r \in seen}
<1>2. total_frames = Max(ends)
  <2> HIDE DEF Marked, Reported, Reserved, Max, Last
  <2> QED BY DEF PmmInit
<1>3. \A r \in Range(rep) \cup Range(res) : r.last + 1 \in 0..BITMAP_BITS
  BY <1>1, RegionsInBitmap
<1>4. rep \in Seq(Range(rep))
  <2>1. info \in BootInfo
    BY <1>1, PmmAssumption
  <2>2. CASE info.mmap
    <3>1. Len(info.map) \in Nat
      BY <2>1 DEF BootInfo
    <3>2. rep = [k \in 1..Len(info.map) |->
                   Region(Frame(info.map[k].addr), EndFrame(info.map[k]), info.map[k].type)]
      BY <2>2 DEF Reported
    <3> HIDE DEF rep
    <3>3. DOMAIN rep = 1..Len(info.map) /\ \A k \in 1..Len(info.map) : rep[k] \in Range(rep)
      BY <3>2 DEF Range
    <3>4. rep = [k \in 1..Len(info.map) |-> rep[k]]
      BY <3>2
    <3> QED BY <3>1, <3>3, <3>4
  <2>3. CASE ~info.mmap
    <3> DEFINE r == Region(0, Min({Frame(info.top), BITMAP_BITS}) - 1, 1)
    <3>1. rep = <<r>>
      BY <2>3 DEF Reported
    <3> HIDE DEF r, rep
    <3> QED BY <3>1 DEF Range
  <2> QED BY <2>2, <2>3
<1>5. res \in Seq(Range(res)) /\ Len(res) \in Nat \ {0}
  BY <1>1, ReservedRegions
<1> HIDE DEF rep, res
<1>6. /\ Len(all) \in Nat \ {0} /\ DOMAIN all = 1..Len(all)
      /\ \A k \in 1..Len(all) : all[k] \in Range(rep) \cup Range(res)
  <2>1. rep \in Seq(Range(rep) \cup Range(res)) /\ res \in Seq(Range(rep) \cup Range(res))
    BY <1>4, <1>5
  <2>2. all \in Seq(Range(rep) \cup Range(res)) /\ Len(all) = Len(rep) + Len(res)
    BY <2>1
  <2>3. Len(rep) \in Nat
    BY <1>4
  <2> HIDE DEF all
  <2> QED BY <1>5, <2>2, <2>3
<1> HIDE DEF all
<1>7. top \in 1..Len(all)
  BY <1>6, PmmConstants DEF Min
<1> HIDE DEF top
<1>8. recorded # {} /\ recorded \subseteq Range(rep) \cup Range(res)
  <2>1. 1 \in 1..top /\ \A k \in 1..top : k \in 1..Len(all)
    BY <1>6, <1>7
  <2> QED BY <1>6, <2>1
<1>9. Last(res) \in Range(res)
  BY <1>5 DEF Last, Range
<1> HIDE DEF recorded, Last
<1>10. seen # {} /\ seen \subseteq Range(rep) \cup Range(res)
  BY <1>8, <1>9
<1> HIDE DEF seen
<1>11. ends \in SUBSET (0..BITMAP_BITS) /\ ends # {}
  BY <1>3, <1>10
<1> HIDE DEF ends
<1>12. Max(ends) \in ends
  BY <1>11, PmmConstants, MaxMember
<1> QED BY <1>1, <1>2, <1>11, <1>12

(* n calls of pmm_alloc_frame, as a run: each takes the lowest frame left. *)
LEMMA LowestRun ==
  ASSUME NEW n \in Nat, free \subseteq Frames
  PROVE  \E h : /\ h[0] = Available
                /\ \A i \in 1..n : h[i] = h[i-1] \ {Min(h[i-1])}
                /\ LowestFrames(n) = [i \in 1..n |-> Min(h[i-1])]
<1> DEFINE S == SUBSET Available
           cut(x) == x \ {Min(x)}
           step == [x \in (1..n) \X S |-> cut(x[2])]
           Rec(g) == [i \in 0..n |-> IF i = 0 THEN Available ELSE g[i-1] \ {Min(g[i-1])}]
<1>1. Available \in S /\ step \in [(1..n) \X S -> S]
  <2>1. ASSUME NEW x \in (1..n) \X S PROVE cut(x[2]) \in S
    <3> HIDE DEF Min, Available
    <3> QED OBVIOUS
  <2> HIDE DEF cut, S
  <2>2. step \in [(1..n) \X S -> S]
    BY <2>1
  <2> QED BY <2>2 DEF S
<1>2. PICK g : IsRun(g, n, S, Available, step)
  <2> HIDE DEF S, step, Available
  <2> QED BY <1>1, LoopRuns
<1>3. \A i \in 1..n : g[i] = cut(g[i-1])
  <2> SUFFICES ASSUME NEW i \in 1..n PROVE g[i] = cut(g[i-1])
    OBVIOUS
  <2>1. i - 1 \in 0..n
    OBVIOUS
  <2>2. <<i, g[i-1]>> \in (1..n) \X S
    BY <1>2, <2>1 DEF IsRun
  <2> HIDE DEF cut, S
  <2> QED BY <1>2, <2>2 DEF IsRun
<1>4. g = Rec(g)
  <2>1. \A i \in 0..n : i # 0 => i \in 1..n
    OBVIOUS
  <2>2. \A i \in 1..n : g[i] = g[i-1] \ {Min(g[i-1])}
    BY <1>3
  <2>3. g \in [0..n -> S] /\ g[0] = Available
    BY <1>2 DEF IsRun
  <2> HIDE DEF S, Available, Min
  <2> QED BY <2>1, <2>2, <2>3
<1>5. LowestFrames(n) = [i \in 1..n |-> Min((CHOOSE h : h = Rec(h))[i-1])]
  BY DEF LowestFrames
<1>6. PICK h : h = Rec(h) /\ LowestFrames(n) = [i \in 1..n |-> Min(h[i-1])]
  <2> HIDE DEF Rec, Min
  <2> QED BY <1>4, <1>5
<1>7. ASSUME NEW i \in 0..n
      PROVE  h[i] = IF i = 0 THEN Available ELSE h[i-1] \ {Min(h[i-1])}
  <2> DEFINE v == Rec(h)
  <2>1. h[i] = v[i]
    BY <1>6
  <2>2. v[i] = IF i = 0 THEN Available ELSE h[i-1] \ {Min(h[i-1])}
    <3> HIDE DEF Min, Available
    <3> QED OBVIOUS
  <2> HIDE DEF v
  <2> QED BY <2>1, <2>2
<1>8. h[0] = Available /\ \A i \in 1..n : h[i] = h[i-1] \ {Min(h[i-1])}
  <2>1. 0 \in 0..n /\ \A i \in 1..n : i \in 0..n /\ i # 0
    OBVIOUS
  <2> HIDE DEF Min, Available, Rec
  <2>2. h[0] = Available
    BY <1>7, <2>1
  <2>3. ASSUME NEW i \in 1..n PROVE h[i] = h[i-1] \ {Min(h[i-1])}
    BY <1>7, <2>1
  <2> QED BY <2>2, <2>3
<1> QED BY <1>6, <1>8

(* The frames that can be found are finitely many.                         *)
LEMMA AvailableFinite ==
  ASSUME free \subseteq Frames
  PROVE  Available \subseteq free /\ IsFiniteSet(Available) /\ Cardinality(Available) \in Nat
<1>1. 0 \in Int /\ BITMAP_BITS - 1 \in Int
  BY PmmConstants
<1>2. IsFiniteSet(Frames)
  BY <1>1, FS_Interval DEF Frames
<1>3. Available \subseteq free /\ Available \in SUBSET Frames
  BY DEF Available
<1>4. IsFiniteSet(Available)
  BY <1>2, <1>3, FS_Subset
<1> QED BY <1>3, <1>4, FS_CardinalityType

(* The members of a sequence differ.                                       *)
Distinct(t) == \A x, y \in 1..Len(t) : t[x] = t[y] => x = y

(* pmm_alloc_frame, called n times with as many frames left, returns n     *)
(* different ones.                                                         *)
LEMMA LowestFramesUse ==
  ASSUME NEW n \in Nat, free \subseteq Frames, n <= Cardinality(Available)
  PROVE  /\ LowestFrames(n) \in Seq(Frames) /\ Len(LowestFrames(n)) = n
         /\ Range(LowestFrames(n)) \subseteq Available
         /\ Distinct(LowestFrames(n))
<1>1. PICK h : /\ h[0] = Available
               /\ \A i \in 1..n : h[i] = h[i-1] \ {Min(h[i-1])}
               /\ LowestFrames(n) = [i \in 1..n |-> Min(h[i-1])]
  BY LowestRun
<1> DEFINE t == LowestFrames(n)
           A == Available
<1>2. A \subseteq Frames /\ IsFiniteSet(A) /\ Cardinality(A) \in Nat /\ Frames \subseteq Nat
  BY AvailableFinite, PmmConstants
<1> HIDE DEF A
<1> DEFINE Ok(i) == /\ h[i] \subseteq A /\ IsFiniteSet(h[i]) /\ Cardinality(h[i]) = Cardinality(A) - i
                    /\ \A x \in 1..i : Min(h[x-1]) \in A /\ Min(h[x-1]) \notin h[i]
           P == {i \in 0..n : Ok(i)}
<1>3. 0 \in P
  <2>1. Ok(0)
    BY <1>1, <1>2 DEF A
  <2> HIDE DEF Ok
  <2> QED BY <2>1
<1>4. ASSUME NEW i \in 0 .. n - 1, i \in P PROVE Ok(i + 1) /\ Min(h[i]) \in h[i]
  <2>1. Ok(i) /\ i \in Nat /\ i + 1 \in 1..n /\ (i + 1) - 1 = i /\ n <= Cardinality(A)
    BY <1>4 DEF A
  <2> DEFINE r == h[i]
             m == Min(r)
  <2>2. h[i + 1] = r \ {m}
    BY <1>1, <2>1
  <2>3. r \subseteq A /\ IsFiniteSet(r) /\ Cardinality(r) = Cardinality(A) - i
    BY <2>1
  <2>4. r # {}
    <3>1. Cardinality(r) # 0
      BY <1>2, <2>1, <2>3
    <3> QED BY <3>1, FS_EmptySet
  <2>5. m \in r
    BY <1>2, <2>3, <2>4, MinMember
  <2>6. IsFiniteSet(r \ {m}) /\ Cardinality(r \ {m}) = Cardinality(r) - 1
    BY <2>3, <2>5, FS_RemoveElement
  <2>7. ASSUME NEW x \in 1 .. i + 1 PROVE Min(h[x-1]) \in A /\ Min(h[x-1]) \notin r \ {m}
    <3>1. CASE x = i + 1
      BY <2>1, <2>3, <2>5, <3>1
    <3>2. CASE x # i + 1
      <4>1. x \in 1..i
        BY <2>1, <3>2
      <4> QED BY <2>1, <4>1
    <3> QED BY <3>1, <3>2
  <2>8. Cardinality(r) - 1 = Cardinality(A) - (i + 1)
    BY <1>2, <2>1, <2>3
  <2>9. h[i + 1] \subseteq A /\ IsFiniteSet(h[i + 1]) /\ Cardinality(h[i + 1]) = Cardinality(A) - (i + 1)
    BY <2>2, <2>3, <2>6, <2>8
  <2>10. \A x \in 1 .. i + 1 : Min(h[x-1]) \in A /\ Min(h[x-1]) \notin h[i + 1]
    BY <2>2, <2>7
  <2> QED BY <2>5, <2>9, <2>10
<1>5. \A i \in 0..n : i \in P
  <2>1. ASSUME NEW i \in 0 .. n - 1, i \in P PROVE i + 1 \in P
    <3>1. Ok(i + 1) /\ i + 1 \in 0..n
      BY <1>4, <2>1
    <3> HIDE DEF Ok
    <3> QED BY <3>1
  <2> HIDE DEF P
  <2> QED BY <1>3, <2>1, LoopInduction
<1>6. ASSUME NEW x \in 1..n
      PROVE  /\ t[x] \in A /\ t[x] \in h[x-1]
             /\ \A y \in 1..n : y < x => t[y] # t[x]
  <2>1. x - 1 \in 0 .. n - 1 /\ x - 1 \in 0..n /\ (x - 1) + 1 = x
    OBVIOUS
  <2>2. x - 1 \in P
    BY <1>5, <2>1
  <2>3. Min(h[x-1]) \in h[x-1] /\ t[x] = Min(h[x-1]) /\ Ok(x - 1)
    BY <1>1, <1>4, <2>1, <2>2
  <2>4. ASSUME NEW y \in 1..n, y < x PROVE t[y] # t[x]
    <3>1. y \in 1 .. x - 1 /\ t[y] = Min(h[y-1])
      BY <1>1, <2>4
    <3>2. t[y] \notin h[x-1]
      BY <2>3, <3>1
    <3> QED BY <2>3, <3>2
  <2> QED BY <2>3, <2>4
<1>7. t = [x \in 1..n |-> t[x]]
  BY <1>1
<1> HIDE DEF t, Ok, P
<1>8. t \in [1..n -> Frames]
  BY <1>2, <1>6, <1>7
<1>9. t \in Seq(Frames) /\ Len(t) = n
  BY <1>8
<1>10. Range(t) \subseteq A
  BY <1>6, <1>7 DEF Range
<1>11. ASSUME NEW x \in 1..n, NEW y \in 1..n, t[x] = t[y] PROVE x = y
  <2>1. ~(x < y) /\ ~(y < x)
    BY <1>6, <1>11
  <2> QED BY <2>1
<1>12. Distinct(t)
  BY <1>9, <1>11 DEF Distinct
<1> QED BY <1>9, <1>10, <1>12 DEF t, A

-----------------------------------------------------------------------------
(* The constants of module_loader.c.                                       *)
LEMMA LoaderConstants ==
  /\ MAX_LOADED_MODULES \in Nat \ {0} /\ MAX_MODULE_PAGES \in Nat \ {0}
  /\ REGION \in Nat \ {0} /\ MAX_OTHERS \in Nat \ {0}
  /\ \A i \in Images : /\ Desc[i].sections \in Seq(Section) /\ Len(Desc[i].sections) \in Nat
                       /\ {Desc[i].nameSec, Desc[i].exitSec} \subseteq 0..Len(Desc[i].sections)
                       /\ \A k \in 1..Len(Desc[i].sections) :
                            /\ Desc[i].sections[k].pages \in Nat \ {0}
                            /\ Desc[i].sections[k].align \in Nat \ {0}
<1>1. ASSUME NEW i \in Images
      PROVE  /\ Desc[i].sections \in Seq(Section) /\ Len(Desc[i].sections) \in Nat
             /\ {Desc[i].nameSec, Desc[i].exitSec} \subseteq 0..Len(Desc[i].sections)
             /\ \A k \in 1..Len(Desc[i].sections) :
                  /\ Desc[i].sections[k].pages \in Nat \ {0}
                  /\ Desc[i].sections[k].align \in Nat \ {0}
  <2>1. Desc[i].sections \in Seq(Section)
    BY ModuleAssumption DEF Description
  <2> DEFINE secs == Desc[i].sections
  <2> HIDE DEF secs
  <2>2. secs \in Seq(Section)
    BY <2>1 DEF secs
  <2>3. Len(secs) \in Nat /\ \A k \in 1..Len(secs) : secs[k] \in Section
    BY <2>2
  <2>4. \A k \in 1..Len(secs) : secs[k].pages \in Nat \ {0} /\ secs[k].align \in Nat \ {0}
    BY <2>3 DEF Section
  <2>5. {Desc[i].nameSec, Desc[i].exitSec} \subseteq 0..Len(Desc[i].sections)
    BY ModuleAssumption
  <2> QED BY <2>1, <2>3, <2>4, <2>5 DEF secs
<1>2. /\ MAX_LOADED_MODULES \in Nat \ {0} /\ MAX_MODULE_PAGES \in Nat \ {0}
      /\ REGION \in Nat \ {0} /\ MAX_OTHERS \in Nat \ {0}
  BY ModuleAssumption
<1> QED BY <1>1, <1>2

(* Rounding up.                                                            *)
LEMMA AlignUp ==
  ASSUME NEW o \in Nat, NEW a \in Nat \ {0}
  PROVE  Align(o, a) \in Nat /\ o <= Align(o, a)
<1> DEFINE x == o + a - 1
           q == x \div a
<1>1. x \in Nat /\ x = o + a - 1
  OBVIOUS
<1> HIDE DEF x
<1>2. q \in Nat /\ q * a <= x /\ x < q * a + a
  BY <1>1
<1>3. Align(o, a) = q * a
  BY DEF Align, x
<1> HIDE DEF q
<1>4. q * a \in Nat
  BY <1>2
<1> DEFINE y == q * a
<1>5. y \in Nat /\ y <= x /\ x < y + a /\ Align(o, a) = y
  BY <1>2, <1>3, <1>4
<1> HIDE DEF y
<1> QED BY <1>1, <1>5

(* A running sum over the sections of an image, as a recursive function,   *)
(* is what its equations say: SectionEnd.                                  *)
LEMMA SectionEndIs ==
  ASSUME NEW i \in Images
  PROVE  /\ SectionEnd(i)[0] = 0
         /\ \A j \in 0..Len(Desc[i].sections) : SectionEnd(i)[j] \in Nat
         /\ \A j \in 1..Len(Desc[i].sections) :
              SectionEnd(i)[j] = Align(SectionEnd(i)[j-1], Desc[i].sections[j].align)
                                   + Desc[i].sections[j].pages
<1> DEFINE N == Len(Desc[i].sections)
           al(j) == Desc[i].sections[j].align
           pg(j) == Desc[i].sections[j].pages
           nxt(j, x) == Align(x, al(j)) + pg(j)
           step == [x \in (1..N) \X Nat |-> nxt(x[1], x[2])]
           Rec(g) == [j \in 0..N |-> IF j = 0 THEN 0
                        ELSE Align(g[j-1], Desc[i].sections[j].align) + Desc[i].sections[j].pages]
<1>1. N \in Nat /\ \A j \in 1..N : al(j) \in Nat \ {0} /\ pg(j) \in Nat
  BY LoaderConstants
<1>2. ASSUME NEW j \in 1..N, NEW x \in Nat PROVE nxt(j, x) \in Nat
  <2>1. al(j) \in Nat \ {0} /\ pg(j) \in Nat
    BY <1>1
  <2> HIDE DEF al, pg
  <2>2. Align(x, al(j)) \in Nat
    BY <2>1, AlignUp
  <2> QED BY <2>1, <2>2
<1>3. SectionEnd(i) = CHOOSE h : h = Rec(h)
  BY DEF SectionEnd
<1>4. \A g : Rec(g) = [j \in 0..N |-> IF j = 0 THEN 0 ELSE nxt(j, g[j-1])]
  <2> HIDE DEF Align
  <2> QED OBVIOUS
<1> HIDE DEF nxt, N, Rec
<1>5. step \in [(1..N) \X Nat -> Nat]
  BY <1>2
<1>6. PICK g : IsRun(g, N, Nat, 0, step)
  <2> HIDE DEF step
  <2> QED BY <1>1, <1>5, LoopRuns
<1>7. g \in [0..N -> Nat] /\ g[0] = 0 /\ \A j \in 1..N : g[j] = nxt(j, g[j-1])
  <2>1. g \in [0..N -> Nat] /\ g[0] = 0
    BY <1>6 DEF IsRun
  <2>2. ASSUME NEW j \in 1..N PROVE g[j] = nxt(j, g[j-1])
    <3>1. j - 1 \in 0..N
      BY <1>1
    <3>2. <<j, g[j-1]>> \in (1..N) \X Nat
      BY <2>1, <3>1
    <3> QED BY <1>6, <3>2 DEF IsRun
  <2> QED BY <2>1, <2>2
<1>8. g = Rec(g)
  <2>1. \A j \in 0..N : j # 0 => j \in 1..N
    BY <1>1
  <2> QED BY <1>4, <1>7, <2>1
<1>9. PICK h : h = Rec(h) /\ SectionEnd(i) = h
  BY <1>3, <1>8
<1>10. h = [j \in 0..N |-> IF j = 0 THEN 0 ELSE nxt(j, h[j-1])]
  BY <1>4, <1>9
<1>11. h[0] = 0 /\ \A j \in 1..N : h[j] = nxt(j, h[j-1])
  <2>1. 0 \in 0..N /\ \A j \in 1..N : j \in 0..N /\ j # 0
    BY <1>1
  <2>2. \A j \in 0..N : h[j] = IF j = 0 THEN 0 ELSE nxt(j, h[j-1])
    BY <1>10, Zenon
  <2> QED BY <2>1, <2>2
<1>12. \A j \in 0..N : h[j] \in Nat
  <2> DEFINE P == {j \in 0..N : h[j] \in Nat}
  <2>1. 0 \in P
    BY <1>1, <1>11
  <2>2. ASSUME NEW j \in 0 .. N - 1, j \in P PROVE j + 1 \in P
    <3>1. j + 1 \in 1..N /\ j + 1 \in 0..N /\ (j + 1) - 1 = j
      BY <1>1
    <3>2. h[j + 1] = nxt(j + 1, h[j])
      BY <1>11, <3>1
    <3>3. h[j + 1] \in Nat
      BY <1>2, <2>2, <3>1, <3>2
    <3> QED BY <3>1, <3>3
  <2> HIDE DEF P
  <2>3. \A j \in 0..N : j \in P
    BY <1>1, <2>1, <2>2, LoopInduction
  <2> QED BY <2>3 DEF P
<1>13. \A j \in 1..N : h[j] = Align(h[j-1], Desc[i].sections[j].align) + Desc[i].sections[j].pages
  BY <1>11 DEF nxt
<1> HIDE DEF SectionEnd, Align
<1> QED BY <1>9, <1>11, <1>12, <1>13 DEF N

(* And PagesUpTo.                                                          *)
LEMMA PagesUpToIs ==
  ASSUME NEW i \in Images
  PROVE  /\ PagesUpTo(i)[0] = 0
         /\ \A j \in 0..Len(Desc[i].sections) : PagesUpTo(i)[j] \in Nat
         /\ \A j \in 1..Len(Desc[i].sections) :
              PagesUpTo(i)[j] = PagesUpTo(i)[j-1] + Desc[i].sections[j].pages
<1> DEFINE N == Len(Desc[i].sections)
           pg(j) == Desc[i].sections[j].pages
           nxt(j, x) == x + pg(j)
           step == [x \in (1..N) \X Nat |-> nxt(x[1], x[2])]
           Rec(g) == [j \in 0..N |-> IF j = 0 THEN 0 ELSE g[j-1] + Desc[i].sections[j].pages]
<1>1. N \in Nat /\ \A j \in 1..N : pg(j) \in Nat
  BY LoaderConstants
<1>2. ASSUME NEW j \in 1..N, NEW x \in Nat PROVE nxt(j, x) \in Nat
  <2>1. pg(j) \in Nat
    BY <1>1
  <2> HIDE DEF pg
  <2> QED BY <2>1
<1>3. PagesUpTo(i) = CHOOSE h : h = Rec(h)
  BY DEF PagesUpTo
<1>4. \A g : Rec(g) = [j \in 0..N |-> IF j = 0 THEN 0 ELSE nxt(j, g[j-1])]
  OBVIOUS
<1> HIDE DEF nxt, N, Rec
<1>5. step \in [(1..N) \X Nat -> Nat]
  BY <1>2
<1>6. PICK g : IsRun(g, N, Nat, 0, step)
  <2> HIDE DEF step
  <2> QED BY <1>1, <1>5, LoopRuns
<1>7. g \in [0..N -> Nat] /\ g[0] = 0 /\ \A j \in 1..N : g[j] = nxt(j, g[j-1])
  <2>1. g \in [0..N -> Nat] /\ g[0] = 0
    BY <1>6 DEF IsRun
  <2>2. ASSUME NEW j \in 1..N PROVE g[j] = nxt(j, g[j-1])
    <3>1. j - 1 \in 0..N
      BY <1>1
    <3>2. <<j, g[j-1]>> \in (1..N) \X Nat
      BY <2>1, <3>1
    <3> QED BY <1>6, <3>2 DEF IsRun
  <2> QED BY <2>1, <2>2
<1>8. g = Rec(g)
  <2>1. \A j \in 0..N : j # 0 => j \in 1..N
    BY <1>1
  <2> QED BY <1>4, <1>7, <2>1
<1>9. PICK h : h = Rec(h) /\ PagesUpTo(i) = h
  BY <1>3, <1>8
<1>10. h = [j \in 0..N |-> IF j = 0 THEN 0 ELSE nxt(j, h[j-1])]
  BY <1>4, <1>9
<1>11. h[0] = 0 /\ \A j \in 1..N : h[j] = nxt(j, h[j-1])
  <2>1. 0 \in 0..N /\ \A j \in 1..N : j \in 0..N /\ j # 0
    BY <1>1
  <2>2. \A j \in 0..N : h[j] = IF j = 0 THEN 0 ELSE nxt(j, h[j-1])
    BY <1>10, Zenon
  <2> QED BY <2>1, <2>2
<1>12. \A j \in 0..N : h[j] \in Nat
  <2> DEFINE P == {j \in 0..N : h[j] \in Nat}
  <2>1. 0 \in P
    BY <1>1, <1>11
  <2>2. ASSUME NEW j \in 0 .. N - 1, j \in P PROVE j + 1 \in P
    <3>1. j + 1 \in 1..N /\ j + 1 \in 0..N /\ (j + 1) - 1 = j
      BY <1>1
    <3>2. h[j + 1] = nxt(j + 1, h[j])
      BY <1>11, <3>1
    <3>3. h[j + 1] \in Nat
      BY <1>2, <2>2, <3>1, <3>2
    <3> QED BY <3>1, <3>3
  <2> HIDE DEF P
  <2>3. \A j \in 0..N : j \in P
    BY <1>1, <2>1, <2>2, LoopInduction
  <2> QED BY <2>3 DEF P
<1>13. \A j \in 1..N : h[j] = h[j-1] + Desc[i].sections[j].pages
  BY <1>11 DEF nxt
<1> HIDE DEF PagesUpTo
<1> QED BY <1>9, <1>11, <1>12, <1>13 DEF N

-----------------------------------------------------------------------------
(* The entries whose frames count, and the list of frames each has.        *)
Counts(s) == s < loaded_module_count \/ (s = loaded_module_count /\ call # NoCall)
Lists     == [s \in Slots |-> IF Counts(s) THEN loaded_modules[s].frames ELSE << >>]

(* The frames of U are divided: F are free, X are the rest of the          *)
(* kernel's, T is the page table, and L are the lists of the modules.      *)
Divided(F, X, T, L, U) ==
  LET held == UNION {Range(L[s]) : s \in Slots}
      pt   == {T} \ {NONE}
  IN  /\ F \cup X \cup pt \cup held = U
      /\ F \cap (X \cup pt \cup held) = {}
      /\ X \cap (pt \cup held) = {} /\ pt \cap held = {}
      /\ \A s \in Slots : /\ IsInjective(L[s])
                          /\ \A u \in Slots \ {s} : Range(L[s]) \cap Range(L[u]) = {}

(* The first n sections of an image lie below page o, each at its place:   *)
(* its pages map the frames of the list in order and hold the image.       *)
Laid(P, C, list, i, n, o) ==
  \A k \in 1..n :
    /\ SectionPage(i, k) \in Nat /\ SectionEnd(i)[k] <= o
    /\ PagesUpTo(i)[k] <= Len(list)
    /\ \A j \in 0 .. Desc[i].sections[k].pages - 1 :
         LET p == SectionPage(i, k) + j
         IN  P[p] = list[PagesUpTo(i)[k - 1] + j + 1] /\ C[P[p]] = <<i, p>>

(* A call has a slot and an image, and has laid out the sections before    *)
(* its own; no entry is the newest while it lasts.                         *)
Loading ==
  call # NoCall =>
    /\ call.at # "idle" /\ loaded_module_count \in Slots /\ call.image \in Images
    /\ call.k \in 1 .. Len(desc.sections) + 1
    /\ call.at = "register" => call.k = Len(desc.sections) + 1 /\ this.image = call.image
    /\ call.offset = SectionEnd(call.image)[call.k - 1] /\ call.offset <= REGION
    /\ Len(this.frames) = PagesUpTo(call.image)[call.k - 1]
    /\ Laid(page, content, this.frames, call.image, call.k - 1, call.offset)
    /\ newest = NO

(* The newest entry is registered and laid out to its end.                 *)
Newest ==
  newest # NO =>
    LET e == loaded_modules[newest]
    IN  /\ newest < loaded_module_count /\ e.image \in Images
        /\ Laid(page, content, e.frames, e.image, Len(Desc[e.image].sections), REGION)

(* A page that is mapped maps a frame of a registered module, or it is     *)
(* one of the pages the call would unmap, counting its frames from the     *)
(* base.                                                                   *)
Mapped ==
  ~gapped =>
    /\ call # NoCall => call.offset = Len(this.frames)
    /\ \A p \in Pages : page[p] # NONE =>
         \/ \E s \in 0 .. loaded_module_count - 1 : page[p] \in Range(Lists[s])
         \/ call # NoCall /\ p < Len(this.frames) /\ page[p] = this.frames[p + 1]

Inv ==
  /\ TypeOK
  /\ halted => call = NoCall
  /\ ~halted => /\ Divided(free, others, table, Lists, FreedAtBoot(info))
                /\ Loading /\ Newest /\ Mapped

-----------------------------------------------------------------------------
(* The frames of one list, and those of all.                               *)
LEMMA DividedMeans ==
  ASSUME NEW F, NEW X, NEW T, NEW L, NEW U, Divided(F, X, T, L, U)
  PROVE  /\ F \subseteq U /\ X \subseteq U /\ F \cap X = {} /\ (T \notin F \/ T = NONE)
         /\ \A s \in Slots : /\ Range(L[s]) \subseteq U /\ Range(L[s]) \cap F = {}
                             /\ Range(L[s]) \cap X = {} /\ (T \notin Range(L[s]) \/ T = NONE)
BY DEF Divided

(* A frame of the bitmap becomes the page table.                           *)
LEMMA DividedTable ==
  ASSUME NEW F, NEW X, NEW L, NEW U, Divided(F, X, NONE, L, U), NEW f \in F, f # NONE
  PROVE  Divided(F \ {f}, X, f, L, U)
<1> HIDE DEF Range, IsInjective, Slots, NONE
<1> DEFINE held == UNION {Range(L[s]) : s \in Slots}
<1>1. /\ F \cup X \cup held = U /\ F \cap (X \cup held) = {} /\ X \cap held = {}
  BY DEF Divided
<1>2. {f} \ {NONE} = {f}
  OBVIOUS
<1> HIDE DEF held
<1>3. /\ (F \ {f}) \cup X \cup {f} \cup held = U
      /\ (F \ {f}) \cap (X \cup {f} \cup held) = {}
      /\ X \cap ({f} \cup held) = {} /\ {f} \cap held = {}
  BY <1>1
<1>4. \A s \in Slots : /\ IsInjective(L[s])
                       /\ \A u \in Slots \ {s} : Range(L[s]) \cap Range(L[u]) = {}
  BY DEF Divided
<1> QED BY <1>2, <1>3, <1>4 DEF Divided, held

(* The rest of the kernel takes a frame.                                   *)
LEMMA DividedTaken ==
  ASSUME NEW F, NEW X, NEW T, NEW L, NEW U, Divided(F, X, T, L, U), NEW f \in F
  PROVE  Divided(F \ {f}, X \cup {f}, T, L, U)
<1> HIDE DEF Range, IsInjective, Slots, NONE
<1> DEFINE held == UNION {Range(L[s]) : s \in Slots}
           pt == {T} \ {NONE}
<1>1. /\ F \cup X \cup pt \cup held = U
      /\ F \cap (X \cup pt \cup held) = {}
      /\ X \cap (pt \cup held) = {} /\ pt \cap held = {}
  BY DEF Divided
<1>2. \A s \in Slots : /\ IsInjective(L[s])
                       /\ \A u \in Slots \ {s} : Range(L[s]) \cap Range(L[u]) = {}
  BY DEF Divided
<1> HIDE DEF held, pt
<1>3. /\ (F \ {f}) \cup (X \cup {f}) \cup pt \cup held = U
      /\ (F \ {f}) \cap ((X \cup {f}) \cup pt \cup held) = {}
      /\ (X \cup {f}) \cap (pt \cup held) = {} /\ pt \cap held = {}
  BY <1>1
<1> QED BY <1>2, <1>3 DEF Divided, held, pt

(* It gives one back.                                                      *)
LEMMA DividedGiven ==
  ASSUME NEW F, NEW X, NEW T, NEW L, NEW U, Divided(F, X, T, L, U), NEW f \in X
  PROVE  Divided(F \cup {f}, X \ {f}, T, L, U)
<1> HIDE DEF Range, IsInjective, Slots, NONE
<1> DEFINE held == UNION {Range(L[s]) : s \in Slots}
           pt == {T} \ {NONE}
<1>1. /\ F \cup X \cup pt \cup held = U
      /\ F \cap (X \cup pt \cup held) = {}
      /\ X \cap (pt \cup held) = {} /\ pt \cap held = {}
  BY DEF Divided
<1>2. \A s \in Slots : /\ IsInjective(L[s])
                       /\ \A u \in Slots \ {s} : Range(L[s]) \cap Range(L[u]) = {}
  BY DEF Divided
<1> HIDE DEF held, pt
<1>3. /\ (F \cup {f}) \cup (X \ {f}) \cup pt \cup held = U
      /\ (F \cup {f}) \cap ((X \ {f}) \cup pt \cup held) = {}
      /\ (X \ {f}) \cap (pt \cup held) = {} /\ pt \cap held = {}
  BY <1>1
<1> QED BY <1>2, <1>3 DEF Divided, held, pt

(* The list of one entry is replaced: what it has now it had, or took from *)
(* the bitmap; what it has no more goes back there.                        *)
LEMMA DividedList ==
  ASSUME NEW F, NEW G, NEW X, NEW T, NEW L, NEW M, NEW U, Divided(F, X, T, L, U),
         NEW c \in Slots, IsInjective(M[c]), \A s \in Slots \ {c} : M[s] = L[s],
         Range(M[c]) \cup G = Range(L[c]) \cup F, Range(M[c]) \cap G = {}
  PROVE  Divided(G, X, T, M, U)
<1> HIDE DEF Range, IsInjective, Slots, NONE
<1> DEFINE rest == UNION {Range(L[s]) : s \in Slots \ {c}}
           held == UNION {Range(L[s]) : s \in Slots}
           now == UNION {Range(M[s]) : s \in Slots}
           pt == {T} \ {NONE}
<1>1. /\ F \cup X \cup pt \cup held = U
      /\ F \cap (X \cup pt \cup held) = {}
      /\ X \cap (pt \cup held) = {} /\ pt \cap held = {}
  BY DEF Divided
<1>2. \A s \in Slots : /\ IsInjective(L[s])
                       /\ \A u \in Slots \ {s} : Range(L[s]) \cap Range(L[u]) = {}
  BY DEF Divided
<1>3. held = Range(L[c]) \cup rest /\ now = Range(M[c]) \cup rest
  OBVIOUS
<1>4. rest \cap Range(L[c]) = {}
  BY <1>2
<1>5. ASSUME NEW s \in Slots, NEW u \in Slots \ {s} PROVE Range(M[s]) \cap Range(M[u]) = {}
  <2>1. \A t \in Slots \ {c} : Range(M[t]) \cap Range(M[c]) = {}
    <3> SUFFICES ASSUME NEW t \in Slots \ {c} PROVE Range(L[t]) \cap Range(M[c]) = {}
      OBVIOUS
    <3>1. Range(L[t]) \subseteq held /\ Range(L[t]) \cap Range(L[c]) = {}
      BY <1>2
    <3> HIDE DEF held, pt
    <3> QED BY <1>1, <3>1
  <2>2. CASE s = c \/ u = c
    BY <2>1, <2>2
  <2>3. CASE s # c /\ u # c
    BY <1>2, <2>3
  <2> QED BY <2>2, <2>3
<1>6. ASSUME NEW s \in Slots PROVE IsInjective(M[s])
  BY <1>2
<1> HIDE DEF held, pt, now, rest
<1>7. /\ G \cup X \cup pt \cup now = U
      /\ G \cap (X \cup pt \cup now) = {}
      /\ X \cap (pt \cup now) = {} /\ pt \cap now = {}
  BY <1>1, <1>3, <1>4
<1> QED BY <1>5, <1>6, <1>7 DEF Divided, now, pt

(* allocate_module_frames: the frames taken are added to a list.           *)
LEMMA DividedAppend ==
  ASSUME NEW F, NEW X, NEW T, NEW L, NEW M, NEW U, Divided(F, X, T, L, U),
         NEW c \in Slots, L[c] \in Seq(Frames), NEW t \in Seq(Frames), Range(t) \subseteq F,
         Distinct(t),
         M[c] = L[c] \o t, \A s \in Slots \ {c} : M[s] = L[s]
  PROVE  Divided(F \ Range(t), X, T, M, U)
<1> DEFINE old == L[c]
           new == old \o t
<1>1. IsInjective(old) /\ Range(old) \cap F = {}
  BY DividedMeans DEF Divided
<1>2. old \in Seq(Frames)
  OBVIOUS
<1> HIDE DEF old
<1>3. /\ Len(old) \in Nat /\ Len(t) \in Nat /\ Len(new) = Len(old) + Len(t)
      /\ DOMAIN new = 1 .. Len(old) + Len(t) /\ DOMAIN old = 1..Len(old) /\ DOMAIN t = 1..Len(t)
      /\ \A x \in 1..Len(old) : new[x] = old[x]
      /\ \A x \in Len(old) + 1 .. Len(old) + Len(t) : new[x] = t[x - Len(old)] /\ x - Len(old) \in 1..Len(t)
  BY <1>2
<1> HIDE DEF new
<1>4. \A x \in 1..Len(old) : old[x] \in Range(old)
  BY <1>3 DEF Range
<1>5. \A x \in 1..Len(t) : t[x] \in Range(t)
  BY <1>3 DEF Range
<1>6. \A x \in DOMAIN new : x \in 1..Len(old) \/ x \in Len(old) + 1 .. Len(old) + Len(t)
  BY <1>3
<1>7. \A x, y \in DOMAIN old : old[x] = old[y] => x = y
  BY <1>1 DEF IsInjective
<1>8. ASSUME NEW x \in DOMAIN new, NEW y \in DOMAIN new, new[x] = new[y] PROVE x = y
  <2>1. CASE x \in 1..Len(old) /\ y \in 1..Len(old)
    BY <1>3, <1>7, <1>8, <2>1
  <2>2. CASE x \in 1..Len(old) /\ y \in Len(old) + 1 .. Len(old) + Len(t)
    <3>1. new[x] \in Range(old) /\ new[y] \in Range(t)
      BY <1>3, <1>4, <1>5, <2>2
    <3> QED BY <1>1, <1>8, <3>1
  <2>3. CASE y \in 1..Len(old) /\ x \in Len(old) + 1 .. Len(old) + Len(t)
    <3>1. new[y] \in Range(old) /\ new[x] \in Range(t)
      BY <1>3, <1>4, <1>5, <2>3
    <3> QED BY <1>1, <1>8, <3>1
  <2>4. CASE x \in Len(old) + 1 .. Len(old) + Len(t) /\ y \in Len(old) + 1 .. Len(old) + Len(t)
    <3>1. t[x - Len(old)] = t[y - Len(old)] /\ x - Len(old) \in 1..Len(t) /\ y - Len(old) \in 1..Len(t)
      BY <1>3, <1>8, <2>4
    <3>2. x - Len(old) = y - Len(old)
      BY <3>1 DEF Distinct
    <3> QED BY <1>3, <2>4, <3>2
  <2> QED BY <1>6, <2>1, <2>2, <2>3, <2>4
<1>9. IsInjective(new)
  BY <1>8 DEF IsInjective
<1>10. Range(new) = Range(old) \cup Range(t)
  <2>1. ASSUME NEW f \in Range(new) PROVE f \in Range(old) \cup Range(t)
    <3>1. PICK x \in DOMAIN new : new[x] = f
      BY DEF Range
    <3> QED BY <1>3, <1>4, <1>5, <1>6, <3>1
  <2>2. ASSUME NEW f \in Range(old) PROVE f \in Range(new)
    <3>1. PICK x \in DOMAIN old : old[x] = f
      BY DEF Range
    <3>2. x \in DOMAIN new /\ new[x] = f
      BY <1>3, <3>1
    <3> QED BY <3>2 DEF Range
  <2>3. ASSUME NEW f \in Range(t) PROVE f \in Range(new)
    <3>1. PICK x \in DOMAIN t : t[x] = f
      BY DEF Range
    <3> DEFINE y == Len(old) + x
    <3>2. y \in DOMAIN new /\ y \in Len(old) + 1 .. Len(old) + Len(t) /\ y - Len(old) = x
      BY <1>3, <3>1
    <3>3. new[y] = f
      BY <1>3, <3>1, <3>2
    <3> QED BY <3>2, <3>3 DEF Range
  <2> QED BY <2>1, <2>2, <2>3
<1>11. M[c] = new /\ L[c] = old
  BY DEF new, old
<1> HIDE DEF Range, IsInjective, Slots, Divided, Frames
<1>12. /\ IsInjective(M[c])
       /\ Range(M[c]) \cup (F \ Range(t)) = Range(L[c]) \cup F
       /\ Range(M[c]) \cap (F \ Range(t)) = {}
  BY <1>1, <1>9, <1>10, <1>11
<1> DEFINE G == F \ Range(t)
<1>13. Range(M[c]) \cup G = Range(L[c]) \cup F /\ Range(M[c]) \cap G = {}
  BY <1>12
<1> HIDE DEF G
<1>14. Divided(G, X, T, M, U)
  BY <1>12, <1>13, DividedList
<1> QED BY <1>14 DEF G

(* cleanup_module_frames: the frames of a list go back.                    *)
LEMMA DividedFreed ==
  ASSUME NEW F, NEW X, NEW T, NEW L, NEW M, NEW U, Divided(F, X, T, L, U),
         NEW c \in Slots, M[c] = << >>, \A s \in Slots \ {c} : M[s] = L[s]
  PROVE  Divided(F \cup Range(L[c]), X, T, M, U)
<1>1. Range(M[c]) = {} /\ IsInjective(M[c])
  BY DEF Range, IsInjective
<1> DEFINE G == F \cup Range(L[c])
<1>2. Range(M[c]) \cup G = Range(L[c]) \cup F /\ Range(M[c]) \cap G = {}
  BY <1>1
<1> HIDE DEF G, Range, IsInjective, Slots, Divided
<1>3. Divided(G, X, T, M, U)
  BY <1>1, <1>2, DividedList
<1> QED BY <1>3 DEF G

-----------------------------------------------------------------------------
(* Where a section lies: after the one before, aligned.                    *)
LEMMA SectionPlace ==
  ASSUME NEW i \in Images, NEW k \in 1..Len(Desc[i].sections)
  PROVE  /\ SectionPage(i, k) = Align(SectionEnd(i)[k-1], Desc[i].sections[k].align)
         /\ SectionPage(i, k) \in Nat /\ SectionEnd(i)[k-1] <= SectionPage(i, k)
         /\ SectionEnd(i)[k] = SectionPage(i, k) + Desc[i].sections[k].pages
         /\ PagesUpTo(i)[k-1] \in Nat
         /\ PagesUpTo(i)[k] = PagesUpTo(i)[k-1] + Desc[i].sections[k].pages
<1> DEFINE pg == Desc[i].sections[k].pages
           al == Desc[i].sections[k].align
           e == SectionEnd(i)[k-1]
           a == Align(e, al)
<1>1. k - 1 \in 0..Len(Desc[i].sections) /\ pg \in Nat \ {0} /\ al \in Nat \ {0} /\ k # 0
  BY LoaderConstants
<1>2. e \in Nat /\ SectionEnd(i)[k] = a + pg
  <2> HIDE DEF SectionEnd, Align
  <2> QED BY <1>1, SectionEndIs
<1>3. /\ PagesUpTo(i)[k-1] \in Nat
      /\ PagesUpTo(i)[k] = PagesUpTo(i)[k-1] + pg
  <2> HIDE DEF PagesUpTo
  <2> QED BY <1>1, PagesUpToIs
<1>4. SectionPage(i, k) = SectionEnd(i)[k] - pg
  BY <1>1 DEF SectionPage
<1> HIDE DEF e, al
<1>5. a \in Nat /\ e <= a
  BY <1>1, <1>2, AlignUp
<1> HIDE DEF a, pg
<1>6. SectionPage(i, k) = a
  BY <1>1, <1>2, <1>4, <1>5
<1> HIDE DEF SectionPage, SectionEnd, PagesUpTo
<1> QED BY <1>2, <1>3, <1>5, <1>6 DEF a, pg, al, e

(* What was laid out stays so, if nothing is mapped below its end nor      *)
(* copied to its frames, and its list only grows.                          *)
LEMMA LaidStays ==
  ASSUME NEW i \in Images, NEW n \in 0..Len(Desc[i].sections), NEW o \in Nat, NEW u \in Nat,
         NEW P, NEW Q, NEW C, NEW D, NEW a \in Seq(Frames), NEW b \in Seq(Frames),
         Laid(P, C, a, i, n, o), o <= u, Len(a) <= Len(b),
         \A x \in 1..Len(a) : b[x] = a[x],
         \A p \in 0 .. o - 1 : Q[p] = P[p],
         \A x \in 1..Len(a) : D[a[x]] = C[a[x]]
  PROVE  Laid(Q, D, b, i, n, u)
<1> SUFFICES ASSUME NEW k \in 1..n
             PROVE  /\ SectionPage(i, k) \in Nat /\ SectionEnd(i)[k] <= u
                    /\ PagesUpTo(i)[k] <= Len(b)
                    /\ \A j \in 0 .. Desc[i].sections[k].pages - 1 :
                         LET p == SectionPage(i, k) + j
                         IN  Q[p] = b[PagesUpTo(i)[k - 1] + j + 1] /\ D[Q[p]] = <<i, p>>
  BY DEF Laid
<1> HIDE DEF SectionPage, SectionEnd, PagesUpTo, Frames
<1> DEFINE pg == Desc[i].sections[k].pages
           s == SectionPage(i, k)
           e == SectionEnd(i)[k]
           w == PagesUpTo(i)[k-1]
           v == PagesUpTo(i)[k]
<1>1. k \in 1..Len(Desc[i].sections) /\ pg \in Nat \ {0} /\ Len(a) \in Nat /\ Len(b) \in Nat
  <2>1. Len(Desc[i].sections) \in Nat
    BY LoaderConstants
  <2>2. k \in 1..Len(Desc[i].sections)
    BY <2>1
  <2>3. pg \in Nat \ {0}
    BY <2>2, LoaderConstants
  <2> QED BY <2>2, <2>3
<1>2. s \in Nat /\ e = s + pg /\ w \in Nat /\ v = w + pg
  BY <1>1, SectionPlace
<1>3. /\ e <= o /\ v <= Len(a)
      /\ \A j \in 0 .. pg - 1 : P[s + j] = a[w + j + 1] /\ C[P[s + j]] = <<i, s + j>>
  BY DEF Laid
<1> HIDE DEF pg, s, e, w, v
<1>4. ASSUME NEW j \in 0 .. pg - 1 PROVE Q[s + j] = b[w + j + 1] /\ D[Q[s + j]] = <<i, s + j>>
  <2>1. s + j \in 0 .. o - 1 /\ w + j + 1 \in 1..Len(a)
    BY <1>1, <1>2, <1>3
  <2> DEFINE p == s + j
             x == w + j + 1
  <2>2. P[p] = a[x] /\ C[P[p]] = <<i, p>>
    BY <1>3
  <2>3. p \in 0 .. o - 1 /\ x \in 1..Len(a)
    BY <2>1
  <2> HIDE DEF p, x
  <2>4. Q[p] = b[x] /\ D[Q[p]] = <<i, p>>
    BY <2>2, <2>3
  <2> QED BY <2>4 DEF p, x
<1>5. e <= u /\ v <= Len(b)
  BY <1>1, <1>2, <1>3
<1> QED BY <1>2, <1>4, <1>5 DEF pg, s, e, w, v

(* One more section is laid out.                                           *)
LEMMA LaidNext ==
  ASSUME NEW i \in Images, NEW k \in 1..Len(Desc[i].sections), NEW P, NEW C, NEW b \in Seq(Frames),
         Laid(P, C, b, i, k - 1, SectionEnd(i)[k]), PagesUpTo(i)[k] <= Len(b),
         \A j \in 0 .. Desc[i].sections[k].pages - 1 :
           LET p == SectionPage(i, k) + j
           IN  P[p] = b[PagesUpTo(i)[k - 1] + j + 1] /\ C[P[p]] = <<i, p>>
  PROVE  Laid(P, C, b, i, k, SectionEnd(i)[k])
<1> SUFFICES ASSUME NEW m \in 1..k
             PROVE  /\ SectionPage(i, m) \in Nat /\ SectionEnd(i)[m] <= SectionEnd(i)[k]
                    /\ PagesUpTo(i)[m] <= Len(b)
                    /\ \A j \in 0 .. Desc[i].sections[m].pages - 1 :
                         LET p == SectionPage(i, m) + j
                         IN  P[p] = b[PagesUpTo(i)[m - 1] + j + 1] /\ C[P[p]] = <<i, p>>
  BY DEF Laid
<1> HIDE DEF SectionPage, SectionEnd, PagesUpTo, Frames
<1>1. CASE m \in 1 .. k - 1
  BY <1>1 DEF Laid
<1>2. CASE m = k
  <2>1. SectionPage(i, k) \in Nat
    BY SectionPlace
  <2>2. SectionEnd(i)[k] \in Nat /\ SectionEnd(i)[k] <= SectionEnd(i)[k]
    <3>1. SectionEnd(i)[k] \in Nat
      BY SectionEndIs
    <3> QED BY <3>1
  <2> QED BY <1>2, <2>1, <2>2
<1> QED BY <1>1, <1>2

-----------------------------------------------------------------------------
(* The region with n pages mapped from page `first` to the frames t, and   *)
(* the memory after those pages of image i are copied there.               *)
WithPages(P, first, n, t) ==
  [p \in Pages |-> IF p \in first .. first + n - 1 THEN t[p - first + 1] ELSE P[p]]
WithData(C, first, n, m, i) ==
  [f \in Frames |-> IF \E p \in Pages : p \in first .. first + n - 1 /\ m[p] = f
                    THEN <<i, CHOOSE p \in Pages : p \in first .. first + n - 1 /\ m[p] = f>>
                    ELSE C[f]]

(* map_module_frames, page by page.                                        *)
Maps(m, P, first, n, t) ==
  /\ m \in [Pages -> Frames]
  /\ \A p \in Pages : \/ p \in first .. first + n - 1 /\ p - first + 1 \in 1..n /\ m[p] = t[p - first + 1]
                      \/ p \notin first .. first + n - 1 /\ m[p] = P[p]
  /\ \A j \in 0 .. n - 1 : /\ first + j \in Pages /\ first + j \in first .. first + n - 1
                           /\ m[first + j] = t[j + 1]

(* It maps those pages to the frames in order, and leaves the others.      *)
LEMMA WithPagesIs ==
  ASSUME NEW P \in [Pages -> Frames], NEW first \in Nat, NEW n \in Nat, first + n <= REGION,
         NEW t \in Seq(Frames), Len(t) = n
  PROVE  Maps(WithPages(P, first, n, t), P, first, n, t)
<1> DEFINE Q == WithPages(P, first, n, t)
<1> HIDE DEF Frames
<1>1. ASSUME NEW p \in Pages, p \in first .. first + n - 1
      PROVE  p - first + 1 \in 1..n /\ t[p - first + 1] \in Frames /\ Q[p] = t[p - first + 1]
  <2>1. p - first + 1 \in 1..n
    BY <1>1
  <2>2. t[p - first + 1] \in Frames
    BY <2>1
  <2> QED BY <1>1, <2>1, <2>2 DEF WithPages
<1>2. ASSUME NEW p \in Pages, p \notin first .. first + n - 1 PROVE Q[p] = P[p] /\ P[p] \in Frames
  <2> HIDE DEF Pages
  <2> QED BY <1>2 DEF WithPages
<1>3. Q \in [Pages -> Frames]
  <2> DEFINE val(p) == IF p \in first .. first + n - 1 THEN t[p - first + 1] ELSE P[p]
  <2>1. ASSUME NEW p \in Pages PROVE val(p) \in Frames
    <3>1. CASE p \in first .. first + n - 1
      BY <1>1, <3>1
    <3>2. CASE p \notin first .. first + n - 1
      BY <1>2, <3>2
    <3> QED BY <3>1, <3>2
  <2>2. Q = [p \in Pages |-> val(p)]
    BY DEF WithPages
  <2> HIDE DEF val, Q, Pages
  <2> QED BY <2>1, <2>2
<1>4. ASSUME NEW j \in 0 .. n - 1
      PROVE  /\ first + j \in Pages /\ first + j \in first .. first + n - 1 /\ Q[first + j] = t[j + 1]
  <2>1. first + j \in Pages /\ first + j \in first .. first + n - 1 /\ (first + j) - first + 1 = j + 1
    BY LoaderConstants DEF Pages
  <2> DEFINE p == first + j
  <2>2. p \in Pages /\ p \in first .. first + n - 1 /\ p - first + 1 = j + 1
    BY <2>1
  <2> HIDE DEF p, Q
  <2>3. Q[p] = t[p - first + 1]
    BY <1>1, <2>2
  <2> QED BY <2>1, <2>2, <2>3 DEF p
<1> HIDE DEF Q
<1>5. ASSUME NEW p \in Pages
      PROVE  \/ p \in first .. first + n - 1 /\ p - first + 1 \in 1..n /\ Q[p] = t[p - first + 1]
             \/ p \notin first .. first + n - 1 /\ Q[p] = P[p]
  BY <1>1, <1>2
<1> QED BY <1>3, <1>4, <1>5 DEF Maps, Q

(* copy_section, frame by frame.                                           *)
Holds(D, C, first, n, t, i, I) ==
  /\ D \in [Frames -> I \X Pages]
  /\ \A f \in Frames : f \notin Range(t) => D[f] = C[f]
  /\ \A j \in 0 .. n - 1 : D[t[j + 1]] = <<i, first + j>>

(* Each frame holds the page that maps it.                                 *)
LEMMA WithDataIs ==
  ASSUME NEW P \in [Pages -> Frames], NEW first \in Nat, NEW n \in Nat, first + n <= REGION,
         NEW t \in Seq(Frames), Len(t) = n, Distinct(t),
         NEW I, NEW i \in I, NEW C \in [Frames -> I \X Pages], NEW m, Maps(m, P, first, n, t)
  PROVE  Holds(WithData(C, first, n, m, i), C, first, n, t, i, I)
<1> DEFINE D == WithData(C, first, n, m, i)
           At(f, p) == p \in first .. first + n - 1 /\ m[p] = f
           val(f) == IF \E p \in Pages : At(f, p) THEN <<i, CHOOSE p \in Pages : At(f, p)>> ELSE C[f]
<1>1. /\ \A p \in Pages : \/ p \in first .. first + n - 1 /\ p - first + 1 \in 1..n /\ m[p] = t[p - first + 1]
                          \/ p \notin first .. first + n - 1 /\ m[p] = P[p]
      /\ \A j \in 0 .. n - 1 : /\ first + j \in Pages /\ first + j \in first .. first + n - 1
                               /\ m[first + j] = t[j + 1]
  BY DEF Maps
<1>2. D = [f \in Frames |-> val(f)]
  BY DEF WithData
<1> HIDE DEF D
<1>3. ASSUME NEW f \in Frames PROVE val(f) \in I \X Pages
  <2>1. C[f] \in I \X Pages
    OBVIOUS
  <2>2. ASSUME \E p \in Pages : At(f, p) PROVE (CHOOSE p \in Pages : At(f, p)) \in Pages
    <3> HIDE DEF At
    <3> QED BY <2>2
  <2> HIDE DEF At, Pages
  <2> QED BY <2>1, <2>2
<1>4. D \in [Frames -> I \X Pages]
  <2> HIDE DEF val, Pages, Frames
  <2> QED BY <1>2, <1>3
<1>5. ASSUME NEW f \in Frames, f \notin Range(t) PROVE D[f] = C[f]
  <2>1. ASSUME NEW p \in Pages, At(f, p) PROVE FALSE
    <3>1. p - first + 1 \in 1..n /\ f = t[p - first + 1]
      BY <1>1, <2>1
    <3> DEFINE x == p - first + 1
    <3>2. x \in DOMAIN t /\ f = t[x]
      BY <3>1
    <3> HIDE DEF x
    <3> QED BY <1>5, <3>2 DEF Range
  <2> HIDE DEF At, Pages, Frames
  <2> QED BY <1>2, <2>1
<1>6. ASSUME NEW j \in 0 .. n - 1 PROVE D[t[j + 1]] = <<i, first + j>>
  <2> DEFINE p == first + j
             f == t[j + 1]
  <2>1. p \in Pages /\ At(f, p)
    BY <1>1
  <2>2. f \in Frames
    <3>1. j + 1 \in 1..Len(t)
      OBVIOUS
    <3> QED BY <3>1
  <2>3. ASSUME NEW q \in Pages, At(f, q) PROVE q = p
    <3>1. q - first + 1 \in 1..n /\ t[q - first + 1] = t[j + 1] /\ j + 1 \in 1..n
      BY <1>1, <2>3
    <3> DEFINE x == q - first + 1
               y == j + 1
    <3>2. x = y
      <4>1. x \in 1..n /\ y \in 1..n /\ t[x] = t[y]
        BY <3>1
      <4> HIDE DEF x, y
      <4> QED BY <4>1 DEF Distinct
    <3> QED BY <3>2 DEF Pages
  <2> HIDE DEF p, f, At, Pages, Frames
  <2>4. val(f) = <<i, p>>
    BY <2>1, <2>3
  <2>5. D[f] = <<i, p>>
    BY <1>2, <2>2, <2>4
  <2> QED BY <2>5 DEF p, f
<1> HIDE DEF Pages, Frames, val, At
<1> QED BY <1>4, <1>5, <1>6 DEF Holds, D

-----------------------------------------------------------------------------
(* The list of each entry.                                                 *)
LEMMA ListsAre ==
  ASSUME TypeOK
  PROVE  \A s \in Slots : /\ Lists[s] \in Seq(Frames)
                          /\ s < loaded_module_count => Lists[s] = loaded_modules[s].frames
                          /\ s > loaded_module_count => Lists[s] = << >>
                          /\ s = loaded_module_count /\ call = NoCall => Lists[s] = << >>
                          /\ s = loaded_module_count /\ call # NoCall =>
                               Lists[s] = loaded_modules[s].frames
<1> SUFFICES ASSUME NEW s \in Slots
             PROVE  /\ Lists[s] \in Seq(Frames)
                    /\ s < loaded_module_count => Lists[s] = loaded_modules[s].frames
                    /\ s > loaded_module_count => Lists[s] = << >>
                    /\ s = loaded_module_count /\ call = NoCall => Lists[s] = << >>
                    /\ s = loaded_module_count /\ call # NoCall =>
                         Lists[s] = loaded_modules[s].frames
  OBVIOUS
<1>1. loaded_modules[s].frames \in Seq(Frames) /\ s \in Nat /\ loaded_module_count \in Nat
  BY LoaderConstants DEF TypeOK, Entry, Slots
<1>2. Lists[s] = IF Counts(s) THEN loaded_modules[s].frames ELSE << >>
  BY DEF Lists
<1> HIDE DEF NoCall, Frames
<1> QED BY <1>1, <1>2 DEF Counts

(* The same in the next state.                                             *)
LEMMA ListsAreNext ==
  ASSUME TypeOK'
  PROVE  \A s \in Slots : /\ Lists'[s] \in Seq(Frames)
                          /\ s < loaded_module_count' => Lists'[s] = loaded_modules'[s].frames
                          /\ s > loaded_module_count' => Lists'[s] = << >>
                          /\ s = loaded_module_count' /\ call' = NoCall => Lists'[s] = << >>
                          /\ s = loaded_module_count' /\ call' # NoCall =>
                               Lists'[s] = loaded_modules'[s].frames
<1> SUFFICES ASSUME NEW s \in Slots
             PROVE  /\ Lists'[s] \in Seq(Frames)
                    /\ s < loaded_module_count' => Lists'[s] = loaded_modules'[s].frames
                    /\ s > loaded_module_count' => Lists'[s] = << >>
                    /\ s = loaded_module_count' /\ call' = NoCall => Lists'[s] = << >>
                    /\ s = loaded_module_count' /\ call' # NoCall =>
                         Lists'[s] = loaded_modules'[s].frames
  OBVIOUS
<1>1. loaded_modules'[s].frames \in Seq(Frames) /\ s \in Nat /\ loaded_module_count' \in Nat
  BY LoaderConstants DEF TypeOK, Entry, Slots
<1>2. Lists'[s] = IF Counts(s)' THEN loaded_modules'[s].frames ELSE << >>
  BY DEF Lists
<1>3. Counts(s)' <=> s < loaded_module_count' \/ (s = loaded_module_count' /\ call' # NoCall)
  BY DEF Counts, NoCall
<1> HIDE DEF NoCall, Frames, Counts
<1> QED BY <1>1, <1>2, <1>3

(* The invariant holds at the start: pmm_init frees what is usable.        *)
LEMMA InitInv == Init => Inv
<1> SUFFICES ASSUME Init PROVE Inv
  OBVIOUS
<1>1. info \in BootInfos /\ free = FreedAtBoot(info) /\ total_frames \in 0..BITMAP_BITS
  <2> HIDE DEF PmmInit
  <2> QED BY PmmInitMeans DEF Init
<1>2. free \subseteq Frames /\ NONE \in Frames /\ 0 \in Pages
  BY <1>1, NoneNotFreed, PmmConstants, LoaderConstants DEF Pages
<1>3. loaded_module_count \in 0..MAX_LOADED_MODULES
  BY LoaderConstants DEF Init
<1>4. Unused \in Entry /\ NoCall \in Call
  BY DEF Unused, Entry, NoCall, Call, NO
<1> HIDE DEF FreedAtBoot, Frames, NONE, Unused, NoCall, Pages, Entry, Call, PmmInit, NO, NOIMAGE
<1>5. loaded_modules \in [Slots -> Entry]
  BY <1>4 DEF Init
<1>6. page \in [Pages -> Frames] /\ table \in Frames
  BY <1>2 DEF Init
<1>7. content \in [Frames -> (Images \cup {NOIMAGE}) \X Pages]
  BY <1>2 DEF Init
<1>8. call \in Call /\ others \subseteq Frames /\ newest \in Slots \cup {NO}
  BY <1>4 DEF Init
<1>9. halted \in BOOLEAN /\ gapped \in BOOLEAN
  BY DEF Init
<1>10. TypeOK
  BY <1>1, <1>2, <1>3, <1>5, <1>6, <1>7, <1>8, <1>9 DEF TypeOK
<1>11. \A s \in Slots : Lists[s] = << >>
  <2>1. \A s \in Slots : ~(s < 0)
    BY DEF Slots
  <2> QED BY <2>1 DEF Lists, Counts, Init
<1>12. Divided(free, others, table, Lists, FreedAtBoot(info))
  <2>1. \A s \in Slots : Range(Lists[s]) = {} /\ IsInjective(Lists[s])
    <3>1. Range(<< >>) = {} /\ IsInjective(<< >>)
      BY DEF Range, IsInjective
    <3> HIDE DEF Range, IsInjective
    <3> QED BY <1>11, <3>1
  <2> HIDE DEF Range, IsInjective, Lists
  <2> QED BY <1>1, <2>1 DEF Divided, Init
<1>13. Loading /\ Newest
  BY DEF Loading, Newest, Init
<1>14. Mapped
  <2> HIDE DEF Lists
  <2> QED BY DEF Mapped, Init
<1> QED BY <1>10, <1>12, <1>13, <1>14 DEF Inv, Init

(* A page fault stops everything.                                          *)
LEMMA HaltInv ==
  ASSUME Inv, Halt
  PROVE  Inv'
<1>1. NoCall \in Call
  BY DEF NoCall, Call
<1> HIDE DEF NoCall, Call
<1>2. call' = NoCall /\ halted' = TRUE
  BY DEF Halt
<1>3. TypeOK'
  <2> HIDE DEF Frames, Pages, Entry, Slots, NO, NOIMAGE
  <2> QED BY <1>1, <1>2 DEF Halt, Inv, TypeOK, pmm, registry
<1> QED BY <1>2, <1>3 DEF Inv, NoCall

(* cleanup_module_frames and the end of the call.                          *)
LEMMA GiveUpInv ==
  ASSUME Inv, ~halted, call # NoCall, NEW n \in Nat, NEW st \in {"UNUSED", "FAILED"},
         GiveUp(n, page, st)
  PROVE  Inv'
<1> DEFINE c == loaded_module_count
           e == loaded_modules[c]
<1>1. TypeOK /\ Divided(free, others, table, Lists, FreedAtBoot(info)) /\ Loading /\ Newest /\ Mapped
  BY DEF Inv
<1>2. c \in Slots /\ newest = NO /\ c \in Nat
  BY <1>1 DEF Loading, Slots
<1>3. e \in Entry
  BY <1>1, <1>2 DEF TypeOK
<1> DEFINE e2 == [e EXCEPT !.frames = << >>, !.state = st]
<1>4. loaded_modules' = [loaded_modules EXCEPT ![c] = e2]
  BY <1>1, <1>2, <1>3 DEF GiveUp, slot, TypeOK, Entry
<1>5. e2 \in Entry /\ e2.frames = << >>
  <2>1. << >> \in Seq(Frames)
    OBVIOUS
  <2> HIDE DEF e, Pages, Frames, NO, NOIMAGE
  <2> QED BY <1>3, <2>1 DEF Entry
<1>6. /\ free' = free \cup Range(e.frames) /\ call' = NoCall
      /\ total_frames' = total_frames /\ info' = info /\ loaded_module_count' = c /\ table' = table
      /\ content' = content /\ others' = others /\ halted' = halted /\ newest' = newest /\ gapped' = gapped
  BY DEF GiveUp, this, slot
<1>7. page' = [p \in Pages |-> IF p < Len(e.frames) + n THEN NONE ELSE page[p]]
  BY DEF GiveUp, this, slot
<1>8. e.frames \in Seq(Frames) /\ Range(e.frames) \subseteq Frames /\ Len(e.frames) \in Nat
  BY <1>3 DEF Entry, Range
<1>9. Lists[c] = e.frames
  BY <1>1, <1>2, ListsAre
<1> HIDE DEF e, e2
<1>10. NoCall \in Call /\ NONE \in Frames
  BY PmmConstants DEF NoCall, Call
<1> HIDE DEF NoCall, Call, NONE, Frames, Pages, Entry, NO, NOIMAGE, c, FreedAtBoot
<1>11. loaded_modules' \in [Slots -> Entry] /\ \A s \in Slots \ {c} : loaded_modules'[s] = loaded_modules[s]
  BY <1>1, <1>2, <1>4, <1>5 DEF TypeOK
<1>12. page' \in [Pages -> Frames]
  BY <1>1, <1>7, <1>10 DEF TypeOK
<1>13. TypeOK'
  BY <1>1, <1>6, <1>8, <1>10, <1>11, <1>12 DEF TypeOK, c
<1>14. Lists'[c] = << >> /\ \A s \in Slots \ {c} : Lists'[s] = Lists[s]
  <2>1. Lists'[c] = << >>
    BY <1>2, <1>6, <1>13, ListsAreNext
  <2>2. ASSUME NEW s \in Slots \ {c} PROVE Lists'[s] = Lists[s]
    <3>1. s \in Nat /\ (s < c \/ s > c)
      BY <1>2 DEF Slots
    <3>2. CASE s < c
      BY <1>1, <1>6, <1>11, <1>13, <3>2, ListsAre, ListsAreNext DEF c
    <3>3. CASE s > c
      BY <1>1, <1>6, <1>11, <1>13, <3>3, ListsAre, ListsAreNext DEF c
    <3> QED BY <3>1, <3>2, <3>3
  <2> QED BY <2>1, <2>2
<1>15. Divided(free', others', table', Lists', FreedAtBoot(info'))
  <2> DEFINE L == Lists
             M == Lists'
  <2>1. Divided(free, others, table, L, FreedAtBoot(info)) /\ M[c] = << >> /\ \A s \in Slots \ {c} : M[s] = L[s]
    BY <1>1, <1>14
  <2>2. free' = free \cup Range(L[c])
    BY <1>6, <1>9
  <2> HIDE DEF L, M, Divided
  <2>3. Divided(free \cup Range(L[c]), others, table, M, FreedAtBoot(info))
    BY <1>2, <2>1, DividedFreed
  <2> QED BY <1>6, <2>2, <2>3 DEF M
<1>16. Mapped'
  <2> SUFFICES ASSUME ~gapped', NEW p \in Pages, page'[p] # NONE
               PROVE  \E s \in 0 .. c - 1 : page'[p] \in Range(Lists'[s])
    BY <1>6 DEF Mapped, c, NONE, NoCall
  <2>1. page'[p] = page[p] /\ ~(p < Len(e.frames) + n)
    BY <1>7
  <2>2. ~(p < Len(e.frames))
    BY <1>8, <2>1 DEF Pages
  <2>3. PICK s \in 0 .. c - 1 : page[p] \in Range(Lists[s])
    <3> HIDE DEF Lists
    <3> QED BY <1>1, <1>6, <2>1, <2>2 DEF Mapped, this, slot, c, e
  <2>4. s \in Slots \ {c}
    BY <1>2, LoaderConstants DEF Slots
  <2> QED BY <1>14, <2>1, <2>3, <2>4
<1>17. Loading' /\ Newest'
  BY <1>2, <1>6 DEF Loading, Newest, NO, NoCall
<1> QED BY <1>6, <1>13, <1>15, <1>16, <1>17 DEF Inv

(* The same lists under another name.                                      *)
LEMMA DividedSame ==
  ASSUME NEW F, NEW X, NEW T, NEW L, NEW M, NEW U, Divided(F, X, T, L, U),
         \A s \in Slots : M[s] = L[s]
  PROVE  Divided(F, X, T, M, U)
<1> HIDE DEF Range, IsInjective, Slots, NONE
<1>1. {Range(M[s]) : s \in Slots} = {Range(L[s]) : s \in Slots}
  OBVIOUS
<1> QED BY <1>1 DEF Divided

(* The newest entry, when nothing it depends on changes.                   *)
LEMMA NewestSame ==
  ASSUME Newest, newest' = newest, page' = page, content' = content,
         loaded_module_count' = loaded_module_count,
         newest # NO => /\ loaded_modules'[newest].frames = loaded_modules[newest].frames
                        /\ loaded_modules'[newest].image = loaded_modules[newest].image
  PROVE  Newest'
<1> HIDE DEF NO, Laid
<1> SUFFICES ASSUME newest # NO
             PROVE  LET e == loaded_modules'[newest]
                    IN  /\ newest < loaded_module_count /\ e.image \in Images
                        /\ Laid(page, content, e.frames, e.image, Len(Desc[e.image].sections), REGION)
  BY DEF Newest
<1> QED BY DEF Newest

(* The mapped pages, when no list of a registered module changes.          *)
LEMMA MappedSame ==
  ASSUME TypeOK, Mapped, call = NoCall, page' = page, gapped' = gapped,
         loaded_module_count' = loaded_module_count, \A s \in Slots : Lists'[s] = Lists[s],
         call' # NoCall => call'.offset = Len(loaded_modules'[loaded_module_count].frames)
  PROVE  Mapped'
<1> HIDE DEF Lists, NONE
<1>1. \A s \in 0 .. loaded_module_count - 1 : s \in Slots
  BY LoaderConstants DEF TypeOK, Slots
<1> SUFFICES ASSUME ~gapped
             PROVE  /\ call' # NoCall => call'.offset = Len(loaded_modules'[loaded_module_count].frames)
                    /\ \A p \in Pages : page[p] # NONE =>
                         \E s \in 0 .. loaded_module_count - 1 : page[p] \in Range(Lists'[s])
  BY DEF Mapped, this, slot, NoCall, NONE
<1> HIDE DEF NoCall, Pages, Slots
<1> QED BY <1>1 DEF Mapped

(* module_load clears the slot and accepts or refuses the header.          *)
LEMMA LoadBeginInv ==
  ASSUME Inv, NEW i \in Images, LoadBegin(i)
  PROVE  Inv'
<1> DEFINE c == loaded_module_count
           new == [at |-> "sections", image |-> i, k |-> 1, offset |-> 0]
<1>1. ~halted /\ call = NoCall /\ c < MAX_LOADED_MODULES
  BY DEF LoadBegin
<1>2. TypeOK /\ Divided(free, others, table, Lists, FreedAtBoot(info)) /\ Newest /\ Mapped
  BY <1>1 DEF Inv
<1>3. c \in Slots /\ c \in Nat
  BY <1>1, <1>2, LoaderConstants DEF TypeOK, Slots
<1>4. /\ loaded_modules' = [loaded_modules EXCEPT ![c] = Unused]
      /\ free' = free /\ total_frames' = total_frames /\ info' = info /\ loaded_module_count' = c
      /\ page' = page /\ table' = table /\ content' = content /\ others' = others
      /\ halted' = halted /\ gapped' = gapped
      /\ \/ call' = new /\ newest' = NO
         \/ call' = call /\ newest' = newest
  BY DEF LoadBegin, slot, pmm
<1>5. Unused \in Entry /\ Unused.frames = << >> /\ NoCall \in Call
  BY DEF Unused, Entry, NoCall, Call, NO
<1>6. new \in Call /\ new # NoCall
  BY DEF Call, NoCall
<1> HIDE DEF c, Unused, Entry, NoCall, Call, NO, FreedAtBoot, Frames, Pages, NOIMAGE
<1>7. /\ loaded_modules' \in [Slots -> Entry] /\ loaded_modules'[c] = Unused
      /\ \A s \in Slots \ {c} : loaded_modules'[s] = loaded_modules[s]
  BY <1>2, <1>3, <1>4, <1>5 DEF TypeOK
<1>8. TypeOK'
  <2> HIDE DEF new
  <2>1. call' \in Call /\ newest' \in Slots \cup {NO}
    BY <1>1, <1>2, <1>4, <1>5, <1>6 DEF TypeOK
  <2> QED BY <1>2, <1>4, <1>7, <2>1 DEF TypeOK, c
<1>9. \A s \in Slots : Lists'[s] = Lists[s]
  <2> SUFFICES ASSUME NEW s \in Slots PROVE Lists'[s] = Lists[s]
    OBVIOUS
  <2>1. s \in Nat /\ (s < c \/ s > c \/ s = c)
    BY <1>3 DEF Slots
  <2>2. CASE s < c
    <3>1. s # c
      BY <1>3, <2>1, <2>2
    <3> QED BY <1>2, <1>4, <1>7, <1>8, <2>2, <3>1, ListsAre, ListsAreNext DEF c
  <2>3. CASE s > c
    BY <1>2, <1>4, <1>8, <2>3, ListsAre, ListsAreNext DEF c
  <2>4. CASE s = c
    <3>1. Lists[s] = << >>
      BY <1>1, <1>2, <2>4, ListsAre DEF c
    <3>2. Lists'[s] = << >>
      BY <1>4, <1>5, <1>7, <1>8, <2>4, ListsAreNext DEF c
    <3> QED BY <3>1, <3>2
  <2> QED BY <2>1, <2>2, <2>3, <2>4
<1>10. Divided(free', others', table', Lists', FreedAtBoot(info'))
  <2> DEFINE L == Lists
             M == Lists'
  <2>1. Divided(free, others, table, L, FreedAtBoot(info)) /\ \A s \in Slots : M[s] = L[s]
    BY <1>2, <1>9
  <2> HIDE DEF L, M, Divided
  <2>2. Divided(free, others, table, M, FreedAtBoot(info))
    BY <2>1, DividedSame
  <2> QED BY <1>4, <2>2 DEF M
<1>11. CASE call' = new /\ newest' = NO
  <2>1. call'.at = "sections" /\ call'.image = i /\ call'.k = 1 /\ call'.offset = 0 /\ Len(loaded_modules'[c].frames) = 0
    BY <1>5, <1>7, <1>11
  <2>2. SectionEnd(i)[0] = 0 /\ PagesUpTo(i)[0] = 0 /\ Len(Desc[i].sections) \in Nat
    <3> HIDE DEF SectionEnd, PagesUpTo
    <3> QED BY SectionEndIs, PagesUpToIs, LoaderConstants
  <2>3. Laid(page', content', loaded_modules'[c].frames, i, 0, 0)
    BY DEF Laid
  <2>4. REGION \in Nat
    BY LoaderConstants
  <2>5. Loading'
    <3>1. /\ call'.at # "idle" /\ loaded_module_count' \in Slots /\ call'.image \in Images
          /\ call'.k \in 1 .. Len(Desc[call'.image].sections) + 1
          /\ call'.at # "register"
      BY <1>3, <1>4, <2>1, <2>2
    <3>2. call'.offset = SectionEnd(call'.image)[call'.k - 1] /\ call'.offset <= REGION
      <4>1. call'.k - 1 = 0
        BY <2>1
      <4> HIDE DEF SectionEnd
      <4> QED BY <2>1, <2>2, <2>4, <4>1
    <3>3. /\ Len(loaded_modules'[loaded_module_count'].frames) = PagesUpTo(call'.image)[call'.k - 1]
          /\ Laid(page', content', loaded_modules'[loaded_module_count'].frames, call'.image, call'.k - 1, call'.offset)
      <4>1. call'.k - 1 = 0
        BY <2>1
      <4> HIDE DEF PagesUpTo, Laid
      <4> QED BY <1>4, <2>1, <2>2, <2>3, <4>1
    <3> HIDE DEF PagesUpTo, SectionEnd, Laid
    <3> QED BY <1>11, <3>1, <3>2, <3>3 DEF Loading, desc, this, slot
  <2>6. Newest'
    BY <1>11 DEF Newest, NO
  <2>7. Mapped'
    <3>1. call'.offset = Len(loaded_modules'[loaded_module_count].frames)
      BY <2>1 DEF c
    <3> HIDE DEF new
    <3> QED BY <1>1, <1>2, <1>4, <1>9, <3>1, MappedSame DEF c
  <2> QED BY <1>1, <1>4, <1>8, <1>10, <2>5, <2>6, <2>7 DEF Inv
<1>12. CASE call' = call /\ newest' = newest
  <2>1. Loading'
    BY <1>1, <1>12 DEF Loading, NoCall
  <2>2. Newest'
    <3>1. newest # NO => /\ loaded_modules'[newest].frames = loaded_modules[newest].frames
                         /\ loaded_modules'[newest].image = loaded_modules[newest].image
      <4>1. ASSUME newest # NO PROVE newest \in Slots \ {c}
        <5>1. newest \in Slots /\ newest < c
          BY <1>2, <4>1 DEF TypeOK, Newest, c
        <5> QED BY <1>3, <5>1 DEF Slots
      <4> QED BY <1>7, <4>1
    <3> QED BY <1>2, <1>4, <1>12, <3>1, NewestSame DEF c
  <2>3. Mapped'
    BY <1>1, <1>2, <1>4, <1>9, <1>12, MappedSame DEF c
  <2> QED BY <1>1, <1>4, <1>8, <1>10, <1>12, <2>1, <2>2, <2>3 DEF Inv, NoCall
<1> QED BY <1>4, <1>11, <1>12

(* A section that is laid out lies in the region: a pointer to it is one.  *)
LEMMA PointerInRegion ==
  ASSUME NEW i \in Images, NEW P, NEW C, NEW b \in Seq(Frames), NEW o \in Nat, o <= REGION,
         Laid(P, C, b, i, Len(Desc[i].sections), o), NEW k \in 0..Len(Desc[i].sections)
  PROVE  SectionPage(i, k) \in Pages \cup {NO}
<1>1. CASE k = 0
  BY <1>1 DEF SectionPage
<1>2. CASE k # 0
  <2> DEFINE s == SectionPage(i, k)
             pg == Desc[i].sections[k].pages
             e == SectionEnd(i)[k]
  <2>1. k \in 1..Len(Desc[i].sections)
    BY <1>2
  <2> HIDE DEF SectionPage, SectionEnd, PagesUpTo
  <2>2. e <= o
    BY <2>1 DEF Laid
  <2>3. s \in Nat /\ e = s + pg
    BY <2>1, SectionPlace
  <2>4. pg \in Nat \ {0} /\ REGION \in Nat
    BY <2>1, LoaderConstants
  <2> HIDE DEF s, e, pg
  <2>5. s \in Pages
    BY <2>2, <2>3, <2>4 DEF Pages
  <2> QED BY <2>5 DEF s
<1> QED BY <1>1, <1>2

(* The entry points are looked up, and the entry is loaded.                *)
LEMMA EntryPointsInv ==
  ASSUME Inv, EntryPoints
  PROVE  Inv'
<1> DEFINE c == loaded_module_count
           e == loaded_modules[c]
           i == call.image
<1>1. call.at = "sections" /\ call # NoCall /\ call.k > Len(Desc[i].sections)
  BY DEF EntryPoints, SectionsDone, NoCall, desc
<1>2. ~halted
  BY <1>1 DEF Inv
<1>3. TypeOK /\ Divided(free, others, table, Lists, FreedAtBoot(info)) /\ Loading /\ Newest /\ Mapped
  BY <1>2 DEF Inv
<1>4. /\ c \in Slots /\ i \in Images /\ newest = NO
      /\ call.k \in 1 .. Len(Desc[i].sections) + 1
      /\ call.offset = SectionEnd(i)[call.k - 1] /\ call.offset <= REGION
      /\ Len(e.frames) = PagesUpTo(i)[call.k - 1]
      /\ Laid(page, content, e.frames, i, call.k - 1, call.offset)
  <2> HIDE DEF SectionEnd, PagesUpTo, Laid
  <2> QED BY <1>1, <1>3 DEF Loading, desc, this, slot
<1>5. Len(Desc[i].sections) \in Nat /\ {Desc[i].nameSec, Desc[i].exitSec} \subseteq 0..Len(Desc[i].sections)
  BY <1>4, LoaderConstants
<1>6. call.k = Len(Desc[i].sections) + 1 /\ call.k - 1 = Len(Desc[i].sections)
  BY <1>1, <1>4, <1>5
<1>7. e \in Entry /\ call \in Call
  BY <1>3, <1>4 DEF TypeOK
<1>8. e.frames \in Seq(Frames) /\ call.offset \in Nat
  BY <1>7 DEF Entry, Call
<1> DEFINE nm == SectionPage(i, Desc[i].nameSec)
           ex == SectionPage(i, Desc[i].exitSec)
<1>9. nm \in Pages \cup {NO} /\ ex \in Pages \cup {NO}
  <2> HIDE DEF SectionPage, Laid, e, i, Pages, NO, Frames
  <2>1. Laid(page, content, e.frames, i, Len(Desc[i].sections), call.offset)
    BY <1>4, <1>6
  <2>2. Desc[i].nameSec \in 0..Len(Desc[i].sections) /\ Desc[i].exitSec \in 0..Len(Desc[i].sections)
    BY <1>5
  <2> QED BY <1>4, <1>8, <2>1, <2>2, PointerInRegion
<1> DEFINE e2 == [e EXCEPT !.state = "LOADED", !.image = i, !.name = nm, !.exit = ex]
           call2 == [call EXCEPT !.at = "register"]
<1>10. /\ loaded_modules' = [loaded_modules EXCEPT ![c] = e2]
       /\ call' = call2
       /\ free' = free /\ total_frames' = total_frames /\ info' = info /\ loaded_module_count' = c
       /\ page' = page /\ table' = table /\ content' = content /\ others' = others
       /\ halted' = halted /\ newest' = newest /\ gapped' = gapped
  <2> HIDE DEF SectionPage
  <2> QED BY DEF EntryPoints, slot, pmm, desc
<1> HIDE DEF nm, ex
<1>11. e2 \in Entry /\ e2.frames = e.frames /\ e2.image = i
  <2> HIDE DEF e, i, Pages, NO, Frames, NOIMAGE
  <2> QED BY <1>4, <1>7, <1>9 DEF Entry
<1>12. /\ call2 \in Call /\ call2.at = "register" /\ call2.image = i /\ call2.k = call.k
       /\ call2.offset = call.offset /\ call2 # NoCall
  BY <1>7 DEF Call, NoCall
<1> HIDE DEF c, i, call2, NoCall, Call, NO, FreedAtBoot, Frames, Pages, NOIMAGE, SectionEnd, PagesUpTo, Laid
<1>13. /\ loaded_modules' \in [Slots -> Entry] /\ loaded_modules'[c] = e2
       /\ \A s \in Slots \ {c} : loaded_modules'[s] = loaded_modules[s]
  <2> HIDE DEF e2, Entry, e
  <2> QED BY <1>3, <1>4, <1>10, <1>11 DEF TypeOK
<1>14. loaded_modules'[c].frames = e.frames /\ loaded_modules'[c].image = i
  BY <1>11, <1>13
<1> HIDE DEF Entry, e2
<1>15. TypeOK'
  BY <1>3, <1>10, <1>12, <1>13 DEF TypeOK, c
<1>16. \A s \in Slots : Lists'[s] = Lists[s]
  <2> SUFFICES ASSUME NEW s \in Slots PROVE Lists'[s] = Lists[s]
    OBVIOUS
  <2>1. s \in Nat /\ c \in Nat /\ (s < c \/ s > c \/ s = c)
    BY <1>4 DEF Slots
  <2>2. CASE s < c
    <3>1. s # c
      BY <2>1, <2>2
    <3> QED BY <1>3, <1>10, <1>13, <1>15, <2>2, <3>1, ListsAre, ListsAreNext DEF c
  <2>3. CASE s > c
    BY <1>3, <1>10, <1>15, <2>3, ListsAre, ListsAreNext DEF c
  <2>4. CASE s = c
    <3>1. Lists[s] = e.frames
      BY <1>1, <1>3, <2>4, ListsAre DEF c, e
    <3>2. Lists'[s] = e.frames
      BY <1>10, <1>12, <1>14, <1>15, <2>4, ListsAreNext DEF c
    <3> QED BY <3>1, <3>2
  <2> QED BY <2>1, <2>2, <2>3, <2>4
<1>17. Divided(free', others', table', Lists', FreedAtBoot(info'))
  <2> DEFINE L == Lists
             M == Lists'
  <2>1. Divided(free, others, table, L, FreedAtBoot(info)) /\ \A s \in Slots : M[s] = L[s]
    BY <1>3, <1>16
  <2> HIDE DEF L, M, Divided
  <2>2. Divided(free, others, table, M, FreedAtBoot(info))
    BY <2>1, DividedSame
  <2> QED BY <1>10, <2>2 DEF M
<1>18. Loading'
  <2>1. call'.at = "register" /\ call'.image = i /\ call'.k = call.k /\ call'.offset = call.offset
    BY <1>10, <1>12
  <2>2. loaded_module_count' = c /\ this'.frames = e.frames /\ this'.image = i /\ newest' = NO
    BY <1>4, <1>10, <1>14 DEF this, slot
  <2>3. Laid(page', content', e.frames, i, call.k - 1, call.offset)
    BY <1>4, <1>10
  <2> HIDE DEF e
  <2> QED BY <1>4, <1>6, <2>1, <2>2, <2>3 DEF Loading, desc
<1>19. Newest'
  BY <1>4, <1>10 DEF Newest, NO
<1>20. Mapped'
  <2> SUFFICES ASSUME ~gapped
               PROVE  /\ call.offset = Len(e.frames)
                      /\ \A p \in Pages : page[p] # NONE =>
                           \/ \E s \in 0 .. c - 1 : page[p] \in Range(Lists'[s])
                           \/ p < Len(e.frames) /\ page[p] = e.frames[p + 1]
    <3>1. call'.offset = call.offset /\ call' # NoCall /\ this'.frames = e.frames
      BY <1>10, <1>12, <1>14 DEF this, slot
    <3> HIDE DEF e
    <3> QED BY <1>10, <3>1 DEF Mapped, NONE, NoCall
  <2>1. \A s \in 0 .. c - 1 : s \in Slots
    BY <1>4, LoaderConstants DEF Slots
  <2> HIDE DEF Lists, Slots
  <2> QED BY <1>1, <1>3, <1>16, <2>1 DEF Mapped, this, slot, c, e
<1> QED BY <1>2, <1>10, <1>15, <1>17, <1>18, <1>19, <1>20 DEF Inv

(* The module is registered, and is the newest.                            *)
LEMMA RegisterInv ==
  ASSUME Inv, Register
  PROVE  Inv'
<1> DEFINE c == loaded_module_count
           e == loaded_modules[c]
           i == call.image
<1>1. call.at = "register" /\ call # NoCall
  BY DEF Register, Registering, NoCall
<1>2. ~halted
  BY <1>1 DEF Inv
<1>3. TypeOK /\ Divided(free, others, table, Lists, FreedAtBoot(info)) /\ Loading /\ Newest /\ Mapped
  BY <1>2 DEF Inv
<1>4. /\ c \in Slots /\ i \in Images
      /\ call.k = Len(Desc[i].sections) + 1 /\ e.image = i /\ call.offset <= REGION
      /\ Laid(page, content, e.frames, i, call.k - 1, call.offset)
  <2> HIDE DEF SectionEnd, PagesUpTo, Laid
  <2> QED BY <1>1, <1>3 DEF Loading, desc, this, slot
<1>5. e.frames \in Seq(Frames) /\ call.offset \in Nat /\ REGION \in Nat /\ Len(Desc[i].sections) \in Nat
  BY <1>3, <1>4, LoaderConstants DEF TypeOK, Entry, Call
<1>6. /\ loaded_modules' = loaded_modules /\ loaded_module_count' = c + 1 /\ newest' = c /\ call' = NoCall
      /\ free' = free /\ total_frames' = total_frames /\ info' = info
      /\ page' = page /\ table' = table /\ content' = content /\ others' = others
      /\ halted' = halted /\ gapped' = gapped
  BY DEF Register, slot, pmm
<1>7. c + 1 \in 0..MAX_LOADED_MODULES /\ c \in Nat
  BY <1>4, LoaderConstants DEF Slots
<1>8. NoCall \in Call
  BY DEF NoCall, Call
<1> HIDE DEF c, i, e, NoCall, Call, NO, FreedAtBoot, Frames, Pages, NOIMAGE, SectionEnd, PagesUpTo, Laid, Entry
<1>9. TypeOK'
  BY <1>3, <1>4, <1>6, <1>7, <1>8 DEF TypeOK
<1>10. \A s \in Slots : Lists'[s] = Lists[s]
  <2> SUFFICES ASSUME NEW s \in Slots PROVE Lists'[s] = Lists[s]
    OBVIOUS
  <2>1. s \in Nat /\ (s < c \/ s > c \/ s = c)
    BY <1>7 DEF Slots
  <2>2. CASE s < c
    <3>1. s < c + 1
      BY <1>7, <2>1, <2>2
    <3> QED BY <1>3, <1>6, <1>9, <2>2, <3>1, ListsAre, ListsAreNext DEF c
  <2>3. CASE s > c
    <3>1. s > c + 1 \/ s = c + 1
      BY <1>7, <2>1, <2>3
    <3> QED BY <1>3, <1>6, <1>9, <2>3, <3>1, ListsAre, ListsAreNext DEF c
  <2>4. CASE s = c
    <3>1. c < c + 1
      BY <1>7
    <3> QED BY <1>1, <1>3, <1>6, <1>9, <2>4, <3>1, ListsAre, ListsAreNext DEF c
  <2> QED BY <2>1, <2>2, <2>3, <2>4
<1>11. Divided(free', others', table', Lists', FreedAtBoot(info'))
  <2> DEFINE L == Lists
             M == Lists'
  <2>1. Divided(free, others, table, L, FreedAtBoot(info)) /\ \A s \in Slots : M[s] = L[s]
    BY <1>3, <1>10
  <2> HIDE DEF L, M, Divided
  <2>2. Divided(free, others, table, M, FreedAtBoot(info))
    BY <2>1, DividedSame
  <2> QED BY <1>6, <2>2 DEF M
<1>12. Laid(page, content, e.frames, i, Len(Desc[i].sections), REGION)
  <2>1. call.k - 1 = Len(Desc[i].sections) /\ Len(Desc[i].sections) \in 0..Len(Desc[i].sections)
    BY <1>4, <1>5
  <2>2. Laid(page, content, e.frames, i, Len(Desc[i].sections), call.offset)
    BY <1>4, <2>1
  <2>3. Len(e.frames) <= Len(e.frames)
    BY <1>5
  <2> QED BY <1>4, <1>5, <2>1, <2>2, <2>3, LaidStays
<1>13. Newest'
  <2>1. loaded_modules'[newest'] = e /\ newest' < loaded_module_count'
    BY <1>6, <1>7 DEF e
  <2> QED BY <1>4, <1>6, <1>12, <2>1 DEF Newest
<1>14. Loading'
  BY <1>6 DEF Loading, NoCall
<1>15. Mapped'
  <2> SUFFICES ASSUME ~gapped, NEW p \in Pages, page[p] # NONE
               PROVE  \E s \in 0 .. c : page[p] \in Range(Lists'[s])
    <3>1. (c + 1) - 1 = c
      BY <1>7
    <3> QED BY <1>6, <3>1 DEF Mapped, NONE, NoCall
  <2>1. CASE \E s \in 0 .. c - 1 : page[p] \in Range(Lists[s])
    <3>1. PICK s \in 0 .. c - 1 : page[p] \in Range(Lists[s])
      BY <2>1
    <3>2. s \in Slots /\ s \in 0..c
      BY <1>4, <1>7, LoaderConstants DEF Slots
    <3> QED BY <1>10, <3>1, <3>2
  <2>2. CASE p < Len(e.frames) /\ page[p] = e.frames[p + 1]
    <3>1. p + 1 \in 1..Len(e.frames)
      BY <1>5, <2>2 DEF Pages
    <3>2. p + 1 \in DOMAIN e.frames
      BY <1>5, <3>1
    <3>3. page[p] \in Range(e.frames)
      BY <2>2, <3>2 DEF Range
    <3>4. Lists'[c] = e.frames /\ c \in 0..c
      BY <1>1, <1>3, <1>4, <1>7, <1>10, ListsAre DEF c, e
    <3> QED BY <3>3, <3>4
  <2>3. \/ \E s \in 0 .. c - 1 : page[p] \in Range(Lists[s])
        \/ p < Len(e.frames) /\ page[p] = e.frames[p + 1]
    <3> HIDE DEF Lists
    <3> QED BY <1>3 DEF Mapped, this, slot, c, e
  <2> QED BY <2>1, <2>2, <2>3
<1> QED BY <1>2, <1>6, <1>9, <1>11, <1>13, <1>14, <1>15 DEF Inv

(* module_unload changes only the state of an entry, or the kernel faults. *)
LEMMA UnloadInv ==
  ASSUME Inv, NEW name, Unload(name)
  PROVE  Inv'
<1> DEFINE c == loaded_module_count
           i == Min(Stops(name))
<1>1. ~halted /\ call = NoCall /\ Stops(name) # {}
  BY DEF Unload
<1>2. TypeOK /\ Divided(free, others, table, Lists, FreedAtBoot(info)) /\ Newest /\ Mapped
  BY <1>1 DEF Inv
<1>3. c \in 0..MAX_LOADED_MODULES
  BY <1>2 DEF TypeOK
<1>4. i \in Slots
  <2>1. Stops(name) \subseteq 0 .. c - 1
    BY DEF Stops
  <2>2. 0 .. c - 1 \subseteq Slots /\ 0 .. c - 1 \subseteq Nat
    BY <1>3, LoaderConstants DEF Slots
  <2>3. i \in Stops(name)
    <3>1. Stops(name) \in SUBSET Nat
      BY <2>1, <2>2
    <3> HIDE DEF Stops
    <3> QED BY <1>1, <3>1, MinMember
  <2> QED BY <2>1, <2>2, <2>3
<1>5. CASE Halt
  BY <1>5, HaltInv
<1>6. CASE ~Halt
  <2> HIDE DEF Halt
  <2>1. /\ loaded_modules' = [loaded_modules EXCEPT ![i].state = "UNLOADED"]
        /\ loaded_module_count' = c /\ newest' = newest /\ call' = NoCall
        /\ free' = free /\ total_frames' = total_frames /\ info' = info
        /\ page' = page /\ table' = table /\ content' = content /\ others' = others
        /\ halted' = halted /\ gapped' = gapped
    <3> HIDE DEF Stops, FaultsAt, NoCall
    <3> QED BY <1>1, <1>6 DEF Unload, pmm
  <2> HIDE DEF i
  <2> DEFINE e == loaded_modules[i]
             e2 == [e EXCEPT !.state = "UNLOADED"]
  <2>2. e \in Entry /\ loaded_modules' = [loaded_modules EXCEPT ![i] = e2]
    BY <1>2, <1>4, <2>1 DEF TypeOK
  <2>3. e2 \in Entry /\ e2.frames = e.frames /\ e2.image = e.image
    <3> HIDE DEF e, Pages, NO, Frames, NOIMAGE
    <3> QED BY <2>2 DEF Entry
  <2>4. NoCall \in Call
    BY DEF NoCall, Call
  <2> HIDE DEF c, NoCall, Call, NO, FreedAtBoot, Frames, Pages, NOIMAGE, Laid, Entry, e2
  <2>5. /\ loaded_modules' \in [Slots -> Entry]
        /\ \A s \in Slots : /\ loaded_modules'[s].frames = loaded_modules[s].frames
                            /\ loaded_modules'[s].image = loaded_modules[s].image
    BY <1>2, <1>4, <2>2, <2>3 DEF TypeOK
  <2>6. TypeOK'
    BY <1>2, <2>1, <2>4, <2>5 DEF TypeOK, c
  <2>7. \A s \in Slots : Lists'[s] = Lists[s]
    <3> SUFFICES ASSUME NEW s \in Slots PROVE Lists'[s] = Lists[s]
      OBVIOUS
    <3>1. s < c \/ s > c \/ s = c
      BY <1>3 DEF Slots
    <3>2. CASE s < c
      BY <1>2, <2>1, <2>5, <2>6, <3>2, ListsAre, ListsAreNext DEF c
    <3>3. CASE s > c
      BY <1>2, <2>1, <2>6, <3>3, ListsAre, ListsAreNext DEF c
    <3>4. CASE s = c
      BY <1>1, <1>2, <2>1, <2>6, <3>4, ListsAre, ListsAreNext DEF c
    <3> QED BY <3>1, <3>2, <3>3, <3>4
  <2>8. Divided(free', others', table', Lists', FreedAtBoot(info'))
    <3> DEFINE L == Lists
               M == Lists'
    <3>1. Divided(free, others, table, L, FreedAtBoot(info)) /\ \A s \in Slots : M[s] = L[s]
      BY <1>2, <2>7
    <3> HIDE DEF L, M, Divided
    <3>2. Divided(free, others, table, M, FreedAtBoot(info))
      BY <3>1, DividedSame
    <3> QED BY <2>1, <3>2 DEF M
  <2>9. Newest'
    <3>1. newest # NO => newest \in Slots
      BY <1>2 DEF TypeOK
    <3> QED BY <1>2, <2>1, <2>5, <3>1, NewestSame DEF c
  <2>10. Mapped'
    BY <1>1, <1>2, <2>1, <2>7, MappedSame DEF c
  <2>11. Loading'
    BY <2>1 DEF Loading, NoCall
  <2> QED BY <1>1, <2>1, <2>6, <2>8, <2>9, <2>10, <2>11 DEF Inv
<1> QED BY <1>5, <1>6

(* The lists when neither the registry nor the call changes.               *)
LEMMA ListsUnchanged ==
  ASSUME loaded_modules' = loaded_modules, loaded_module_count' = loaded_module_count, call' = call
  PROVE  \A s \in Slots : Lists'[s] = Lists[s]
<1>1. \A s : Counts(s)' <=> Counts(s)
  BY DEF Counts, NoCall
<1> HIDE DEF Slots, Counts
<1> QED BY <1>1 DEF Lists

(* The rest of the kernel takes a frame and overwrites it: not one of a    *)
(* module.                                                                 *)
LEMMA FrameTakenInv ==
  ASSUME Inv, FrameTaken
  PROVE  Inv'
<1> DEFINE f == Min(Available)
<1>1. ~halted /\ call = NoCall /\ Available # {}
  BY DEF FrameTaken
<1>2. TypeOK /\ Divided(free, others, table, Lists, FreedAtBoot(info)) /\ Newest /\ Mapped
  BY <1>1 DEF Inv
<1>3. f \in free /\ f \in Frames /\ free \subseteq Frames
  <2>1. free \subseteq Frames
    BY <1>2 DEF TypeOK
  <2>2. Available \in SUBSET Nat /\ Available \subseteq free
    BY <2>1, AvailableFinite, PmmConstants
  <2>3. f \in Available
    BY <1>1, <2>2, MinMember
  <2> QED BY <2>1, <2>2, <2>3
<1>4. /\ free' = free \ {f} /\ others' = others \cup {f}
      /\ content' = [content EXCEPT ![f] = <<NOIMAGE, 0>>]
      /\ total_frames' = total_frames /\ info' = info /\ loaded_modules' = loaded_modules
      /\ loaded_module_count' = loaded_module_count /\ page' = page /\ table' = table
      /\ call' = call /\ halted' = halted /\ newest' = newest /\ gapped' = gapped
  BY DEF FrameTaken, registry
<1>5. 0 \in Pages
  BY LoaderConstants DEF Pages
<1> HIDE DEF f, NoCall, Call, NO, FreedAtBoot, Frames, Pages, NOIMAGE, Laid, Entry, SectionEnd, PagesUpTo
<1>6. /\ content' \in [Frames -> (Images \cup {NOIMAGE}) \X Pages]
      /\ \A g \in Frames : g # f => content'[g] = content[g]
  BY <1>2, <1>3, <1>4, <1>5 DEF TypeOK
<1>7. TypeOK'
  BY <1>2, <1>3, <1>4, <1>6 DEF TypeOK
<1>8. \A s \in Slots : Lists'[s] = Lists[s]
  BY <1>4, ListsUnchanged
<1>9. Divided(free', others', table', Lists', FreedAtBoot(info'))
  <2> DEFINE L == Lists
             M == Lists'
  <2>1. Divided(free, others, table, L, FreedAtBoot(info)) /\ \A s \in Slots : M[s] = L[s]
    BY <1>2, <1>8
  <2> HIDE DEF L, M, Divided
  <2>2. Divided(free \ {f}, others \cup {f}, table, L, FreedAtBoot(info))
    BY <1>3, <2>1, DividedTaken
  <2>3. Divided(free \ {f}, others \cup {f}, table, M, FreedAtBoot(info))
    BY <2>1, <2>2, DividedSame
  <2> QED BY <1>4, <2>3 DEF M
<1>10. Newest'
  <2> SUFFICES ASSUME newest # NO
               PROVE  LET e == loaded_modules[newest]
                      IN  /\ newest < loaded_module_count /\ e.image \in Images
                          /\ Laid(page, content', e.frames, e.image, Len(Desc[e.image].sections), REGION)
    BY <1>4 DEF Newest, NO
  <2> DEFINE e == loaded_modules[newest]
             a == e.frames
             i == e.image
  <2>1. newest \in Slots /\ newest < loaded_module_count /\ i \in Images
    BY <1>2 DEF TypeOK, Newest
  <2>2. Laid(page, content, a, i, Len(Desc[i].sections), REGION)
    BY <1>2 DEF Newest
  <2>3. Lists[newest] = a
    BY <1>2, <2>1, ListsAre
  <2>4. a \in Seq(Frames) /\ Len(a) <= Len(a)
    <3>1. a \in Seq(Frames)
      BY <1>2, <2>1 DEF TypeOK, Entry
    <3> HIDE DEF a
    <3> QED BY <3>1
  <2>5. Range(a) \cap free = {}
    <3> DEFINE L == Lists
    <3>1. Divided(free, others, table, L, FreedAtBoot(info)) /\ L[newest] = a
      BY <1>2, <2>3
    <3> HIDE DEF L, Divided, a
    <3> QED BY <2>1, <3>1, DividedMeans
  <2> HIDE DEF a, i
  <2>6. \A x \in 1..Len(a) : content'[a[x]] = content[a[x]]
    <3> SUFFICES ASSUME NEW x \in 1..Len(a) PROVE content'[a[x]] = content[a[x]]
      OBVIOUS
    <3>1. a[x] \in Frames /\ a[x] \in Range(a)
      BY <2>4 DEF Range
    <3> QED BY <1>3, <1>6, <2>5, <3>1
  <2>7. REGION \in Nat /\ REGION <= REGION /\ Len(Desc[i].sections) \in 0..Len(Desc[i].sections)
    BY <2>1, LoaderConstants
  <2>8. Laid(page, content', a, i, Len(Desc[i].sections), REGION)
    BY <2>1, <2>2, <2>4, <2>6, <2>7, LaidStays
  <2> QED BY <2>1, <2>8 DEF a, i
<1>11. Mapped'
  BY <1>1, <1>2, <1>4, <1>8, MappedSame
<1>12. Loading'
  BY <1>1, <1>4 DEF Loading, NoCall
<1> QED BY <1>1, <1>4, <1>7, <1>9, <1>10, <1>11, <1>12 DEF Inv, NoCall

(* It gives one back.                                                      *)
LEMMA FrameGivenInv ==
  ASSUME Inv, FrameGiven
  PROVE  Inv'
<1>1. ~halted /\ call = NoCall
  BY DEF FrameGiven
<1>2. TypeOK /\ Divided(free, others, table, Lists, FreedAtBoot(info)) /\ Newest /\ Mapped
  BY <1>1 DEF Inv
<1>3. PICK f \in others : free' = free \cup {f} /\ others' = others \ {f}
  BY DEF FrameGiven
<1>4. /\ total_frames' = total_frames /\ info' = info /\ loaded_modules' = loaded_modules
      /\ loaded_module_count' = loaded_module_count /\ page' = page /\ table' = table
      /\ content' = content /\ call' = call /\ halted' = halted /\ newest' = newest /\ gapped' = gapped
  BY DEF FrameGiven, registry
<1> HIDE DEF NoCall, Call, NO, FreedAtBoot, Frames, Pages, NOIMAGE, Laid, Entry
<1>5. TypeOK'
  BY <1>2, <1>3, <1>4 DEF TypeOK
<1>6. \A s \in Slots : Lists'[s] = Lists[s]
  BY <1>4, ListsUnchanged
<1>7. Divided(free', others', table', Lists', FreedAtBoot(info'))
  <2> DEFINE L == Lists
             M == Lists'
  <2>1. Divided(free, others, table, L, FreedAtBoot(info)) /\ \A s \in Slots : M[s] = L[s]
    BY <1>2, <1>6
  <2> HIDE DEF L, M, Divided
  <2>2. Divided(free \cup {f}, others \ {f}, table, L, FreedAtBoot(info))
    BY <2>1, DividedGiven
  <2>3. Divided(free \cup {f}, others \ {f}, table, M, FreedAtBoot(info))
    BY <2>1, <2>2, DividedSame
  <2> QED BY <1>3, <1>4, <2>3 DEF M
<1>8. Newest'
  BY <1>2, <1>4, NewestSame
<1>9. Mapped'
  BY <1>1, <1>2, <1>4, <1>6, MappedSame
<1>10. Loading'
  BY <1>1, <1>4 DEF Loading, NoCall
<1> QED BY <1>1, <1>4, <1>5, <1>7, <1>8, <1>9, <1>10 DEF Inv, NoCall

-----------------------------------------------------------------------------
(* map_page finds or makes the page table.                                 *)
LEMMA DividedPageTable ==
  ASSUME NEW F, NEW X, NEW T, NEW L, NEW U, Divided(F, X, T, L, U), NEW pt, pt # NONE,
         (T # NONE /\ pt = T) \/ (T = NONE /\ pt \in F)
  PROVE  Divided(F \ {pt}, X, pt, L, U)
<1> HIDE DEF Divided, NONE
<1>1. CASE T # NONE /\ pt = T
  <2>1. T \notin F
    BY <1>1, DividedMeans
  <2>2. F \ {pt} = F
    BY <1>1, <2>1
  <2> QED BY <1>1, <2>2
<1>2. CASE T = NONE /\ pt \in F
  BY <1>2, DividedTable
<1> QED BY <1>1, <1>2

(* The section the loop is at, and what came before it.                    *)
LEMMA AtSection ==
  ASSUME Inv, InSection
  PROVE  /\ ~halted /\ TypeOK /\ Mapped
         /\ Divided(free, others, table, Lists, FreedAtBoot(info))
         /\ call # NoCall /\ newest = NO
         /\ loaded_module_count \in Slots /\ this \in Entry /\ this.frames \in Seq(Frames)
         /\ Lists[loaded_module_count] = this.frames
         /\ call.image \in Images /\ call.k \in 1..Len(Desc[call.image].sections)
         /\ call.offset \in Nat /\ call.offset <= REGION
         /\ section = Desc[call.image].sections[call.k] /\ section.pages \in Nat \ {0}
         /\ Align(call.offset, section.align) = SectionPage(call.image, call.k)
         /\ SectionPage(call.image, call.k) \in Nat /\ call.offset <= SectionPage(call.image, call.k)
         /\ SectionEnd(call.image)[call.k] = SectionPage(call.image, call.k) + section.pages
         /\ Len(this.frames) = PagesUpTo(call.image)[call.k - 1] /\ Len(this.frames) \in Nat
         /\ PagesUpTo(call.image)[call.k] = Len(this.frames) + section.pages
         /\ Laid(page, content, this.frames, call.image, call.k - 1, call.offset)
<1> DEFINE i == call.image
           k == call.k
<1>1. call.at = "sections" /\ call # NoCall /\ k <= Len(Desc[i].sections)
  BY DEF InSection, NoCall, desc
<1>2. ~halted
  BY <1>1 DEF Inv
<1>3. TypeOK /\ Divided(free, others, table, Lists, FreedAtBoot(info)) /\ Loading /\ Mapped
  BY <1>2 DEF Inv
<1>4. /\ loaded_module_count \in Slots /\ i \in Images /\ newest = NO
      /\ k \in 1 .. Len(Desc[i].sections) + 1
      /\ call.offset = SectionEnd(i)[k - 1] /\ call.offset <= REGION
      /\ Len(this.frames) = PagesUpTo(i)[k - 1]
      /\ Laid(page, content, this.frames, i, k - 1, call.offset)
  <2> HIDE DEF SectionEnd, PagesUpTo, Laid
  <2> QED BY <1>1, <1>3 DEF Loading, desc
<1>5. Len(Desc[i].sections) \in Nat
  BY <1>4, LoaderConstants
<1>6. k \in 1..Len(Desc[i].sections)
  BY <1>1, <1>4, <1>5
<1>7. this \in Entry /\ call.offset \in Nat
  BY <1>3, <1>4 DEF TypeOK, Call, this, slot
<1>8. this.frames \in Seq(Frames)
  BY <1>7 DEF Entry
<1>9. section = Desc[i].sections[k]
  BY DEF section, desc
<1>10. section.pages \in Nat \ {0}
  BY <1>4, <1>6, <1>9, LoaderConstants
<1>11. Lists[loaded_module_count] = this.frames
  BY <1>1, <1>3, <1>4, ListsAre DEF this, slot
<1> HIDE DEF i, k, section, this, SectionEnd, PagesUpTo, SectionPage, Laid
<1>12. /\ SectionPage(i, k) = Align(SectionEnd(i)[k-1], Desc[i].sections[k].align)
       /\ SectionPage(i, k) \in Nat /\ SectionEnd(i)[k-1] <= SectionPage(i, k)
       /\ SectionEnd(i)[k] = SectionPage(i, k) + Desc[i].sections[k].pages
       /\ PagesUpTo(i)[k-1] \in Nat
       /\ PagesUpTo(i)[k] = PagesUpTo(i)[k-1] + Desc[i].sections[k].pages
  BY <1>4, <1>6, SectionPlace
<1>13. /\ Align(call.offset, section.align) = SectionPage(i, k)
       /\ call.offset <= SectionPage(i, k)
       /\ SectionEnd(i)[k] = SectionPage(i, k) + section.pages
       /\ Len(this.frames) \in Nat
       /\ PagesUpTo(i)[k] = Len(this.frames) + section.pages
  <2> HIDE DEF Align
  <2> QED BY <1>4, <1>9, <1>12
<1> QED BY <1>1, <1>2, <1>3, <1>4, <1>6, <1>7, <1>8, <1>9, <1>10, <1>11, <1>12, <1>13 DEF i, k

(* What the step does: the section is copied to the frames t, with the     *)
(* page table in pt.                                                       *)
Copied(first, t, pt) ==
  /\ table' = pt
  /\ gapped' = (gapped \/ first # call.offset)
  /\ free' = free \ (Range(t) \cup {pt})
  /\ page' = WithPages(page, first, section.pages, t)
  /\ content' = WithData(content, first, section.pages,
                         WithPages(page, first, section.pages, t), call.image)
  /\ loaded_modules' = [loaded_modules EXCEPT ![slot].frames = this.frames \o t]
  /\ call' = [call EXCEPT !.k = @ + 1, !.offset = first + section.pages]
  /\ UNCHANGED <<total_frames, info, loaded_module_count, others, halted, newest>>

(* Or its data is not in the file, and everything is given back.           *)
Cut(first, t, pt) ==
  /\ table' = pt
  /\ gapped' = (gapped \/ first # call.offset)
  /\ free' = (free \cup Range(this.frames)) \ {pt}
  /\ page' = [p \in Pages |-> IF p < Len(this.frames \o t) THEN NONE
                              ELSE WithPages(page, first, section.pages, t)[p]]
  /\ loaded_modules' = [loaded_modules EXCEPT ![slot] = Unused]
  /\ call' = NoCall
  /\ UNCHANGED <<total_frames, info, loaded_module_count, others, halted, newest, content>>

(* The frames and the page table the step has.                             *)
Obtained(t, pt, n) ==
  /\ t \in Seq(Frames) /\ Len(t) = n /\ Range(t) \subseteq free
  /\ Distinct(t)
  /\ pt # NONE /\ pt \in Frames /\ pt \notin Range(t)
  /\ (table # NONE /\ pt = table) \/ (table = NONE /\ pt \in free)

(* LoadSection is one of these, or the kernel faults.                      *)
LEMMA SectionSteps ==
  ASSUME Inv, LoadSection
  PROVE  \/ Halt
         \/ /\ InSection /\ SectionPage(call.image, call.k) + section.pages <= REGION
            /\ \E t, pt : /\ Obtained(t, pt, section.pages)
                          /\ \/ Copied(SectionPage(call.image, call.k), t, pt)
                             \/ Cut(SectionPage(call.image, call.k), t, pt)
<1> DEFINE first == SectionPage(call.image, call.k)
           n == section.pages
           t == LowestFrames(n)
           rest == Available \ Range(t)
           pt == IF table # NONE THEN table ELSE IF rest = {} THEN NONE ELSE Min(rest)
<1>1. InSection
  BY DEF LoadSection, SectionAt
<1>2. /\ Align(call.offset, section.align) = first /\ n \in Nat
      /\ TypeOK /\ Divided(free, others, table, Lists, FreedAtBoot(info))
  BY <1>1, AtSection
<1>3. SectionAt(first)
  <2> HIDE DEF SectionAt, first
  <2> QED BY <1>2 DEF LoadSection
<1>4. n <= Cardinality(Available) /\ first + n <= REGION
  <2>1. free \subseteq Frames
    BY <1>2 DEF TypeOK
  <2>2. Cardinality(Available) \in Nat
    BY <2>1, AvailableFinite
  <2>3. Cardinality(Available) >= n /\ first + n <= REGION
    <3> HIDE DEF first, n
    <3> QED BY <1>3 DEF SectionAt, n
  <2> QED BY <1>2, <2>2, <2>3
<1>5. \/ pt = NONE /\ Halt
      \/ pt # NONE /\ (Copied(first, t, pt) \/ Cut(first, t, pt))
  <2> HIDE DEF first, LowestFrames, Available, Halt, NONE
  <2> QED BY <1>3 DEF SectionAt, Copied, Cut, WithPages, WithData
<1>6. CASE pt # NONE /\ (Copied(first, t, pt) \/ Cut(first, t, pt))
  <2>1. /\ t \in Seq(Frames) /\ Len(t) = n /\ Range(t) \subseteq Available
        /\ Distinct(t)
    <3>1. free \subseteq Frames
      BY <1>2 DEF TypeOK
    <3> HIDE DEF n, LowestFrames, Frames
    <3> QED BY <1>2, <1>4, <3>1, LowestFramesUse
  <2>2. Available \subseteq free /\ free \subseteq Frames /\ Frames \subseteq Nat /\ table \in Frames
    BY <1>2, AvailableFinite, PmmConstants DEF TypeOK
  <2> HIDE DEF t, n, first, Available, Frames, NONE, Copied, Cut
  <2>3. table = NONE => pt \in rest
    <3> SUFFICES ASSUME table = NONE PROVE pt \in rest
      OBVIOUS
    <3>1. rest # {} /\ pt = Min(rest)
      BY <1>6
    <3>2. rest \in SUBSET Nat
      BY <2>2
    <3> HIDE DEF rest, pt
    <3> QED BY <3>1, <3>2, MinMember
  <2>4. table # NONE => pt = table /\ pt \notin Range(t)
    <3> SUFFICES ASSUME table # NONE PROVE table \notin Range(t)
      OBVIOUS
    <3> DEFINE L == Lists
    <3>1. Divided(free, others, table, L, FreedAtBoot(info))
      BY <1>2
    <3> HIDE DEF L, Divided, FreedAtBoot
    <3>2. table \notin free
      BY <3>1, DividedMeans
    <3> QED BY <2>1, <2>2, <3>2
  <2> HIDE DEF pt
  <2>5. Obtained(t, pt, n)
    BY <1>6, <2>1, <2>2, <2>3, <2>4 DEF Obtained
  <2> QED BY <1>1, <1>4, <1>6, <2>5 DEF n, first
<1> HIDE DEF pt, t, first, n, Halt, Copied, Cut
<1> QED BY <1>5, <1>6

(* The lists of the other entries.                                         *)
LEMMA OtherLists ==
  ASSUME TypeOK, TypeOK', loaded_module_count \in Slots,
         loaded_module_count' = loaded_module_count,
         \A s \in Slots \ {loaded_module_count} : loaded_modules'[s] = loaded_modules[s]
  PROVE  \A s \in Slots \ {loaded_module_count} : Lists'[s] = Lists[s]
<1> DEFINE c == loaded_module_count
<1> SUFFICES ASSUME NEW s \in Slots \ {c} PROVE Lists'[s] = Lists[s]
  OBVIOUS
<1>1. s < c \/ s > c
  BY DEF Slots
<1> HIDE DEF c
<1>2. CASE s < c
  BY <1>2, ListsAre, ListsAreNext DEF c
<1>3. CASE s > c
  BY <1>3, ListsAre, ListsAreNext DEF c
<1> QED BY <1>1, <1>2, <1>3

(* The section is not in the file.                                         *)
LEMMA CutInv ==
  ASSUME Inv, InSection, SectionPage(call.image, call.k) + section.pages <= REGION,
         NEW t, NEW pt, Obtained(t, pt, section.pages),
         Cut(SectionPage(call.image, call.k), t, pt)
  PROVE  Inv'
<1> DEFINE c == loaded_module_count
           a == this.frames
           n == section.pages
           first == SectionPage(call.image, call.k)
           m == WithPages(page, first, n, t)
<1>1. /\ ~halted /\ TypeOK /\ Mapped /\ Divided(free, others, table, Lists, FreedAtBoot(info))
      /\ call # NoCall /\ newest = NO /\ c \in Slots /\ a \in Seq(Frames) /\ Lists[c] = a
      /\ n \in Nat \ {0} /\ first \in Nat /\ Len(a) \in Nat
  BY AtSection
<1>2. /\ table' = pt /\ gapped' = (gapped \/ first # call.offset)
      /\ free' = (free \cup Range(a)) \ {pt}
      /\ page' = [p \in Pages |-> IF p < Len(a \o t) THEN NONE ELSE m[p]]
      /\ loaded_modules' = [loaded_modules EXCEPT ![c] = Unused] /\ call' = NoCall
      /\ total_frames' = total_frames /\ info' = info /\ loaded_module_count' = c
      /\ others' = others /\ halted' = halted /\ newest' = newest /\ content' = content
  <2> HIDE DEF m, first, a, n
  <2> QED BY DEF Cut, slot, m, first, a, n
<1>3. Unused \in Entry /\ NoCall \in Call /\ NONE \in Frames
  BY PmmConstants DEF Unused, Entry, NoCall, Call, NO
<1>4. t \in Seq(Frames) /\ Len(t) = n /\ Len(a \o t) = Len(a) + n
  <2>1. t \in Seq(Frames) /\ Len(t) = n
    BY DEF Obtained
  <2> HIDE DEF a, n
  <2> QED BY <1>1, <2>1
<1> HIDE DEF Unused, Entry, NoCall, Call, NONE, NO, Frames, Pages, FreedAtBoot, NOIMAGE, SectionPage
<1>5. Maps(m, page, first, n, t)
  <2>1. page \in [Pages -> Frames] /\ first + n <= REGION
    BY <1>1 DEF TypeOK
  <2> HIDE DEF first, n, Maps
  <2> QED BY <1>1, <1>4, <2>1, WithPagesIs
<1> HIDE DEF c, a, n, first, m
<1>6. m \in [Pages -> Frames]
  BY <1>5 DEF Maps
<1>7. page' \in [Pages -> Frames]
  BY <1>2, <1>3, <1>6
<1>8. loaded_modules' \in [Slots -> Entry] /\ \A s \in Slots \ {c} : loaded_modules'[s] = loaded_modules[s]
  BY <1>1, <1>2, <1>3 DEF TypeOK
<1>9. free' \subseteq Frames
  <2>1. Range(a) \subseteq Frames
    BY <1>1 DEF Range
  <2> HIDE DEF Range
  <2> QED BY <1>1, <1>2, <2>1 DEF TypeOK
<1>10. gapped' \in BOOLEAN
  BY <1>2, Zenon
<1>11. TypeOK'
  <2>1. pt \in Frames
    BY DEF Obtained
  <2> QED BY <1>1, <1>2, <1>3, <1>7, <1>8, <1>9, <1>10, <2>1 DEF TypeOK, c
<1>12. Lists'[c] = << >> /\ \A s \in Slots \ {c} : Lists'[s] = Lists[s]
  <2>1. Lists'[c] = << >>
    BY <1>1, <1>2, <1>11, ListsAreNext
  <2>2. \A s \in Slots \ {c} : Lists'[s] = Lists[s]
    BY <1>1, <1>2, <1>8, <1>11, OtherLists DEF c
  <2> QED BY <2>1, <2>2
<1>13. Divided(free', others', table', Lists', FreedAtBoot(info'))
  <2> DEFINE L == Lists
             M == Lists'
  <2>1. /\ Divided(free, others, table, L, FreedAtBoot(info)) /\ L[c] = a
        /\ M[c] = << >> /\ \A s \in Slots \ {c} : M[s] = L[s]
    BY <1>1, <1>12
  <2>2. pt # NONE /\ ((table # NONE /\ pt = table) \/ (table = NONE /\ pt \in free))
    BY DEF Obtained
  <2> HIDE DEF L, M, Divided
  <2>3. Divided(free \ {pt}, others, pt, L, FreedAtBoot(info))
    BY <2>1, <2>2, DividedPageTable
  <2> DEFINE F == free \ {pt}
  <2>4. Divided(F \cup Range(L[c]), others, pt, M, FreedAtBoot(info))
    <3> HIDE DEF F
    <3>1. Divided(F, others, pt, L, FreedAtBoot(info))
      BY <2>3 DEF F
    <3> QED BY <1>1, <2>1, <3>1, DividedFreed
  <2>5. pt \notin Range(L[c])
    BY <1>1, <2>2, <2>3, DividedMeans
  <2>6. free' = F \cup Range(L[c])
    BY <1>2, <2>1, <2>5
  <2> HIDE DEF F
  <2> QED BY <1>2, <2>4, <2>6 DEF M
<1>14. Mapped'
  <2> SUFFICES ASSUME ~gapped', NEW p \in Pages, page'[p] # NONE
               PROVE  \E s \in 0 .. c - 1 : page'[p] \in Range(Lists'[s])
    BY <1>2 DEF Mapped, c, NONE, NoCall
  <2>1. ~gapped /\ first = call.offset
    BY <1>2
  <2>2. page'[p] = m[p] /\ ~(p < Len(a) + n)
    BY <1>2, <1>4
  <2>3. first = Len(a)
    BY <1>1, <2>1 DEF Mapped, a
  <2>4. ~(p < Len(a)) /\ p \notin first .. first + n - 1
    BY <1>1, <2>2, <2>3 DEF Pages
  <2>5. page'[p] = page[p]
    <3>1. m[p] = page[p]
      BY <1>5, <2>4 DEF Maps
    <3> QED BY <2>2, <3>1
  <2>6. PICK s \in 0 .. c - 1 : page[p] \in Range(Lists[s])
    <3> HIDE DEF Lists
    <3> QED BY <1>1, <2>1, <2>4, <2>5 DEF Mapped, c, a
  <2>7. s \in Slots \ {c}
    BY <1>1, LoaderConstants DEF Slots
  <2> QED BY <1>12, <2>5, <2>6, <2>7
<1>15. Loading' /\ Newest'
  BY <1>1, <1>2 DEF Loading, Newest, NO, NoCall
<1> QED BY <1>1, <1>2, <1>11, <1>13, <1>14, <1>15 DEF Inv

(* The section is mapped and copied.                                       *)
LEMMA CopiedInv ==
  ASSUME Inv, InSection, SectionPage(call.image, call.k) + section.pages <= REGION,
         NEW t, NEW pt, Obtained(t, pt, section.pages),
         Copied(SectionPage(call.image, call.k), t, pt)
  PROVE  Inv'
<1> DEFINE c == loaded_module_count
           a == this.frames
           b == a \o t
           i == call.image
           k == call.k
           o == call.offset
           n == section.pages
           first == SectionPage(i, k)
           m == WithPages(page, first, n, t)
           C == WithData(content, first, n, m, i)
           e2 == [this EXCEPT !.frames = b]
           call2 == [call EXCEPT !.k = k + 1, !.offset = first + n]
           I == Images \cup {NOIMAGE}
<1>1. /\ ~halted /\ TypeOK /\ Mapped /\ Divided(free, others, table, Lists, FreedAtBoot(info))
      /\ call # NoCall /\ newest = NO /\ c \in Slots /\ this \in Entry /\ a \in Seq(Frames) /\ Lists[c] = a
      /\ n \in Nat \ {0} /\ first \in Nat /\ Len(a) \in Nat
      /\ i \in Images /\ k \in 1..Len(Desc[i].sections) /\ o \in Nat /\ o <= REGION /\ o <= first
  BY AtSection
<1>2. /\ n = Desc[i].sections[k].pages /\ SectionEnd(i)[k] = first + n /\ Len(a) = PagesUpTo(i)[k-1]
      /\ PagesUpTo(i)[k] = Len(a) + n /\ Laid(page, content, a, i, k - 1, o) /\ first + n <= REGION
  <2> HIDE DEF SectionEnd, PagesUpTo, SectionPage, Laid, section, this
  <2> QED BY AtSection
<1>3. /\ table' = pt /\ gapped' = (gapped \/ first # o)
      /\ free' = free \ (Range(t) \cup {pt}) /\ page' = m /\ content' = C
      /\ loaded_modules' = [loaded_modules EXCEPT ![c] = e2] /\ call' = call2
      /\ total_frames' = total_frames /\ info' = info /\ loaded_module_count' = c
      /\ others' = others /\ halted' = halted /\ newest' = newest
  <2>1. /\ table' = pt /\ gapped' = (gapped \/ first # o)
        /\ free' = free \ (Range(t) \cup {pt}) /\ page' = m /\ content' = C
        /\ total_frames' = total_frames /\ info' = info /\ loaded_module_count' = c
        /\ others' = others /\ halted' = halted /\ newest' = newest
    <3> HIDE DEF WithPages, WithData, SectionPage, section, this
    <3> QED BY DEF Copied
  <2>2. call' = call2
    <3> HIDE DEF SectionPage, section
    <3> QED BY DEF Copied
  <2>3. loaded_modules' = [loaded_modules EXCEPT ![c].frames = b]
    BY DEF Copied, slot
  <2>4. loaded_modules' = [loaded_modules EXCEPT ![c] = e2]
    <3> HIDE DEF b
    <3> QED BY <1>1, <2>3 DEF this, slot, TypeOK
  <2> QED BY <2>1, <2>2, <2>4
<1>4. /\ t \in Seq(Frames) /\ Len(t) = n /\ Range(t) \subseteq free /\ pt \in Frames
      /\ Distinct(t) /\ pt # NONE /\ pt \notin Range(t)
      /\ (table # NONE /\ pt = table) \/ (table = NONE /\ pt \in free)
  <2> HIDE DEF n, NONE, Frames
  <2> QED BY DEF Obtained, n
<1>5. /\ b \in Seq(Frames) /\ Len(b) = Len(a) + n
      /\ \A x \in 1..Len(a) : b[x] = a[x]
      /\ \A x \in 1..n : b[Len(a) + x] = t[x]
  <2> HIDE DEF a, n, Frames
  <2>1. a \in Seq(Frames) /\ t \in Seq(Frames) /\ Len(t) = n /\ n \in Nat
    BY <1>1, <1>4
  <2>2. b \in Seq(Frames) /\ Len(b) = Len(a) + n /\ \A x \in 1..Len(a) : b[x] = a[x]
    BY <2>1
  <2>3. ASSUME NEW x \in 1..n PROVE b[Len(a) + x] = t[x]
    BY <2>1
  <2> QED BY <2>2, <2>3
<1>6. e2 \in Entry /\ e2.frames = b /\ e2.image = this.image
  <2> HIDE DEF b, a, this, NO, Pages, Frames, NOIMAGE
  <2> QED BY <1>1, <1>5 DEF Entry
<1>7. /\ call2 \in Call /\ call2 # NoCall /\ call2.at = "sections" /\ call2.image = i
      /\ call2.k = k + 1 /\ call2.offset = first + n
  <2>1. call \in Call /\ call.at = "sections"
    BY <1>1 DEF TypeOK, InSection
  <2>2. first + n \in Nat /\ k + 1 \in Nat
    BY <1>1, LoaderConstants
  <2> HIDE DEF first, n, NOIMAGE
  <2> QED BY <2>1, <2>2 DEF Call, NoCall
<1> HIDE DEF Entry, NoCall, Call, NONE, NO, Frames, Pages, FreedAtBoot, NOIMAGE, SectionPage, SectionEnd, PagesUpTo, Laid, section, this
<1>8. Maps(m, page, first, n, t)
  <2>1. page \in [Pages -> Frames]
    BY <1>1 DEF TypeOK
  <2> HIDE DEF first, n, Maps
  <2> QED BY <1>1, <1>2, <1>4, <2>1, WithPagesIs
<1> HIDE DEF c, a, b, i, k, o, n, first, m, e2, call2
<1>9. /\ C \in [Frames -> I \X Pages]
      /\ \A f \in Frames : f \notin Range(t) => C[f] = content[f]
      /\ \A j \in 0 .. n - 1 : C[t[j + 1]] = <<i, first + j>>
  <2>1. page \in [Pages -> Frames] /\ content \in [Frames -> I \X Pages] /\ i \in I
    BY <1>1 DEF TypeOK
  <2>2. Holds(C, content, first, n, t, i, I)
    <3> HIDE DEF I, Maps, WithData, Holds, Distinct
    <3> QED BY <1>1, <1>2, <1>4, <1>8, <2>1, WithDataIs
  <2> HIDE DEF C
  <2> QED BY <2>2 DEF Holds
<1> HIDE DEF C
<1>10. m \in [Pages -> Frames]
  BY <1>8 DEF Maps
<1>11. /\ loaded_modules' \in [Slots -> Entry] /\ loaded_modules'[c] = e2
       /\ \A s \in Slots \ {c} : loaded_modules'[s] = loaded_modules[s]
  BY <1>1, <1>3, <1>6 DEF TypeOK
<1>12. this'.frames = b
  BY <1>3, <1>6, <1>11 DEF this, slot
<1>13. gapped' \in BOOLEAN
  BY <1>3, Zenon
<1>14. TypeOK'
  BY <1>1, <1>3, <1>4, <1>7, <1>9, <1>10, <1>11, <1>13 DEF TypeOK, c
<1>15. Lists'[c] = b /\ \A s \in Slots \ {c} : Lists'[s] = Lists[s]
  <2>1. Lists'[c] = b
    BY <1>1, <1>3, <1>6, <1>7, <1>11, <1>14, ListsAreNext
  <2>2. \A s \in Slots \ {c} : Lists'[s] = Lists[s]
    BY <1>1, <1>3, <1>11, <1>14, OtherLists DEF c
  <2> QED BY <2>1, <2>2
<1>16. Range(a) \cap free = {}
  <2> DEFINE L == Lists
  <2>1. Divided(free, others, table, L, FreedAtBoot(info)) /\ L[c] = a
    BY <1>1
  <2> HIDE DEF L, Divided
  <2> QED BY <1>1, <2>1, DividedMeans
<1>17. Divided(free', others', table', Lists', FreedAtBoot(info'))
  <2> DEFINE L == Lists
             M == Lists'
  <2>1. /\ Divided(free, others, table, L, FreedAtBoot(info)) /\ L[c] = a
        /\ M[c] = L[c] \o t /\ \A s \in Slots \ {c} : M[s] = L[s]
    BY <1>1, <1>15 DEF b
  <2> HIDE DEF L, M, Divided
  <2>2. Divided(free \ {pt}, others, pt, L, FreedAtBoot(info))
    BY <1>4, <2>1, DividedPageTable
  <2> DEFINE F == free \ {pt}
  <2>3. Range(t) \subseteq F
    BY <1>4
  <2>4. Divided(F \ Range(t), others, pt, M, FreedAtBoot(info))
    <3> HIDE DEF F
    <3>1. Divided(F, others, pt, L, FreedAtBoot(info))
      BY <2>2 DEF F
    <3> QED BY <1>1, <1>4, <2>1, <2>3, <3>1, DividedAppend
  <2>5. free' = F \ Range(t)
    BY <1>3
  <2> HIDE DEF F
  <2> QED BY <1>3, <2>4, <2>5 DEF M
<1>18. Laid(m, C, b, i, k - 1, first + n)
  <2>1. k - 1 \in 0..Len(Desc[i].sections) /\ first + n \in Nat /\ o <= first + n /\ Len(a) <= Len(b)
    BY <1>1, <1>5, LoaderConstants
  <2>2. \A p \in 0 .. o - 1 : m[p] = page[p]
    <3> SUFFICES ASSUME NEW p \in 0 .. o - 1 PROVE m[p] = page[p]
      OBVIOUS
    <3>1. p \in Pages /\ p \notin first .. first + n - 1
      BY <1>1, LoaderConstants DEF Pages
    <3> QED BY <1>8, <3>1 DEF Maps
  <2>3. \A x \in 1..Len(a) : C[a[x]] = content[a[x]]
    <3> SUFFICES ASSUME NEW x \in 1..Len(a) PROVE C[a[x]] = content[a[x]]
      OBVIOUS
    <3>1. a[x] \in Frames /\ a[x] \in Range(a)
      BY <1>1 DEF Range
    <3>2. a[x] \notin Range(t)
      BY <1>4, <1>16, <3>1
    <3> QED BY <1>9, <3>1, <3>2
  <2> DEFINE u == first + n
             q == k - 1
  <2>4. Laid(page, content, a, i, q, o) /\ q \in 0..Len(Desc[i].sections) /\ u \in Nat /\ o <= u
    BY <1>2, <2>1
  <2> HIDE DEF u, q
  <2>5. Laid(m, C, b, i, q, u)
    BY <1>1, <1>5, <2>1, <2>2, <2>3, <2>4, LaidStays
  <2> QED BY <2>5 DEF u, q
<1>19. Laid(m, C, b, i, k, first + n)
  <2>1. ASSUME NEW j \in 0 .. Desc[i].sections[k].pages - 1
        PROVE  LET p == SectionPage(i, k) + j
               IN  m[p] = b[PagesUpTo(i)[k - 1] + j + 1] /\ C[m[p]] = <<i, p>>
    <3>1. j \in 0 .. n - 1 /\ j + 1 \in 1..n /\ PagesUpTo(i)[k - 1] + j + 1 = Len(a) + (j + 1)
      <4>1. j \in 0 .. n - 1 /\ PagesUpTo(i)[k - 1] = Len(a)
        BY <1>2
      <4> QED BY <1>1, <4>1
    <3>2. m[first + j] = t[j + 1]
      BY <1>8, <3>1 DEF Maps
    <3>3. b[Len(a) + (j + 1)] = t[j + 1]
      BY <1>5, <3>1
    <3>4. C[t[j + 1]] = <<i, first + j>>
      BY <1>9, <3>1
    <3> QED BY <3>1, <3>2, <3>3, <3>4 DEF first
  <2>2. PagesUpTo(i)[k] <= Len(b)
    <3>1. PagesUpTo(i)[k] = Len(b) /\ Len(b) \in Nat
      BY <1>1, <1>2, <1>5
    <3> QED BY <3>1
  <2>3. Laid(m, C, b, i, k - 1, SectionEnd(i)[k])
    BY <1>2, <1>18
  <2>4. Laid(m, C, b, i, k, SectionEnd(i)[k])
    BY <1>1, <1>5, <2>1, <2>2, <2>3, LaidNext
  <2> QED BY <1>2, <2>4
<1>20. Loading'
  <2>1. call'.at = "sections" /\ call'.image = i /\ call'.k = k + 1 /\ call'.offset = first + n
    BY <1>3, <1>7
  <2>2. loaded_module_count' = c /\ newest' = NO
    BY <1>1, <1>3
  <2>3. (k + 1) - 1 = k /\ k + 1 \in 1 .. Len(Desc[i].sections) + 1
    BY <1>1, LoaderConstants
  <2>4. call'.k \in 1 .. Len(desc'.sections) + 1
    BY <2>1, <2>3 DEF desc
  <2>5. call'.offset = SectionEnd(call'.image)[call'.k - 1] /\ call'.offset <= REGION
    BY <1>2, <2>1, <2>3
  <2>6. Len(this'.frames) = PagesUpTo(call'.image)[call'.k - 1]
    <3>1. Len(b) = PagesUpTo(i)[k]
      BY <1>2, <1>5
    <3> QED BY <1>12, <2>1, <2>3, <3>1
  <2>7. Laid(page', content', this'.frames, call'.image, call'.k - 1, call'.offset)
    BY <1>3, <1>12, <1>19, <2>1, <2>3
  <2>8. call'.at # "idle" /\ call'.at # "register" /\ call'.image \in Images /\ loaded_module_count' \in Slots
    BY <1>1, <2>1, <2>2
  <2> QED BY <2>2, <2>4, <2>5, <2>6, <2>7, <2>8 DEF Loading
<1>21. Newest'
  BY <1>1, <1>3 DEF Newest, NO
<1>22. Mapped'
  <2> SUFFICES ASSUME ~gapped'
               PROVE  /\ first + n = Len(b)
                      /\ \A p \in Pages : m[p] # NONE =>
                           \/ \E s \in 0 .. c - 1 : m[p] \in Range(Lists'[s])
                           \/ p < Len(b) /\ m[p] = b[p + 1]
    <3>1. call'.offset = first + n /\ call' # NoCall
      BY <1>3, <1>7
    <3> QED BY <1>3, <1>12, <3>1 DEF Mapped, NONE, NoCall
  <2>1. ~gapped /\ first = o
    BY <1>3
  <2>2. first = Len(a)
    BY <1>1, <2>1 DEF Mapped, a, o
  <2>3. first + n = Len(b)
    BY <1>5, <2>2
  <2>4. ASSUME NEW p \in Pages, m[p] # NONE
        PROVE  \/ \E s \in 0 .. c - 1 : m[p] \in Range(Lists'[s])
               \/ p < Len(b) /\ m[p] = b[p + 1]
    <3>1. CASE p \in first .. first + n - 1
      <4>1. p - first + 1 \in 1..n /\ m[p] = t[p - first + 1]
        BY <1>8, <3>1 DEF Maps
      <4>2. Len(a) + (p - first + 1) = p + 1 /\ p < Len(b)
        BY <1>1, <1>5, <2>2, <3>1
      <4> DEFINE x == p - first + 1
      <4>3. x \in 1..n /\ m[p] = t[x] /\ Len(a) + x = p + 1
        BY <4>1, <4>2
      <4> HIDE DEF x
      <4>4. b[p + 1] = t[x]
        BY <1>5, <4>3
      <4> QED BY <4>2, <4>3, <4>4
    <3>2. CASE p \notin first .. first + n - 1
      <4>1. m[p] = page[p]
        BY <1>8, <3>2 DEF Maps
      <4>2. \/ \E s \in 0 .. c - 1 : page[p] \in Range(Lists[s])
            \/ p < Len(a) /\ page[p] = a[p + 1]
        <5> HIDE DEF Lists
        <5> QED BY <1>1, <2>1, <2>4, <4>1 DEF Mapped, c, a
      <4>3. CASE \E s \in 0 .. c - 1 : page[p] \in Range(Lists[s])
        <5>1. PICK s \in 0 .. c - 1 : page[p] \in Range(Lists[s])
          BY <4>3
        <5>2. s \in Slots \ {c}
          BY <1>1, LoaderConstants DEF Slots
        <5> QED BY <1>15, <4>1, <5>1, <5>2
      <4>4. CASE p < Len(a) /\ page[p] = a[p + 1]
        <5>1. p + 1 \in 1..Len(a) /\ p < Len(b)
          BY <1>1, <1>5, <4>4 DEF Pages
        <5>2. b[p + 1] = a[p + 1]
          BY <1>5, <5>1
        <5> QED BY <4>1, <4>4, <5>1, <5>2
      <4> QED BY <4>2, <4>3, <4>4
    <3> QED BY <3>1, <3>2
  <2> QED BY <2>3, <2>4
<1> QED BY <1>1, <1>3, <1>14, <1>17, <1>20, <1>21, <1>22 DEF Inv

-----------------------------------------------------------------------------
(* Every step keeps the invariant.                                         *)
LEMMA NextInv == Inv /\ [Next]_vars => Inv'
<1> SUFFICES ASSUME Inv, [Next]_vars PROVE Inv'
  OBVIOUS
<1> HIDE DEF Inv
<1>1. ASSUME NEW i \in Images, LoadBegin(i) PROVE Inv'
  BY <1>1, LoadBeginInv
<1>2. CASE SectionTooLarge
  <2>1. ~halted /\ call # NoCall
    BY <1>2, AtSection DEF SectionTooLarge
  <2>2. GiveUp(0, page, "UNUSED") /\ 0 \in Nat
    BY <1>2 DEF SectionTooLarge
  <2> HIDE DEF GiveUp
  <2> QED BY <2>1, <2>2, GiveUpInv
<1>3. CASE SectionNoFrames
  <2>1. ~halted /\ call # NoCall /\ TypeOK
    BY <1>3, AtSection DEF SectionNoFrames
  <2> DEFINE got == Cardinality(Available)
  <2>2. got \in Nat
    BY <2>1, AvailableFinite DEF TypeOK
  <2>3. Halt \/ GiveUp(got, page, "UNUSED")
    <3> HIDE DEF GiveUp, Halt
    <3> QED BY <1>3 DEF SectionNoFrames
  <2> HIDE DEF got, Halt, GiveUp
  <2> QED BY <2>1, <2>2, <2>3, HaltInv, GiveUpInv
<1>4. CASE LoadSection
  <2> HIDE DEF Halt, InSection, Obtained, Copied, Cut, SectionPage, LoadSection
  <2>1. CASE Halt
    BY <2>1, HaltInv
  <2>2. CASE ~Halt
    <3>1. /\ InSection /\ SectionPage(call.image, call.k) + section.pages <= REGION
          /\ \E t, pt : /\ Obtained(t, pt, section.pages)
                        /\ \/ Copied(SectionPage(call.image, call.k), t, pt)
                           \/ Cut(SectionPage(call.image, call.k), t, pt)
      BY <1>4, <2>2, SectionSteps
    <3>2. PICK t, pt : /\ Obtained(t, pt, section.pages)
                       /\ \/ Copied(SectionPage(call.image, call.k), t, pt)
                          \/ Cut(SectionPage(call.image, call.k), t, pt)
      BY <3>1
    <3> QED BY <3>1, <3>2, CopiedInv, CutInv
  <2> QED BY <2>1, <2>2
<1>5. CASE RelocationFails
  <2>1. call # NoCall /\ GiveUp(0, page, "UNUSED") /\ 0 \in Nat
    BY <1>5 DEF RelocationFails, SectionsDone, NoCall
  <2>2. ~halted
    BY <2>1 DEF Inv
  <2> HIDE DEF GiveUp
  <2> QED BY <2>1, <2>2, GiveUpInv
<1>6. CASE EntryPoints
  BY <1>6, EntryPointsInv
<1>7. CASE Duplicate
  <2>1. call # NoCall
    BY <1>7 DEF Duplicate, Registering, NoCall
  <2>2. ~halted
    BY <2>1 DEF Inv
  <2>3. 0 \in Nat /\ (Halt \/ GiveUp(0, page, "UNUSED"))
    <3> HIDE DEF GiveUp, Halt
    <3> QED BY <1>7 DEF Duplicate
  <2> HIDE DEF GiveUp, Halt
  <2> QED BY <2>1, <2>2, <2>3, HaltInv, GiveUpInv
<1>8. CASE InitFails
  <2>1. call # NoCall /\ GiveUp(0, page, "FAILED") /\ 0 \in Nat
    BY <1>8 DEF InitFails, Registering, NoCall
  <2>2. ~halted
    BY <2>1 DEF Inv
  <2> HIDE DEF GiveUp
  <2> QED BY <2>1, <2>2, GiveUpInv
<1>9. CASE Register
  BY <1>9, RegisterInv
<1>10. ASSUME NEW n \in Names, Unload(n) PROVE Inv'
  BY <1>10, UnloadInv
<1>11. CASE FrameTaken
  BY <1>11, FrameTakenInv
<1>12. CASE FrameGiven
  BY <1>12, FrameGivenInv
<1>13. CASE UNCHANGED vars
  <2>1. /\ free' = free /\ total_frames' = total_frames /\ info' = info
        /\ loaded_modules' = loaded_modules /\ loaded_module_count' = loaded_module_count
        /\ page' = page /\ table' = table /\ content' = content /\ call' = call
        /\ others' = others /\ halted' = halted /\ newest' = newest /\ gapped' = gapped
    BY <1>13 DEF vars, pmm, registry
  <2>2. Lists' = Lists
    BY <2>1 DEF Lists, Counts
  <2>3. TypeOK' <=> TypeOK
    BY <2>1 DEF TypeOK
  <2>4. (Loading' <=> Loading) /\ (Newest' <=> Newest)
    BY <2>1 DEF Loading, Newest, desc, this, slot
  <2>5. Mapped' <=> Mapped
    BY <2>1, <2>2 DEF Mapped, this, slot
  <2> HIDE DEF Divided, Lists, TypeOK, Loading, Newest, Mapped
  <2> QED BY <2>1, <2>2, <2>3, <2>4, <2>5 DEF Inv
<1> HIDE DEF SectionTooLarge, SectionNoFrames, LoadSection, RelocationFails, EntryPoints,
             Duplicate, InitFails, Register, FrameTaken, FrameGiven, vars
<1> QED BY <1>1, <1>2, <1>3, <1>4, <1>5, <1>6, <1>7, <1>8, <1>9, <1>10, <1>11, <1>12, <1>13
        DEF Next, ModuleLoad

(* What the frames of an entry are: those of its list.                     *)
LEMMA HeldIs ==
  ASSUME TypeOK, NEW s \in Slots
  PROVE  Held(s) = Range(Lists[s]) /\ (Held(s) # {} => Lists[s] = loaded_modules[s].frames)
<1>1. Range(<< >>) = {}
  BY DEF Range
<1> HIDE DEF Range, NoCall, Slots
<1>2. Lists[s] = IF Counts(s) THEN loaded_modules[s].frames ELSE << >>
  BY DEF Lists
<1>3. Held(s) = IF Counts(s) THEN Range(loaded_modules[s].frames) ELSE {}
  BY DEF Held, Counts
<1> QED BY <1>1, <1>2, <1>3

(* The invariant implies the properties.                                   *)
LEMMA InvMeans ==
  Inv => TypeOK /\ FramesConserved /\ NoDanglingPage /\ NewestModuleIntact
<1> SUFFICES ASSUME Inv PROVE FramesConserved /\ NoDanglingPage /\ NewestModuleIntact
  BY DEF Inv
<1>1. TypeOK
  BY DEF Inv
<1>2. CASE halted
  BY <1>2 DEF FramesConserved, NoDanglingPage, NewestModuleIntact
<1>3. CASE ~halted
  <2>1. Divided(free, others, table, Lists, FreedAtBoot(info)) /\ Newest /\ Mapped /\ Loading
    BY <1>3 DEF Inv
  <2>2. \A s \in Slots : Held(s) = Range(Lists[s]) /\ (Held(s) # {} => Lists[s] = loaded_modules[s].frames)
    BY <1>1, HeldIs
  <2>3. FramesConserved
    <3> HIDE DEF Held, Range, IsInjective, Lists, Slots, NONE, FreedAtBoot
    <3>1. {Held(s) : s \in Slots} = {Range(Lists[s]) : s \in Slots}
      BY <2>2
    <3>2. \A s \in Slots : /\ Held(s) # {} => IsInjective(loaded_modules[s].frames)
                           /\ \A u \in Slots \ {s} : Held(s) \cap Held(u) = {}
      BY <2>1, <2>2 DEF Divided
    <3>3. NoEmptyRegion(info) => FreedAtBoot(info) = Usable(info)
      BY <1>1, InitFree DEF TypeOK
    <3> HIDE DEF NoEmptyRegion, FreedAtBoot, Usable
    <3> QED BY <2>1, <3>1, <3>2, <3>3 DEF Divided, FramesConserved
  <2>4. NoDanglingPage
    <3> SUFFICES ASSUME ~gapped, NEW p \in Pages, page[p] # NONE
                 PROVE  \E s \in Slots : page[p] \in Held(s)
      BY DEF NoDanglingPage
    <3>1. CASE \E s \in 0 .. loaded_module_count - 1 : page[p] \in Range(Lists[s])
      <4>1. PICK s \in 0 .. loaded_module_count - 1 : page[p] \in Range(Lists[s])
        BY <3>1
      <4>2. s \in Slots
        BY <1>1, LoaderConstants DEF TypeOK, Slots
      <4> QED BY <2>2, <4>1, <4>2
    <3>2. CASE call # NoCall /\ p < Len(this.frames) /\ page[p] = this.frames[p + 1]
      <4>1. loaded_module_count \in Slots
        BY <2>1, <3>2 DEF Loading
      <4>2. Lists[loaded_module_count] = this.frames /\ this.frames \in Seq(Frames)
        BY <1>1, <3>2, <4>1, ListsAre DEF this, slot
      <4> DEFINE a == this.frames
      <4> HIDE DEF a
      <4>3. a \in Seq(Frames) /\ p < Len(a) /\ page[p] = a[p + 1] /\ Lists[loaded_module_count] = a
        BY <3>2, <4>2 DEF a
      <4>4. p + 1 \in DOMAIN a
        BY <4>3 DEF Pages
      <4>5. page[p] \in Range(a)
        BY <4>3, <4>4 DEF Range
      <4> QED BY <2>2, <4>1, <4>3, <4>5
    <3> HIDE DEF Lists, NoCall, NONE
    <3> QED BY <2>1, <3>1, <3>2 DEF Mapped
  <2>5. NewestModuleIntact
    <3> HIDE DEF SectionPage, PagesUpTo, SectionEnd, NO
    <3> QED BY <2>1 DEF Newest, Laid, NewestModuleIntact
  <2> QED BY <2>3, <2>4, <2>5
<1> QED BY <1>2, <1>3

-----------------------------------------------------------------------------
(* The loader's memory stays sound, whatever objects are loaded, refused   *)
(* or unloaded, for every boot loader's information and every image.       *)
THEOREM LoaderStaysSound == Spec => []Inv
<1>1. Init => Inv
  BY InitInv
<1>2. Inv /\ [Next]_vars => Inv'
  BY NextInv
<1> QED BY <1>1, <1>2, PTL DEF Spec

(* The registry never overflows, every pointer into a module stays in the  *)
(* region, and pmm_alloc_frame never reads past the bitmap.                *)
THEOREM TypeCorrect == Spec => []TypeOK
<1>1. Inv => TypeOK
  BY InvMeans
<1> QED BY <1>1, LoaderStaysSound, PTL

(* Every usable frame is free or has exactly one owner, on every error     *)
(* path of module_load and for every memory map without empty regions.     *)
THEOREM FramesAreConserved == Spec => []FramesConserved
<1>1. Inv => FramesConserved
  BY InvMeans
<1> QED BY <1>1, LoaderStaysSound, PTL

(* Without gaps between sections no page maps a frame that was given back. *)
THEOREM NoPageDangles == Spec => []NoDanglingPage
<1>1. Inv => NoDanglingPage
  BY InvMeans
<1> QED BY <1>1, LoaderStaysSound, PTL

(* The module loaded last stays as its image says until the next load.     *)
THEOREM NewestStaysIntact == Spec => []NewestModuleIntact
<1>1. Inv => NewestModuleIntact
  BY InvMeans
<1> QED BY <1>1, LoaderStaysSound, PTL
=============================================================================
