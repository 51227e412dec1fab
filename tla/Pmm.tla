---------------------------------- MODULE Pmm ----------------------------------
(***************************************************************************)
(* kernel/pmm.c: the bitmap of physical frames, built by pmm_init from     *)
(* what the boot loader says of memory.  Addresses are bytes, frames are   *)
(* PAGE_SIZE bytes; the bitmap is the set `free` of frames whose bit is 0. *)
(* What others do with frames is in the modules that extend this one.      *)
(***************************************************************************)
EXTENDS Integers, Sequences, FiniteSets, FiniteSetsExt, SequencesExt

CONSTANTS
  PAGE_SIZE,
  BITMAP_BITS,      \* BITMAP_SIZE * 8
  MAX_PMM_REGIONS,
  BIOS_END,         \* BIOS_BOOT_RESERVED_END, the last byte
  KERNEL_START,     \* kernel_physical_start
  KERNEL_END,       \* kernel_physical_end, the first byte after the image
  VGA,              \* 0xB8000
  BootInfos         \* what the boot loader may report: see BootInfo

(* A region of the memory map; and the multiboot information: whether it   *)
(* has a map (flag 6), the map and the buffer it lies in, and otherwise    *)
(* the first byte above upper memory (mem_upper and 1 MiB).                *)
MapEntry == [addr: Nat, len: Nat, type: 1..5]
BootInfo == [mmap: BOOLEAN, map: Seq(MapEntry),
             mmap_addr: Nat, mmap_length: Nat \ {0}, top: Nat \ {0}]

(* What pmm_init reserves lies below the end of the bitmap.  For the       *)
(* memory map that is up to the boot loader: pmm_init does not check it,   *)
(* and with a map further up pmm_alloc_frame would read past the bitmap.   *)
ASSUME PmmAssumption ==
  /\ {PAGE_SIZE, BITMAP_BITS, MAX_PMM_REGIONS} \subseteq Nat \ {0}
  /\ {BIOS_END, KERNEL_START, KERNEL_END, VGA} \subseteq Nat
  /\ KERNEL_START < KERNEL_END
  /\ \A a \in {BIOS_END, KERNEL_END - 1, VGA} : a < BITMAP_BITS * PAGE_SIZE
  /\ \A i \in BootInfos :
       /\ i \in BootInfo /\ i.top >= PAGE_SIZE
       /\ i.mmap => i.mmap_addr + i.mmap_length <= BITMAP_BITS * PAGE_SIZE

VARIABLES
  free,           \* pmm_bitmap
  total_frames,
  info            \* history: what the boot loader reported

pmm == <<free, total_frames, info>>

Frames == 0 .. BITMAP_BITS - 1
NONE   == 0                        \* pmm_alloc_frame returned NULL

-----------------------------------------------------------------------------
Frame(a) == a \div PAGE_SIZE

(* A slip: the end of a region is rounded down as well as its start.       *)
EndFrameDown(r) ==
  LET last == Frame(r.addr + r.len) - 1
  IN  IF last \in Frames THEN last ELSE BITMAP_BITS - 1

(* A slip: the end of a region is not capped at the bitmap.                *)
EndFrameUncapped(r) == Frame(r.addr + r.len + PAGE_SIZE - 1) - 1

(* The last frame of a region: rounded up and capped at the bitmap, also   *)
(* when the subtraction wraps around (an empty region at address 0, which  *)
(* becomes the whole bitmap).                                              *)
EndFrame(r) ==
  LET last == Frame(r.addr + r.len + PAGE_SIZE - 1) - 1
  IN  IF last \in Frames THEN last ELSE BITMAP_BITS - 1

Region(first, last, type) == [first |-> first, last |-> last, type |-> type]

(* What the map says, in its order, or else all of memory up to its top.   *)
Reported(i) ==
  IF i.mmap
  THEN [k \in 1..Len(i.map) |->
          Region(Frame(i.map[k].addr), EndFrame(i.map[k]), i.map[k].type)]
  ELSE << Region(0, Min({Frame(i.top), BITMAP_BITS}) - 1, 1) >>

(* What pmm_init reserves after that: low memory, the kernel image, the    *)
(* text buffer and the memory map itself.                                  *)
Reserved(i) ==
  << Region(0, Frame(BIOS_END), 0),
     Region(Frame(KERNEL_START), Frame(KERNEL_END - 1), 0),
     Region(Frame(VGA), Frame(VGA), 0) >>
  \o IF i.mmap
     THEN << Region(Frame(i.mmap_addr), Frame(i.mmap_addr + i.mmap_length - 1), 0) >>
     ELSE << >>

(* The frames of the regions of one type.                                  *)
Marked(regions, type) ==
  UNION { r.first .. r.last : r \in {q \in Range(regions) : q.type = type} }

(* What is free once pmm_init is done.                                     *)
FreedAtBoot(i) == (Marked(Reported(i), 1) \ Marked(Reserved(i), 0)) \cap Frames

(* pmm_init.  total_frames reaches to the end of the highest region that   *)
(* is reported, recorded (up to MAX_PMM_REGIONS) or the map's own.         *)
PmmInit ==
  /\ info \in BootInfos
  /\ free = FreedAtBoot(info)
  /\ LET all      == Reported(info) \o Reserved(info)
         recorded == { all[k] : k \in 1 .. Min({Len(all), MAX_PMM_REGIONS}) }
         seen     == recorded \cup Range(Reported(info))
                       \cup IF info.mmap THEN {Last(Reserved(info))} ELSE {}
     IN  total_frames = Max({ r.last + 1 : r \in seen })

(* The frames pmm_alloc_frame can find, and the n it takes in n calls: the *)
(* lowest, in order.                                                       *)
Available == { f \in free : f < total_frames }

LowestFrames(n) ==
  LET left[i \in 0..n] == IF i = 0 THEN Available ELSE left[i - 1] \ {Min(left[i - 1])}
  IN  [i \in 1..n |-> Min(left[i - 1])]

-----------------------------------------------------------------------------
(* The bytes of a frame, those that are memory, and those of the BIOS, the *)
(* kernel image, the text buffer and the memory map.                       *)
BytesOf(f) == f * PAGE_SIZE .. f * PAGE_SIZE + PAGE_SIZE - 1

Memory(i) ==
  IF i.mmap
  THEN UNION { i.map[k].addr .. i.map[k].addr + i.map[k].len - 1 :
                 k \in {j \in 1..Len(i.map) : i.map[j].type = 1} }
  ELSE 0 .. Frame(i.top) * PAGE_SIZE - 1

Taken(i) ==
  0 .. BIOS_END \cup KERNEL_START .. KERNEL_END - 1 \cup {VGA}
  \cup IF i.mmap THEN i.mmap_addr .. i.mmap_addr + i.mmap_length - 1 ELSE {}

(* What pmm_init means to free, byte by byte: the frames of which some     *)
(* bytes are memory and none is taken.  Regions are rounded outwards, and  *)
(* this adopts it: such a frame need not be memory throughout.             *)
Usable(i) ==
  { f \in Frames : /\ BytesOf(f) \cap Memory(i) # {}
                   /\ BytesOf(f) \cap Taken(i) = {} }

(* pmm_init does not look for regions without bytes.  For one of type 1 it *)
(* frees the frame it begins inside of, and at address 0 every frame.      *)
NoEmptyRegion(i) == i.mmap => \A k \in 1..Len(i.map) : i.map[k].len > 0
=============================================================================
