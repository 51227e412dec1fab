---------------------------- MODULE ModuleLoader ----------------------------
(***************************************************************************)
(* kernel/module.c and kernel/module_loader.c: the registry of modules,    *)
(* loading an ELF object at MODULE_LOAD_BASE, and unloading.  module_load  *)
(* is divided at its loop over sections and at its phases; nothing else    *)
(* comes between, since it runs at boot and in system calls, with          *)
(* interrupts off.  Between calls the rest of the kernel takes and returns *)
(* frames.                                                                 *)
(*                                                                         *)
(* Pages are numbered from MODULE_LOAD_BASE, the same for every module.    *)
(* A pointer into a module is the page it points to.  Of the contents of   *)
(* memory only this is kept: which page of which image was copied there.   *)
(* The page table of the region is that of the loaded directory, shared by *)
(* all (kernel_main loads the first module before there are tasks).        *)
(***************************************************************************)
EXTENDS Pmm

CONSTANTS
  MAX_LOADED_MODULES, MAX_MODULE_PAGES,
  REGION,       \* bound on the pages after MODULE_LOAD_BASE
  MAX_OTHERS,   \* bound on the frames held by the rest of the kernel
  Exports,      \* the symbols kernel_main exports
  Images,       \* the ELF objects
  Desc,         \* what each is like: see Description
  Names         \* names given to module_unload

NOIMAGE == "none"     \* no image, and any text that is not a name

(* An object: is its header accepted; its sections with SHF_ALLOC (size    *)
(* and alignment in pages, and whether its data lies in the file); the     *)
(* symbols it leaves undefined; the sections that hold the text of its     *)
(* name and its exit function (0: none); and what its init function does.  *)
(* In an ELF object alignments are powers of two: module_loader_load masks *)
(* instead of dividing, and does not check it.                             *)
Section     == [pages: Nat \ {0}, align: Nat \ {0}, inFile: BOOLEAN]
Description == [header: BOOLEAN, sections: Seq(Section), undefined: SUBSET STRING,
                name: STRING, nameSec: Nat, exitSec: Nat,
                init: {"none", "ok", "fails"}]

ASSUME ModuleAssumption ==
  /\ {MAX_LOADED_MODULES, MAX_MODULE_PAGES, REGION, MAX_OTHERS} \subseteq Nat \ {0}
  /\ \A i \in Images : /\ Desc[i] \in Description
                       /\ Desc[i].name # NOIMAGE
                       /\ {Desc[i].nameSec, Desc[i].exitSec} \subseteq 0..Len(Desc[i].sections)

VARIABLES
  loaded_modules, loaded_module_count,
  page,       \* the frames the pages of the region map to
  table,      \* the frame of the page table of the region
  content,    \* what the loader copied into each frame
  call,       \* the module_load in progress
  others,     \* frames held by the rest of the kernel
  halted,     \* the kernel took a page fault and stopped
  newest,     \* history: the entry loaded last, until the next attempt
  gapped      \* history: a module with gaps between its pages was mapped

registry == <<loaded_modules, loaded_module_count>>
memory   == <<free, page, table, content>>
vars     == <<pmm, registry, page, table, content, call, others, halted, newest, gapped>>

Slots == 0 .. MAX_LOADED_MODULES - 1
Pages == 0 .. REGION - 1
NO    == -1                           \* a null pointer into a module; no entry

Call   == [at: {"idle", "sections", "register"}, image: Images \cup {NOIMAGE},
           k: Nat, offset: Nat]
Entry  == [state: {"UNUSED", "LOADED", "UNLOADED", "FAILED"},
           name: Pages \cup {NO}, exit: Pages \cup {NO}, frames: Seq(Frames),
           image: Images \cup {NOIMAGE}]       \* image: history
Unused == [state |-> "UNUSED", name |-> NO, exit |-> NO, frames |-> << >>,
           image |-> NOIMAGE]
NoCall == [at |-> "idle", image |-> NOIMAGE, k |-> 0, offset |-> 0]

Init ==
  /\ PmmInit
  /\ loaded_modules = [s \in Slots |-> Unused]
  /\ loaded_module_count = 0
  /\ page = [p \in Pages |-> NONE]
  /\ table = NONE
  /\ content = [f \in Frames |-> <<NOIMAGE, 0>>]
  /\ call = NoCall
  /\ others = {}
  /\ halted = FALSE
  /\ newest = NO
  /\ gapped = FALSE

-----------------------------------------------------------------------------
(* The slot module_load fills, and the image it is filled from.            *)
slot == loaded_module_count
this == loaded_modules[slot]
desc == Desc[call.image]

(* The offset of a section: rounded up to its alignment.                   *)
Align(offset, a) == ((offset + a - 1) \div a) * a

(* Where the sections of an image end, in pages from the base; the first   *)
(* page of section k, NO for section 0; and how many pages the sections    *)
(* have up to each.                                                        *)
SectionEnd(i) ==
  LET end[j \in 0..Len(Desc[i].sections)] ==
        IF j = 0 THEN 0
        ELSE Align(end[j - 1], Desc[i].sections[j].align) + Desc[i].sections[j].pages
  IN  end

SectionPage(i, k) == IF k = 0 THEN NO ELSE SectionEnd(i)[k] - Desc[i].sections[k].pages

PagesUpTo(i) ==
  LET sum[j \in 0..Len(Desc[i].sections)] ==
        IF j = 0 THEN 0 ELSE sum[j - 1] + Desc[i].sections[j].pages
  IN  sum

(* What is read through a pointer to the text of a name.                   *)
TextAt(p) ==
  LET c == content[page[p]]
  IN  IF c[1] # NOIMAGE /\ c[2] = SectionPage(c[1], Desc[c[1]].nameSec)
      THEN Desc[c[1]].name ELSE NOIMAGE

(* The entries, in the order of the loop, at which a search of the         *)
(* registry for a name ends: a page that is not mapped (the kernel faults) *)
(* or the name itself.                                                     *)
Stops(name) ==
  { i \in 0 .. loaded_module_count - 1 :
      /\ loaded_modules[i].name # NO
      /\ page[loaded_modules[i].name] = NONE \/ TextAt(loaded_modules[i].name) = name }
FaultsAt(i) == page[loaded_modules[i].name] = NONE

Halt == /\ halted' = TRUE
        /\ call' = NoCall
        /\ UNCHANGED <<pmm, registry, page, table, content, others, newest, gapped>>

(* A slip: the frames are freed and their pages stay mapped.               *)
GiveUpMapped(n, mapped, state) ==
  /\ free' = free \cup Range(this.frames)
  /\ page' = mapped
  /\ loaded_modules' = [loaded_modules EXCEPT ![slot].frames = << >>, ![slot].state = state]
  /\ call' = NoCall
  /\ UNCHANGED <<total_frames, info, loaded_module_count, table, content,
                 others, halted, newest, gapped>>

(* cleanup_module_frames, and the same loops in module_load: the frames go *)
(* back, and as many pages from the base are unmapped as there are frames, *)
(* the n in excess of those in the entry included.  (Without a page table  *)
(* unmapping faults.)                                                      *)
GiveUp(n, mapped, state) ==
  LET count == Len(this.frames) + n
  IN  /\ free' = free \cup Range(this.frames)
      /\ page' = [p \in Pages |-> IF p < count THEN NONE ELSE mapped[p]]
      /\ loaded_modules' = [loaded_modules EXCEPT ![slot].frames = << >>,
                                                  ![slot].state = state]
      /\ call' = NoCall
      /\ UNCHANGED <<total_frames, info, loaded_module_count, table, content,
                     others, halted, newest, gapped>>

-----------------------------------------------------------------------------
(* module_load, refused without effect when no slot is left: the slot is   *)
(* cleared, and module_loader_load refuses the header or turns to the      *)
(* sections.                                                               *)
LoadBegin(i) ==
  /\ ~halted /\ call = NoCall
  /\ loaded_module_count < MAX_LOADED_MODULES
  /\ loaded_modules' = [loaded_modules EXCEPT ![slot] = Unused]
  /\ IF Desc[i].header
     THEN /\ call' = [at |-> "sections", image |-> i, k |-> 1, offset |-> 0]
          /\ newest' = NO
     ELSE UNCHANGED <<call, newest>>
  /\ UNCHANGED <<pmm, loaded_module_count, page, table, content, others, halted, gapped>>

InSection == call.at = "sections" /\ call.k <= Len(desc.sections)
section   == desc.sections[call.k]

(* The section would exceed MAX_MODULE_PAGES.                              *)
SectionTooLarge ==
  /\ InSection
  /\ Len(this.frames) + section.pages > MAX_MODULE_PAGES
  /\ GiveUp(0, page, "UNUSED")

(* allocate_module_frames finds too few frames: those it got are added to  *)
(* the entry, and all are given back.                                      *)
SectionNoFrames ==
  /\ InSection
  /\ Len(this.frames) + section.pages <= MAX_MODULE_PAGES
  /\ LET got == Cardinality(Available)
     IN  /\ got < section.pages
         /\ IF table = NONE /\ got > 0 THEN Halt ELSE GiveUp(got, page, "UNUSED")

(* The section is mapped, copied or zeroed; or its data is not in the file *)
(* and everything is given back.  The first page ever mapped needs a page  *)
(* table; if there is no frame for it, the copy faults.                    *)
SectionAt(first) ==
  /\ InSection
  /\ Len(this.frames) + section.pages <= MAX_MODULE_PAGES
  /\ Cardinality(Available) >= section.pages
  /\ first + section.pages <= REGION
  /\ LET taken  == LowestFrames(section.pages)
         rest   == Available \ Range(taken)
         pt     == IF table # NONE THEN table
                   ELSE IF rest = {} THEN NONE ELSE Min(rest)
         frames == this.frames \o taken
         Covers(p) == p \in first .. first + section.pages - 1
         mapped == [p \in Pages |-> IF Covers(p) THEN taken[p - first + 1] ELSE page[p]]
     IN  IF pt = NONE THEN Halt
         ELSE /\ table' = pt
              /\ gapped' = (gapped \/ first # call.offset)
              /\ IF section.inFile
                 THEN /\ free' = free \ (Range(taken) \cup {pt})
                      /\ page' = mapped
                      /\ content' = [f \in Frames |->
                           IF \E p \in Pages : Covers(p) /\ mapped[p] = f
                           THEN <<call.image, CHOOSE p \in Pages : Covers(p) /\ mapped[p] = f>>
                           ELSE content[f]]
                      /\ loaded_modules' = [loaded_modules EXCEPT ![slot].frames = frames]
                      /\ call' = [call EXCEPT !.k = @ + 1, !.offset = first + section.pages]
                 ELSE /\ free' = (free \cup Range(this.frames)) \ {pt}
                      /\ page' = [p \in Pages |-> IF p < Len(frames) THEN NONE ELSE mapped[p]]
                      /\ loaded_modules' = [loaded_modules EXCEPT ![slot] = Unused]
                      /\ call' = NoCall
                      /\ UNCHANGED content
              /\ UNCHANGED <<total_frames, info, loaded_module_count, others, halted, newest>>

(* A slip: a section begins where the one before ends, whatever its        *)
(* alignment.                                                              *)
LoadSectionUnaligned == SectionAt(call.offset)

LoadSection == SectionAt(Align(call.offset, section.align))

SectionsDone == call.at = "sections" /\ call.k > Len(desc.sections)

(* The symbols resolve_symbol_value fails to find: undefined in the object *)
(* and not exported by the kernel.                                         *)
Unresolved(i) == Desc[i].undefined \ Exports

(* process_relocations meets one of them.                                  *)
RelocationFails ==
  /\ SectionsDone /\ Unresolved(call.image) # {}
  /\ GiveUp(0, page, "UNUSED")

(* The symbols module_name_str, module_exit_fn, ... are looked up.         *)
EntryPoints ==
  /\ SectionsDone /\ Unresolved(call.image) = {}
  /\ loaded_modules' = [loaded_modules EXCEPT
       ![slot] = [@ EXCEPT !.state = "LOADED", !.image = call.image,
                           !.name = SectionPage(call.image, desc.nameSec),
                           !.exit = SectionPage(call.image, desc.exitSec)]]
  /\ call' = [call EXCEPT !.at = "register"]
  /\ UNCHANGED <<pmm, loaded_module_count, page, table, content, others, halted, newest, gapped>>

Registering == call.at = "register"
found       == IF this.name = NO THEN {} ELSE Stops(TextAt(this.name))

(* The loop over the names finds one equal, or faults on the way.          *)
Duplicate ==
  /\ Registering /\ found # {}
  /\ IF FaultsAt(Min(found)) THEN Halt ELSE GiveUp(0, page, "UNUSED")

InitFails ==
  /\ Registering /\ found = {} /\ desc.init = "fails"
  /\ GiveUp(0, page, "FAILED")

Register ==
  /\ Registering /\ found = {} /\ desc.init # "fails"
  /\ loaded_module_count' = loaded_module_count + 1
  /\ newest' = slot
  /\ call' = NoCall
  /\ UNCHANGED <<pmm, loaded_modules, page, table, content, others, halted, gapped>>

(* module_unload: the search may fault; a module found and still loaded is *)
(* left to its exit function.  A page that is not mapped any more faults;  *)
(* one that holds another module by now runs what is there, which may      *)
(* return or halt (what else such code might do is left out).              *)
Unload(name) ==
  /\ ~halted /\ call = NoCall
  /\ LET stops   == Stops(name)
         i       == Min(stops)
         e       == loaded_modules[i]
         exits   == e.state = "LOADED" /\ e.exit # NO
         faults  == FaultsAt(i) \/ (exits /\ page[e.exit] = NONE)
         foreign == exits /\ ~faults /\ content[page[e.exit]] # <<e.image, e.exit>>
     IN  /\ stops # {}
         /\ \/ (faults \/ foreign) /\ Halt
            \/ /\ ~faults
               /\ e.state = "LOADED"
               /\ loaded_modules' = [loaded_modules EXCEPT ![i].state = "UNLOADED"]
               /\ UNCHANGED <<pmm, loaded_module_count, page, table, content,
                              call, others, halted, newest, gapped>>

(* The rest of the kernel, between calls.                                  *)
FrameTaken ==
  /\ ~halted /\ call = NoCall /\ Available # {}
  /\ Cardinality(others) < MAX_OTHERS
  /\ LET f == Min(Available)
     IN  /\ free' = free \ {f}
         /\ others' = others \cup {f}
         /\ content' = [content EXCEPT ![f] = <<NOIMAGE, 0>>]
  /\ UNCHANGED <<total_frames, info, registry, page, table, call, halted, newest, gapped>>

FrameGiven ==
  /\ ~halted /\ call = NoCall
  /\ \E f \in others : free' = free \cup {f} /\ others' = others \ {f}
  /\ UNCHANGED <<total_frames, info, registry, page, table, content, call, halted, newest, gapped>>

ModuleLoad ==
  \/ \E i \in Images : LoadBegin(i)
  \/ SectionTooLarge \/ SectionNoFrames \/ LoadSection
  \/ RelocationFails \/ EntryPoints
  \/ Duplicate \/ InitFails \/ Register

Next == ModuleLoad \/ (\E n \in Names : Unload(n)) \/ FrameTaken \/ FrameGiven

Spec == Init /\ [][Next]_vars

-----------------------------------------------------------------------------
(* The variables have the shapes the code gives them, no more slots are in *)
(* use than there are, and pmm_alloc_frame never looks past the bitmap.    *)
TypeOK ==
  /\ info \in BootInfos
  /\ free \subseteq Frames
  /\ total_frames \in 0..BITMAP_BITS
  /\ loaded_module_count \in 0..MAX_LOADED_MODULES
  /\ loaded_modules \in [Slots -> Entry]
  /\ page \in [Pages -> Frames]
  /\ table \in Frames
  /\ content \in [Frames -> (Images \cup {NOIMAGE}) \X Pages]
  /\ call \in Call
  /\ others \subseteq Frames
  /\ newest \in Slots \cup {NO}
  /\ halted \in BOOLEAN /\ gapped \in BOOLEAN

(* The frames recorded in an entry that counts: a registered one, or the   *)
(* one a load in progress fills.                                           *)
Held(s) ==
  IF s < loaded_module_count \/ (s = loaded_module_count /\ call # NoCall)
  THEN Range(loaded_modules[s].frames) ELSE {}

(* Every frame the boot loader's information makes usable is free, or in   *)
(* the list of exactly one module, or the region's page table, or held by  *)
(* the rest of the kernel; and no other frame is in use.  Whatever error   *)
(* path module_load takes, what it took in its loop over sections is given *)
(* back once; and pmm_init neither loses a frame at the edge of a region   *)
(* nor hands out one of the kernel image, the BIOS or the memory map.      *)
(* Which frames there are is said for maps without empty regions only.     *)
FramesConserved ==
  ~halted =>
    LET held == UNION {Held(s) : s \in Slots}
        pt   == {table} \ {NONE}
    IN  /\ NoEmptyRegion(info) => free \cup others \cup pt \cup held = Usable(info)
        /\ free \cap (others \cup pt \cup held) = {}
        /\ others \cap (pt \cup held) = {} /\ pt \cap held = {}
        /\ \A s \in Slots :
             /\ Held(s) # {} => IsInjective(loaded_modules[s].frames)
             /\ \A u \in Slots \ {s} : Held(s) \cap Held(u) = {}

(* As long as no module had gaps between its pages, a page of the region   *)
(* that is mapped maps a frame of a module, never one that was given back: *)
(* the error paths unmap by counting pages from the base, while the loop   *)
(* maps each section where its alignment puts it.                          *)
NoDanglingPage ==
  ~halted /\ ~gapped =>
    \A p \in Pages : page[p] # NONE => \E s \in Slots : page[p] \in Held(s)

(* Until the next load, the module loaded last is as its image says: the   *)
(* pages of its sections map its own frames in order, and each holds what  *)
(* was copied there.  Every module is put at the same address, so later    *)
(* the pages may be another's; but not before, whatever modules were       *)
(* loaded, refused or unloaded and whatever frames went round meanwhile.   *)
NewestModuleIntact ==
  newest # NO /\ ~halted =>
    LET e    == loaded_modules[newest]
        secs == Desc[e.image].sections
    IN  \A k \in 1..Len(secs) : \A j \in 0 .. secs[k].pages - 1 :
          LET p == SectionPage(e.image, k) + j
          IN  /\ page[p] = e.frames[PagesUpTo(e.image)[k - 1] + j + 1]
              /\ content[page[p]] = <<e.image, p>>
=============================================================================
