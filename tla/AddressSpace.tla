----------------------------- MODULE AddressSpace -----------------------------
(***************************************************************************)
(* Physical frames (pmm.c), page directories and page tables (vmm.c) and   *)
(* the calls that move frames between user tasks: task_create_user,        *)
(* task_create_user_from_binary, fork, exec, alloc, exit and wait.         *)
(*                                                                         *)
(* `mem` is what the memory manager works on, and the operators below take *)
(* and return such a record, so that an action follows its handler from    *)
(* call to call.  A handler is one step: system calls run with interrupts  *)
(* off, and the menu's calls are taken as uninterrupted.  The contents of  *)
(* pages, access flags and the kernel half of the address space are left   *)
(* out, except for the temporary mapping at 0xC0800000, whose page table   *)
(* is allocated on first use.  Kernel stacks are a number; which slot is   *)
(* whose is the business of Scheduler.                                     *)
(***************************************************************************)
EXTENDS Naturals, Sequences, FiniteSets, SequencesExt

CONSTANTS
  TASK_MAX,              \* entries of the task table, the idle task apart
  TOTAL_FRAMES,          \* total_frames
  MAX_USER_CODE_PAGES,
  MAX_USER_HEAP_PAGES,
  Images,                \* the ELF files given to exec (see Place)
  MAX_CALLS              \* bound on the number of calls of a behaviour

ASSUME AddressSpaceAssumption ==
  /\ {TASK_MAX, MAX_USER_CODE_PAGES, MAX_USER_HEAP_PAGES} \subseteq Nat \ {0}
  /\ {TOTAL_FRAMES, MAX_CALLS} \subseteq Nat /\ TOTAL_FRAMES >= 2

VARIABLES
  mem,      \* the memory manager's state
  task,     \* task_table: what the tasks own
  stacks,   \* free kernel stack slots
  failed,   \* history: some call has reported an error
  stray,    \* history: where images lay that cleanup does not look for them
  calls     \* calls so far, up to MAX_CALLS

vars == <<mem, task, stacks, failed, stray, calls>>

Tasks  == 1..TASK_MAX
Frames == 1..TOTAL_FRAMES
NONE   == 0                          \* no frame, not present

(* The page directory entries that matter: 0 (identity map), 1 (0x400000), *)
(* 2 (USER_HEAP_START), 767 (user stack) and 770 (0xC0800000).             *)
UserEntries == {"low", "code", "heap", "stack"}
DirEntries  == UserEntries \cup {"temp"}
Pages       == 0 .. MAX_USER_CODE_PAGES + MAX_USER_HEAP_PAGES - 1

(* A page of an image: the entry and page of its address.  An image is the *)
(* pages of its PT_LOAD segments in file order, each where p_vaddr puts    *)
(* it: nothing ties them to 0x400000, to each other or to distinct pages.  *)
(* Images in the first 4 MB or in the kernel half, which would be mapped   *)
(* over the kernel's own pages, are left out.                              *)
Place == (UserEntries \ {"low"}) \X Pages

ASSUME ImagesAssumption == Images \subseteq Seq(Place)

(* The frames paging_init takes first.                                     *)
KERNEL_PDT == 1
PT_LOW     == 2

Directory == [DirEntries -> Frames \cup {NONE}]
Table     == [Pages -> Frames \cup {NONE}]
Memory    == [used: SUBSET Frames, dir: [Frames -> Directory],
              table: [Frames -> Table], ok: BOOLEAN]   \* ok: no page fault so far

NoEntries == [e \in DirEntries |-> NONE]
NoPages   == [p \in Pages |-> NONE]

Task == [state: {"UNUSED", "LIVE", "ZOMBIE"},  \* LIVE: ready, running or waiting
         type: {"USER", "USER_PROCESS"},
         pd: Frames \cup {NONE},               \* page_directory_phys
         stack: Frames \cup {NONE},            \* user_stack_paddr
         paddr: Frames \cup {NONE},            \* user_code_paddr
         code: Seq(Frames), heap: Seq(Frames), \* user_code_frames, user_heap_frames
         children: SUBSET Tasks]

Unused == [state |-> "UNUSED", type |-> "USER", pd |-> NONE, stack |-> NONE,
           paddr |-> NONE, code |-> <<>>, heap |-> <<>>, children |-> {}]

TypeOK ==
  /\ mem \in Memory
  /\ task \in [Tasks -> Task]
  /\ \A t \in Tasks : /\ Len(task[t].code) <= MAX_USER_CODE_PAGES
                      /\ Len(task[t].heap) <= MAX_USER_HEAP_PAGES
  /\ stacks \in 0..TASK_MAX
  /\ failed \in BOOLEAN
  /\ stray \subseteq Frames \X UserEntries \X Pages
  /\ calls \in 0..MAX_CALLS

(* After paging_init and task_init.                                        *)
Init ==
  /\ mem = [used  |-> {KERNEL_PDT, PT_LOW},
            dir   |-> [f \in Frames |-> IF f = KERNEL_PDT
                                        THEN [NoEntries EXCEPT !["low"] = PT_LOW]
                                        ELSE NoEntries],
            table |-> [f \in Frames |-> NoPages],
            ok    |-> TRUE]
  /\ task = [t \in Tasks |-> Unused]
  /\ stacks = TASK_MAX
  /\ failed = FALSE
  /\ stray = {}
  /\ calls = 0

-----------------------------------------------------------------------------
(* pmm_alloc_frame: the first frame whose bit is clear, or NULL.           *)
Lowest(m) == IF m.used = Frames THEN NONE
             ELSE CHOOSE f \in Frames \ m.used : \A g \in Frames \ m.used : f <= g

AllocFrame(m) == [m EXCEPT !.used = (@ \cup {Lowest(m)}) \ {NONE}]

(* pmm_free_frame, for a set of frames.                                    *)
FreeFrames(m, F) == [m EXCEPT !.used = @ \ F]

(* vmm_map_page_for_pdt: a missing page table is allocated; when that      *)
(* fails the page stays unmapped and the caller is not told.               *)
MapPage(m, d, e, p, f) ==
  LET pt  == m.dir[d][e]
      new == Lowest(m)
  IN  IF pt # NONE THEN [m EXCEPT !.table[pt][p] = f]
      ELSE IF new = NONE THEN m
      ELSE [AllocFrame(m) EXCEPT !.dir[d][e] = new,
                                 !.table[new] = [NoPages EXCEPT ![p] = f]]

(* vmm_unmap_page_for_pdt, for the pages in P.  Without a page table the   *)
(* store goes through the recursive mapping to an address that is not      *)
(* mapped: a page fault in the kernel, which halts it (`ok` is FALSE and   *)
(* what the handler would have done next no longer matters).               *)
UnmapPages(m, d, e, P) ==
  LET pt == m.dir[d][e]
  IN  IF P = {} THEN m
      ELSE IF pt = NONE THEN [m EXCEPT !.ok = FALSE]
      ELSE [m EXCEPT !.table[pt] = [p \in Pages |-> IF p \in P THEN NONE ELSE @[p]]]

(* A frame written through the temporary mapping at 0xC0800000 of the      *)
(* directory d that is loaded.                                             *)
WriteThroughTemp(m, d, f) == UnmapPages(MapPage(m, d, "temp", 0, f), d, "temp", {0})

(* vmm_clone_kernel_mappings: the entries come from the recursive mapping, *)
(* that is from the directory cr3 that is loaded.                          *)
CloneKernelMappings(m, cr3) ==
  IF Lowest(m) = NONE THEN m
  ELSE [AllocFrame(m) EXCEPT !.dir[Lowest(m)] = m.dir[cr3]]

(* vmm_free_page_directory.                                                *)
FreePageDirectory(m, d) ==
  [FreeFrames(m, {d} \cup {m.dir[d][e] : e \in UserEntries}) EXCEPT !.dir[d] = NoEntries]

(* A loop that allocates n frames and maps them from page `first` on; it   *)
(* stops at the first frame it does not get.                               *)
Begin(m) == [m |-> m, frames |-> <<>>, failed |-> FALSE]

AllocPage(s, d, e, p) ==
  IF s.failed \/ Lowest(s.m) = NONE THEN [s EXCEPT !.failed = TRUE]
  ELSE [m      |-> MapPage(AllocFrame(s.m), d, e, p, Lowest(s.m)),
        frames |-> Append(s.frames, Lowest(s.m)),
        failed |-> FALSE]

AllocPages(m, d, e, first, n) ==
  LET got[i \in 0..n] == IF i = 0 THEN Begin(m)
                         ELSE AllocPage(got[i-1], d, e, first + i - 1)
  IN  got[n]

(* A slip: the pages are freed and stay mapped.                             *)
ReleasePagesMapped(m, d, e, first, frames) == FreeFrames(m, Range(frames))

(* Unmapping and freeing pages `first` on, which hold the given frames.    *)
ReleasePages(m, d, e, first, frames) ==
  FreeFrames(UnmapPages(m, d, e, {first + i - 1 : i \in DOMAIN frames}), Range(frames))

(* Slips: the heap is forgotten, in memory or in the task.                  *)
CleanupMemoryNoHeap(m, r) ==
  LET m1 == IF r.stack = NONE THEN m
            ELSE ReleasePages(m, r.pd, "stack", 0, <<r.stack>>)
  IN  ReleasePages(m1, r.pd, "code", 0, r.code)

CleanupTaskKeepsHeap(r) == [r EXCEPT !.stack = NONE, !.paddr = NONE, !.code = <<>>]

(* task_cleanup_user_resources, on memory and on the task.                 *)
CleanupMemory(m, r) ==
  LET m1 == IF r.stack = NONE THEN m
            ELSE ReleasePages(m, r.pd, "stack", 0, <<r.stack>>)
      m2 == ReleasePages(m1, r.pd, "code", 0, r.code)
  IN  ReleasePages(m2, r.pd, "heap", 0, r.heap)

CleanupTask(r) ==
  [r EXCEPT !.stack = NONE, !.paddr = NONE, !.code = <<>>, !.heap = <<>>]

-----------------------------------------------------------------------------
(* task_alloc.                                                             *)
CanAlloc == stacks > 0 /\ \E t \in Tasks : task[t].state = "UNUSED"
NewTask  == CHOOSE t \in Tasks :
              /\ task[t].state = "UNUSED"
              /\ \A u \in Tasks : task[u].state = "UNUSED" => t <= u

(* A creation that fails: the entry is UNUSED again, its stack slot stays  *)
(* taken.                                                                  *)
CreateFails(m) ==
  /\ mem' = m
  /\ stacks' = stacks - 1
  /\ failed' = TRUE
  /\ UNCHANGED <<task, stray>>

CreateSucceeds(m, r) ==
  /\ mem' = m
  /\ stacks' = stacks - 1
  /\ task' = [task EXCEPT ![NewTask] = r]
  /\ UNCHANGED <<failed, stray>>

(* task_create_user, from the menu.  Nothing is given back on failure, and *)
(* a frame that was not got means that the later ones are not got either.  *)
TaskCreateUser ==
  /\ mem.ok /\ CanAlloc
  /\ LET pd    == Lowest(mem)
         m1    == CloneKernelMappings(mem, KERNEL_PDT)
         stack == Lowest(m1)
         m2    == AllocFrame(m1)
         code  == Lowest(m2)
         m3    == AllocFrame(m2)
     IN  IF code = NONE THEN CreateFails(m3)
         ELSE LET m4 == WriteThroughTemp(m3, KERNEL_PDT, code)
                  m5 == MapPage(m4, pd, "stack", 0, stack)
              IN  CreateSucceeds(MapPage(m5, pd, "code", 0, code),
                    [Unused EXCEPT !.state = "LIVE", !.pd = pd,
                                   !.stack = stack, !.paddr = code])

(* task_create_user_from_binary, from the menu, for a binary of n pages;   *)
(* one more page holds the exit stub.  The menu passes no arguments, so    *)
(* task_setup_user_stack does not fail.                                    *)
TaskCreateUserFromBinary(n) ==
  /\ mem.ok /\ CanAlloc
  /\ LET pd    == Lowest(mem)
         m1    == CloneKernelMappings(mem, KERNEL_PDT)
         stack == Lowest(m1)
         m2    == AllocFrame(m1)
     IN  IF stack = NONE THEN CreateFails(m2)
         ELSE LET m3   == MapPage(m2, pd, "stack", 0, stack)
                  bin  == AllocPages(m3, pd, "code", 0, n)
                  stub == Lowest(bin.m)
              IN  IF n + 1 > MAX_USER_CODE_PAGES
                  THEN CreateFails(FreeFrames(m3, {stack}))
                  ELSE IF bin.failed \/ stub = NONE
                  THEN CreateFails(FreeFrames(bin.m, {stack} \cup Range(bin.frames)))
                  ELSE CreateSucceeds(
                         MapPage(AllocFrame(bin.m), pd, "code", n, stub),
                         [Unused EXCEPT !.state = "LIVE", !.type = "USER_PROCESS",
                                        !.pd = pd, !.stack = stack,
                                        !.paddr = Head(bin.frames),
                                        !.code = Append(bin.frames, stub)])

-----------------------------------------------------------------------------
(* A task can make a system call while some page is mapped for it.         *)
Executes(t) ==
  /\ mem.ok
  /\ task[t].state = "LIVE"
  /\ \E e \in UserEntries, p \in Pages :
       LET pt == mem.dir[task[t].pd][e]
       IN  pt # NONE /\ mem.table[pt][p] # NONE

Process(t) == Executes(t) /\ task[t].type = "USER_PROCESS"

(* sys_fork.  The child's frames are mapped in the child's directory,      *)
(* whose entries are those of the caller.                                  *)
SysFork(t) ==
  /\ Process(t) /\ CanAlloc
  /\ LET r     == task[t]
         pd    == Lowest(mem)
         m1    == CloneKernelMappings(mem, r.pd)
         code  == AllocPages(m1, pd, "code", 0, Len(r.code))
         stack == Lowest(code.m)
         m2    == MapPage(AllocFrame(code.m), pd, "stack", 0, stack)
         heap  == AllocPages(m2, pd, "heap", 0, Len(r.heap))
     IN  IF pd = NONE THEN CreateFails(mem)
         ELSE IF code.failed
         THEN CreateFails(FreeFrames(code.m, Range(code.frames)))
         ELSE IF stack = NONE
         THEN CreateFails(ReleasePages(code.m, pd, "code", 0, code.frames))
         ELSE IF heap.failed
         THEN CreateFails(ReleasePages(
                FreeFrames(heap.m, {stack} \cup Range(code.frames)),
                pd, "heap", 0, heap.frames))
         ELSE /\ mem' = heap.m
              /\ stacks' = stacks - 1
              /\ task' = [task EXCEPT
                   ![NewTask] = [r EXCEPT !.pd = pd, !.stack = stack, !.code = code.frames,
                                          !.heap = heap.frames, !.children = {}],
                   ![t].children = @ \cup {NewTask}]
              /\ UNCHANGED <<failed, stray>>

(* Where exec may fail besides running out of frames: validate_elf_header, *)
(* a segment beyond the end of the file, process_relocations, and strings  *)
(* that do not fit into the page of task_setup_user_stack.  That function  *)
(* reads argv and envp when the image they lie in is already unmapped: it  *)
(* may fault, in the kernel, which halts it.                               *)
BadHeader         == "header"
BadSegment        == "segment"
BadRelocation     == "relocation"
ArgumentsTooLong  == "arguments"
ArgumentsUnmapped == "fault"
Outcomes == {"fine", BadHeader, BadSegment, BadRelocation,
             ArgumentsTooLong, ArgumentsUnmapped}

(* load_elf: every page gets a frame of its own, is mapped at its place,   *)
(* over whatever is there, and written through the temporary mapping.  It  *)
(* stops at a frame it does not get or past the last page that has room.   *)
LoadPage(s, d, place) ==
  LET page == AllocPage(s, d, place[1], place[2])
  IN  IF Len(s.frames) >= MAX_USER_CODE_PAGES \/ page.failed
      THEN [s EXCEPT !.failed = TRUE]
      ELSE [page EXCEPT !.m = WriteThroughTemp(page.m, d, Lowest(s.m))]

LoadElf(m, d, image) ==
  LET elf[i \in 0..Len(image)] == IF i = 0 THEN Begin(m)
                                  ELSE LoadPage(elf[i-1], d, image[i])
  IN  elf[Len(image)]

(* user_code_paddr after a load.                                           *)
First(frames) == IF frames = <<>> THEN NONE ELSE Head(frames)

(* The pages of an image that task_cleanup_user_resources will not unmap:  *)
(* it looks for the n frames of the code on the n pages from 0x400000 on.  *)
Strays(d, image) ==
  {<<d, x[1], x[2]>> : x \in Range(image) \ ({"code"} \X (0 .. Len(image) - 1))}

ExecFails(t, m, paddr) ==
  /\ mem' = m
  /\ task' = [task EXCEPT ![t] = [CleanupTask(@) EXCEPT !.paddr = paddr]]
  /\ failed' = TRUE
  /\ UNCHANGED <<stacks, stray>>

(* sys_exec of a file that can be read: task_replace_process_image gives   *)
(* up the old image first.  After a load that fails only the stack is      *)
(* freed (after a bad relocation also the pages), after arguments that do  *)
(* not fit only the code, and user_code_paddr is left; nothing is unmapped. *)
SysExec(t, image, outcome) ==
  /\ Process(t)
  /\ LET d     == task[t].pd
         m1    == CleanupMemory(mem, task[t])
         stack == Lowest(m1)
         m2    == MapPage(AllocFrame(m1), d, "stack", 0, stack)
         elf   == LoadElf(m2, d, image)
     IN  IF stack = NONE THEN ExecFails(t, m1, NONE)
         ELSE IF outcome = BadHeader THEN ExecFails(t, FreeFrames(m2, {stack}), NONE)
         ELSE IF elf.failed \/ outcome = BadSegment
         THEN ExecFails(t, FreeFrames(elf.m, {stack}), NONE)
         ELSE IF outcome = BadRelocation
         THEN ExecFails(t, FreeFrames(elf.m, {stack} \cup Range(elf.frames)), NONE)
         ELSE IF outcome = ArgumentsTooLong
         THEN ExecFails(t, FreeFrames(elf.m, Range(elf.frames)), First(elf.frames))
         ELSE IF outcome = ArgumentsUnmapped
         THEN mem' = [elf.m EXCEPT !.ok = FALSE] /\ UNCHANGED <<task, stacks, failed, stray>>
         ELSE /\ mem' = elf.m
              /\ task' = [task EXCEPT
                   ![t] = [CleanupTask(@) EXCEPT
                             !.stack = stack, !.code = elf.frames,
                             !.paddr = First(elf.frames)]]
              /\ stray' = stray \cup Strays(d, image)
              /\ UNCHANGED <<stacks, failed>>

(* A slip: one page too many is admitted.                                   *)
HeapHasRoomForOneMore(t, n) == Len(task[t].heap) + n <= MAX_USER_HEAP_PAGES + 1

(* The check of sys_alloc against MAX_USER_HEAP_PAGES.                     *)
HeapHasRoom(t, n) == Len(task[t].heap) + n <= MAX_USER_HEAP_PAGES

(* sys_alloc of n pages.                                                   *)
SysAlloc(t, n) ==
  /\ Process(t) /\ HeapHasRoom(t, n)
  /\ LET first == Len(task[t].heap)
         d     == task[t].pd
         got   == AllocPages(mem, d, "heap", first, n)
     IN  IF got.failed
         THEN /\ mem' = ReleasePages(got.m, d, "heap", first, got.frames)
              /\ failed' = TRUE
              /\ UNCHANGED <<task, stacks, stray>>
         ELSE /\ mem' = got.m
              /\ task' = [task EXCEPT ![t].heap = @ \o got.frames]
              /\ UNCHANGED <<stacks, failed, stray>>

(* sys_exit, or a page fault in user mode: everything is left to the       *)
(* parent.                                                                 *)
Exit(t) ==
  /\ mem.ok
  /\ task[t].state = "LIVE"
  /\ task' = [task EXCEPT ![t].state = "ZOMBIE"]
  /\ UNCHANGED <<mem, stacks, failed, stray>>

(* The tables that the kernel's directory or the directory of a task link. *)
Directories(T) == {KERNEL_PDT} \cup {T[t].pd : t \in {u \in Tasks : T[u].state # "UNUSED"}}
Linked(m, T)   == {m.dir[d][e] : d \in Directories(T), e \in DirEntries} \ {NONE}

(* sys_wait for a child that has exited.  A table that is freed while a    *)
(* directory links it may hold anything from then on: `ok` is FALSE.       *)
SysWaitReap(t, c) ==
  /\ Process(t)
  /\ c \in task[t].children /\ task[c].state = "ZOMBIE"
  /\ LET m == FreePageDirectory(CleanupMemory(mem, task[c]), task[c].pd)
         T == [task EXCEPT ![c] = Unused, ![t].children = @ \ {c}]
     IN  /\ mem' = [m EXCEPT !.ok = @ /\ Linked(m, T) \subseteq m.used]
         /\ task' = T
  /\ stacks' = stacks + 1
  /\ UNCHANGED <<failed, stray>>

Step ==
  \/ TaskCreateUser
  \/ \E n \in 1..MAX_USER_CODE_PAGES : TaskCreateUserFromBinary(n)
  \/ \E t \in Tasks :
       \/ SysFork(t)
       \/ \E image \in Images, o \in Outcomes : SysExec(t, image, o)
       \/ \E n \in 1..MAX_USER_HEAP_PAGES : SysAlloc(t, n)
       \/ Exit(t)
       \/ \E c \in Tasks : SysWaitReap(t, c)

Next == calls < MAX_CALLS /\ calls' = calls + 1 /\ Step

Spec == Init /\ [][Next]_vars

-----------------------------------------------------------------------------
(* What a task owns.  The code frame of task_create_user is recorded in    *)
(* user_code_paddr only.                                                   *)
Private(r) == <<r.pd>> \o r.code \o r.heap
              \o (IF r.stack = NONE THEN <<>> ELSE <<r.stack>>)
              \o (IF r.type = "USER" THEN <<r.paddr>> ELSE <<>>)
Owners   == {t \in Tasks : task[t].state # "UNUSED"}
Owned(t) == Range(Private(task[t]))

(* No frame has two uses: as long as the memory is sound, the frames of a  *)
(* task are distinct, belong to no other task, are neither page tables nor *)
(* the kernel's, and are not free; nor are the page tables.  Every path of *)
(* fork, exec and alloc that gives frames back could break it.             *)
FramesExclusive ==
  mem.ok =>
    /\ \A t \in Owners :
         /\ IsInjective(Private(task[t]))
         /\ Owned(t) \subseteq mem.used \ (Linked(mem, task) \cup {KERNEL_PDT})
         /\ \A u \in Owners \ {t} : Owned(t) \cap Owned(u) = {}
    /\ Linked(mem, task) \cup {KERNEL_PDT} \subseteq mem.used

(* No frame is lost: until a call reports an error, every frame in use is  *)
(* the kernel's, a page table of somebody or owned by a task, through any  *)
(* sequence of creations, forks, execs and allocations.                    *)
NoFrameLost ==
  mem.ok /\ ~failed =>
    mem.used = {KERNEL_PDT} \cup Linked(mem, task) \cup UNION {Owned(t) : t \in Owners}

(* The frames a task may have at the pages of a directory entry: those of  *)
(* its image anywhere, heap and stack at their own.                        *)
Kept(r, e) ==
  Range(r.code) \cup (IF r.type = "USER" THEN {r.paddr} ELSE {})
  \cup (IF e = "heap" THEN Range(r.heap) ELSE {})
  \cup (IF e = "stack" THEN {r.stack} ELSE {})

(* What page p of entry e of a task leads to is nobody's: no task that     *)
(* links the page table keeps the frame for it.                            *)
Dangling(t, e, p) ==
  LET pt == mem.dir[task[t].pd][e]
  IN  /\ pt # NONE /\ mem.table[pt][p] # NONE
      /\ \A u \in Owners, x \in UserEntries :
           mem.dir[task[u].pd][x] = pt => mem.table[pt][p] \notin Kept(task[u], x)

(* No dangling page: until a call reports an error, what a user page of a  *)
(* task leads to is a frame that this task, or one it shares the table     *)
(* with, keeps for it (and that is not free then, by FramesExclusive),     *)
(* although fork shares page tables and whatever was loaded where.  Only   *)
(* the pages of an image beyond those that task_cleanup_user_resources     *)
(* unmaps are excepted, in the tables they were mapped in.                 *)
NoDanglingPage ==
  mem.ok /\ ~failed =>
    \A t \in Owners, e \in UserEntries, p \in Pages :
      Dangling(t, e, p) =>
        \E s \in stray : mem.dir[s[1]][s[2]] = mem.dir[task[t].pd][e] /\ s[3] = p

(* sys_wait frees "per-task page tables": no table that a directory still  *)
(* links is ever free.                                                     *)
TablesPerTask == Linked(mem, task) \subseteq mem.used
=============================================================================
