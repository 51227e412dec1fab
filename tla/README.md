# Verification of the fishboneOS kernel

TLA+ models of the monolithic kernel of fishboneOS
(`src/src/kernel/monolithic/kernel`, a 32-bit x86 teaching operating system),
TLC instances that check them, and TLAPS proofs about them.  Paths below are
relative to that directory unless they start with `src/`.

## The system

One processor, interrupts, no kernel threads.  `kernel_main` initialises the
parts in order, makes `kernel_idle` the first task and enables interrupts.
From then on code runs in three ways:

* `kernel_idle` (`kernel/kernel.c`) loops in ring 0 with interrupts enabled: it
  runs the menu (read a key, redraw, start tasks, use the disk) and calls
  `task_yield()` at the end of every round;
* user tasks run in ring 3 with interrupts enabled;
* interrupt handlers (timer, keyboard, system calls, page faults) run with
  interrupts off, act on `current_task`, and may return the context of another
  task, which the stub of `arch/i386/cpu.s` resumes.

### Inventory

| Component | State | Operations | Correct when |
|---|---|---|---|
| Task table and scheduler (`kernel/task.c`) | `task_table`, ready list (`next`, `prev`, head, tail), `current_task`, stack slots, `next_pid` | create, enqueue, remove, select, schedule/yield, tick, wake, terminate | the list holds exactly the ready tasks; the processor runs `current_task`; nobody starves; stacks are not shared; the dead stay dead |
| System calls (`kernel/syscall.c`) | none of its own | exit, sleep, yield, fork, wait, read; write, files, alloc, exec, modules | each acts on its caller; blocking calls block; failed calls undo what they did |
| Interrupt dispatch (`kernel/interrupt.c`, `arch/i386/cpu.s`) | saved contexts | save, dispatch, resume | a context is saved for the task it belongs to |
| Timer (`drivers/timer.c`) | `pit_ticks` (32 bits) | tick | sleepers are woken, also across the wrap |
| Kernel heap (`kernel/malloc.c`) | chunk list, `heap_end_vaddr` | `kmalloc`, `kfree`, `expand_heap`, `heap_init` | chunks tile the region, blocks do not overlap, neighbours coalesce, failure leaks nothing |
| Keyboard (`drivers/keyboard.c`) | event ring, `extended_prefix` | interrupt, get event | a bounded FIFO of the keys pressed |
| Physical memory (`kernel/pmm.c`) | frame bitmap | init from the memory map, alloc, free | exactly the frames that are memory and nobody's are free; a frame has one owner |
| Virtual memory (`kernel/vmm.c`, `kernel/paging.c`) | page directories and tables | map, unmap, clone, destroy | no table is freed while another directory uses it |
| FAT16 (`kernel/fat16.c`, `drivers/ata.c`) | sectors, descriptors | mount, open, read, write, delete | FAT, directory and descriptors agree |
| Module loader (`kernel/module_loader.c`, `kernel/module.c`) | registry, pages at one fixed address | load, init, unload | what a load took is kept by its module or given back; the module just loaded is what its object says |
| ELF loader (`kernel/elf_loader.c`) | none | validate, map segments | rolls back on failure |
| Menu (`kernel/menu_main.c`, `kernel/menu_renderer.c`) | menu, selections, redraw and display flags, name prompt | draw, navigate, callbacks | a key acts on what is shown; names are acceptable to FAT16; callbacks close and free what they took |
| Output, descriptor tables, libc, user programs | - | - | - |

Interactions: the timer interrupt drives the scheduler; system calls and page
faults change the task table and may switch; the menu creates tasks and reads
the keyboard *between* interrupts, so it shares the table, the ready list and
the ring with handlers; fork, exec and wait also use frames and directories;
the heap takes its pages from the frame allocator.

What is hard: state shared between `kernel_idle` and handlers without locks;
switching by returning a context; tasks waking in the same tick; counters that
wrap; calls that fail half way; slots (table entries, stacks, pids, ring
positions, heap chunks) that are reused.  `hazards` in `PROJECT.json` lists
these at their lines.

## The modules

| Module | Models | Composed with |
|---|---|---|
| `ReadyList` | the pointer operations of the ready list, and what it is to be a list of a set of tasks | used by `Scheduler` |
| `Scheduler` | task table, ready list, contexts, timer, task creation by the menu, exit, fault, sleep, yield, fork, and wait for a dead child | extends `ReadyList` |
| `IdleYield` | `Scheduler` and the `task_yield()` call of `kernel_idle` | extends `Scheduler` |
| `Blocking` | `Scheduler` and the calls that ought to block: wait for a live child, read of an empty queue | extends `Scheduler` |
| `Allocator` | abstract: disjoint blocks are handed out and returned | refined by `Heap` |
| `Heap` | `kmalloc`, `kfree`, `expand_heap` with its rollback, `heap_init`, the heap's page table, frames taken and returned by the rest of the kernel | refines `Allocator` |
| `EventQueue` | abstract: a bounded FIFO that drops when full | refined by `Keyboard` |
| `Keyboard` | scan code translation, the ring, reader and handler with interrupts off | refines `EventQueue` |
| `Fat16` | mount, create, delete, open, read, write, close; sectors that fail; power failure | |
| `AddressSpace` | frames, page directories and tables; task creation, fork, exec, alloc, exit and wait as far as they move frames | |
| `Context` | the interrupt frame, the saved context and its resumption, register by register | inside what `Scheduler` calls a context |
| `Pmm` | `pmm_init` and the frame bitmap, and a byte-level reference for it | used by `ModuleLoader` |
| `ModuleLoader` | loading at the fixed base with every error path, registration, unloading | extends `Pmm` |
| `Menu` | frames, keys, the name prompt, the callbacks with their failures | |
| `Scheduler_proofs`, `Heap_proofs`, `Keyboard_proofs`, `Fat16_proofs`, `Menu_proofs`, `AddressSpace_proofs`, `ModuleLoader_proofs` | theorems | extend the modules they are about |
| `BoundedInduction` | induction over the rounds of a loop, for the proofs | extended by `Scheduler_proofs`, `Heap_proofs`, `Fat16_proofs`, `AddressSpace_proofs` and `ModuleLoader_proofs` |
| `MC*` | values of constants for TLC | |

### Scheduler

A task is its index in `task_table`, from 1 (`kernel_idle` is task 1), and
`NULL` is 0.  `task[t]` holds the fields of `task_t` that control depends on,
`rl` the links and ends of the ready list, `current` is `current_task`, `slots`
the kernel stack slots marked used.  The list of children is a set: its order
decides only which of two equal pids would be found, and pids are not reused.
Memory is left out, except that copying it may fail (`SysFork(TRUE)`,
`MenuFail`).

A context is represented by the task whose registers it holds.  `cpu` is the
task whose code the processor executes, `ctx[t]` whose registers are stored in
the context of `t`.  `SaveContext` is `task_save_current_context`, which every
interrupt performs before its handler; `Switch` is what happens to the context
a handler returns.  So `cpu = current` is a property, not an assumption.  That
the registers themselves survive is not assumed to hold but looked at in `Context`
(where it does not): `Scheduler` is about whose context is saved and resumed.

Each handler is one action, because gates clear the interrupt flag.  The menu
is not: `MenuAlloc` (`task_alloc`) and `MenuEnqueue`/`MenuFail` (the end of
`task_create_user*`) are separate, and anything may happen between them;
`building` is the task in between.  The pointer assignments *inside*
`task_alloc` and `task_enqueue`, when `kernel_idle` performs them, are taken as
one step; see "Not modelled".

Two kinds of steps of the real system are not in `Scheduler` but in modules
that extend it, because they break what the rest maintains:

* `IdleYield`: the plain call of `task_yield()` in `kernel_idle` changes
  `current_task` while the processor stays where it is.  `RunsCurrent`, and
  the liveness properties, do not hold of a kernel that makes this call.
* `Blocking`: `sys_wait` for a child that has not exited marks its caller
  WAITING and returns to it, and `sys_read` of an empty queue spins.
  Once a task marked WAITING executes, it can be woken and enqueued while it
  runs, or exit with a stale `wake_tick`, so the properties of `Scheduler` are
  about kernels in which no task makes these two calls.

The theorems and the passing scheduler runs are therefore statements about the
scheduler without those calls: they show that the rest of the code is sound,
and the violation runs show that these calls are not.

### Heap

Headers are 16 bytes and sizes are rounded up to 16, so addresses and sizes are
counted in units of 16 bytes from the start of the region.  `hdr` maps the
address of each chunk to its header.  `kmalloc` has one action per outcome: a
chunk fits, the heap grows, growth fails.  The search of the list is given by
its result, the lowest chunk that fits; that the list visits chunks in address
order is `ListInOrder`.  `Sizes` are in bytes and rounding is in 32 bits
(`SIZE_MOD`).  `owned` records what the callers were given.

Frames have identities.  `mem` holds those that are free (`pool`), the heap's page
table and what each page of the region maps; `held` are those the rest of the kernel
took.  `Round` is one round of the loop of `expand_heap`: it may stop at the end of the
region or for want of a frame, and `Rollback` then unmaps the pages and frees their
frames one by one.  The region is one entry of the page directory, so
`vmm_map_page` allocates its page table when `heap_init` maps the first page, and
keeps it.  With exactly one free frame at boot that allocation fails unnoticed and the first
header is stored to an unmapped page; the kernel does not come up, and `FRAMES # 1`
is assumed.  Sizes that wrap to 0 fit every free chunk; if there is none, the heap grows
and the second `kmalloc(0)` returns NULL.

### Keyboard

A character is named by the scan code it comes from; which character the table
`kbd_us` gives is left out, that it gives none (`Blank`, codes from 58) is not.
`sys_read` and the handler run with interrupts off.  The menu's reader, which the
handler can interrupt, is not modelled.

### Context

`cpu` holds the registers, `context` what is saved per task.  `saved_regs` is the
stack the stub passes to `interrupt_handler`: `pusha`, number and error code, and the
frame of the processor, in the order of addresses.  `Saved` and `Resumed` are
`task_save_current_context` and `task_resume`, one field per assignment.  Kernel
tasks have a frame without SS and ESP.  `Execute` changes the registers in between,
`interrupted` remembers them.

### Fat16

`fat` is the first copy of the FAT (the second is written and never read), `dir`
the root directory, `files` the descriptors.  The contents of data sectors are
left out; which cluster and which sector an access goes to is not.  Names are the
normalised 8.3 names.  `fat16_read` and `fat16_write` are carried out one sector
at a time (`call` is where they are): each round of their loops is a step, and
allocating a cluster is two, the mark and the link.  In between only
`PowerFailure` can happen, because system calls run with interrupts off; it
forgets everything but `fat` and `dir`.  Every access may fail: a failed FAT read
yields 0xFFF7, which the code takes for a cluster; a failed write of the
second FAT copy leaves the first changed; a directory that cannot be read makes
`fat16_create` believe that the name is free.  Accesses of cluster 0xFFF7 fail,
since a volume of that size would be larger than the disk image in use.  The menu
calls these functions with interrupts enabled; its calls are taken as
uninterrupted.

### AddressSpace

`mem` holds the bitmap (`used`), the contents of frames that serve as
directories (`dir`) and as page tables (`table`), and `ok`.  The operators are the
functions of `pmm.c` and `vmm.c`; they take and return `mem`, so an action
threads it through the calls of its handler in their order, failure paths
included.  A directory has five entries: the identity map, code, heap, stack, and
the temporary mapping at 0xC0800000, whose table is allocated on first use and
may be the allocation that fails.  The mapping of the VGA page finds the identity map
present and changes only flags, so it does not appear.  Where the loading of
an image fails is an input (`Outcomes`); one outcome is that `task_setup_user_stack`
reads `argv` from the image that was just unmapped and faults.  `user_stack_size` is
two pages, as in all callers, so the page mapped is the page unmapped.

`ok` becomes FALSE when the kernel itself faults, because it unmaps a page that has no
table, or when a table is freed that a directory still links: from then on memory may
hold anything, and the model stops.  With the code as it is every reap does
the latter (run `fork_tables`), so `FramesExclusive`, `NoFrameLost` and
`NoDanglingPage` speak of the kernel up to its first reap.  Up to there no frame is
owned twice or lost, and only stray pages (below) still lead to frames given back.

`task_create_user_from_elf` has no caller and is left out.  The menu's creations
are one step each.

An ELF image (`Images`) is the sequence of the places of its pages, since `load_elf`
maps each page at the address the file gives, over whatever is there, while
`task_cleanup_user_resources` takes the frames to be on consecutive pages from 0x400000
on.  `stray` collects the pages of images for which that is wrong.  `NoDanglingPage`
demands of every page that is mapped, stray ones apart, that its frame is kept for it by
a task that links the page table.
Images in the first 4 MB or in the kernel half, which `load_elf` would map over the
kernel's own pages, are left out.

### Pmm and ModuleLoader

`Pmm` translates `pmm_init`: the regions the boot loader reports are rounded to
frames, those of type 1 are marked free, then low memory, the kernel image, the text
buffer and the memory map are marked used.  Overlaps, partly covered frames and
ends beyond the bitmap come out as in the code.  `Usable` is a reference over
bytes that adopts the outward rounding: a frame counts if any of its bytes is memory
and none is taken.  `FramesConserved` compares the two, at the beginning and ever after,
for maps in which every region has bytes (`NoEmptyRegion`): a region of no bytes at
address 0 makes the code free the whole bitmap.  That a free frame is memory to its
last byte is not claimed, and false.

In `ModuleLoader` the pages after `MODULE_LOAD_BASE` are numbered from 0, `page` is
their page table, and `content` says which page of which object was copied into a
frame.  `module_load` is a sequence of steps (`call`): one per section, then relocation,
the symbols, the search for the name, init, registration.  Nothing comes between them,
as it runs at boot or in a system call; between calls other parts of the kernel take and
return frames.  An object is described by what decides the control flow (`Desc`): its
header, sections, undefined symbols, name, and the result of its init function.  The
name of a registered module is a pointer into the region, so a search of the registry reads
whatever is mapped there now (`TextAt`), or makes the kernel fault and halt (`Halt`).
`gapped` records that a section was aligned to more than a page: from then on the
clean-up, which unmaps as many pages as it has frames, misses some, and
`NoDanglingPage` is stated for the time before.  An exit function in a page that
another module has replaced since is foreign code: the unload may return or halt.

### Menu

A frame of the menu is `Draw` and then `NoKey` or one key.  `menu_renderer_update` and
`handle_input` share five flags, kept under their names; `EndUpdate` is what update does
after the key.  A callback is a small program (`Program`): its calls that can fail or
that take or return something, each with its two continuations.  Tasks open and close
files meanwhile (`Others`).  `created` is the name a prompt hands to `fat16_create` and
`Normalizes` is the test of `fat16.c`.  Of the screen only what it shows is kept: which
menu and selection, which text, or the prompt.  Loops that fill the screen are left
out, so nothing is claimed about their end.

## The runs

| Run | Shows |
|---|---|
| `scheduler` | With four tasks: the list is exact (`ReadyListOK`), the processor runs `current_task` with its own registers (`RunsCurrent`), stacks are not shared (`StackSlotsOwned`), child lists hold live tasks that point back (`ChildrenAreOurs`), zombies change only by being reaped (`ZombiesStayDead`), the list is first come, first served (`NoOvertaking`) |
| `scheduler_live` | Ready tasks run (`NoStarvation`), sleepers wake (`SleepersWake`), across the wrap of `pit_ticks` |
| `heap` | Chunks tile the region in list order, are coalesced, are exactly the blocks handed out, are large enough unless rounding wraps; every frame is in one place, through failed growth too (`FramesConserved`); `Heap` implements `Allocator` |
| `keyboard` | The ring is in step, implements `EventQueue`, and what is queued depends only on the byte sent and on whether the one before was 0xE0 |
| `fat16` | The chains of the FAT never meet, never form a circle and never lead into free clusters (`ChainsDisjoint`), files share no cluster (`FilesDisjoint`), descriptors stay on their chains (`StaysOnChain`), chains change only at their end (`ChainsOnlyGrow`), and every call returns (`CallsReturn`); with stale descriptors, failing sectors and power failures |
| `memory` | While tasks are created, fork, exec, allocate and exit and memory runs out at every point: no frame has two uses (`FramesExclusive`); until a call reports an error no frame is lost (`NoFrameLost`) and no user page leads to a frame that nobody keeps for it (`NoDanglingPage`), stray pages of images apart |
| `modules` | Whatever objects are loaded, refused and unloaded while memory runs out, on four memory maps: every usable frame is free, in the list of one module, the page table or another's, exactly once (`FramesConserved`, which includes `pmm_init`); error paths leave no page mapped to a freed frame (`NoDanglingPage`); the module loaded last is mapped and filled as its object says (`NewestModuleIntact`) |
| `menu` | Keys act on what is on the screen (`ScreenInStep`), the prompt hands over only names FAT16 accepts (`NamesAccepted`), callbacks hold and return descriptors and blocks properly on every path (`ResourcesPaired`) |
| `blocking` (violated) | A task marked WAITING goes on executing: the trace is a read of an empty queue, which spins with interrupts off; a caller of `wait` whose child lives gets there too |
| `context_switch` (violated) | A preempted user task is resumed with instruction pointer, stack and segments exchanged |
| `idle_yield` (violated) | The `task_yield()` of `kernel_idle` can keep a ready task from the processor for ever: the next interrupt overwrites its context |
| `fork_tables` (violated) | After fork, exit and wait the identity-map table of the kernel and the page tables of the parent are free frames (`TablesPerTask`) |

Observed while modelling and not given a run: `wait(-1)`, which
`src/src/user/init.c:175` uses as "Wait for any child", always returns -1,
because `task_find_child` compares it with pids; a sleep whose end falls on tick 0 at the
wrap of `pit_ticks` gets `wake_tick = 0`, which means "no wake-up", so
`SleepersWake` is stated for `wake_tick # 0`; a sleep that crosses the wrap
ends at the next tick; a failed fork or task creation leaves its stack slot marked
used (`kernel/syscall.c:359`); `fat16_delete` frees no
clusters; a task that exits leaves its descriptors open; the exit of a child ends
a sleep of its parent, because `waiting_for_pid` is -1 from creation on
(`kernel/task.c:455`); fork maps the child's frames in the tables it shares
with the parent, so both translate to the child's frames from then on; a failed
task creation or fork keeps its page directory; an exec that fails
after `task_cleanup_user_resources` returns to a caller without its image (the
programs expect it to go on: `src/src/user/shell.c:111`), with freed frames still
mapped; `sys_alloc` of several pages with one free frame left, the first of a
process, unmaps through a missing page table and halts the kernel.

* Keyboard: `keyboard_count--` in the menu (`drivers/keyboard.c:106`) can lose the
  increment of an interrupt; the stored key is then not counted.
* Fat16: a write that ends exactly at the end of a cluster makes the next one
  through the descriptor overwrite that cluster, and the size exceeds what the chain
  holds (`kernel/fat16.c:860`); a close that fails keeps its descriptor, whose `fs`
  points into the stack frame of a callback that has returned.
* Modules: a second module is put over the first; after an unload nothing is freed,
  the slot is not used again and the module cannot be loaded anew ("already
  loaded"); that refusal unmaps pages of the module registered before, so the next
  search by name faults.
* Stale parents: reaping a task leaves the parent pointers of its children.  A forks B, B
  forks C, B exits and is reaped, A forks D, which gets B's table entry and sleeps; the
  exit of C then wakes D (`kernel/task.c:455`, commented "Wake parent if waiting").
* Heap: `kmalloc` of a size within 15 of 2^32 rounds it to 0 and hands out a block of no
  bytes (`kernel/malloc.c:81`).
* `Pmm`: regions of type 1 are rounded outwards and others never marked used, so a frame
  that is partly reserved is handed out; a region of type 1 with no bytes frees the frame
  it begins inside of, and at address 0 the end wraps and the whole bitmap is
  freed (`kernel/pmm.c:117`).
* Address spaces: `load_elf` maps at any `p_vaddr`, and the clean-up unmaps from 0x400000
  on (`kernel/task.c:74`).  After exec of an image with a gap or at another base, a second
  exec frees its frames and leaves the page mapped, with no error reported: without
  the exception for `stray`, `NoDanglingPage` fails.  `load_elf` also accepts
  addresses of the kernel, and `task_setup_user_stack` reads `argv` after the image
  that holds it is unmapped (`kernel/task.c:811`).
* Menu: "Back to Main Menu" makes the submenu the parent of the main menu; ESC at
  the root never ends the menu, since `menu_renderer_update` turns NULL into the same
  menu; arrow keys type the letters of their codes into the prompt; `menu_boot_os`
  announces an exit that does not happen.
* Contexts: resuming a kernel task leaves ESP 8 bytes low; `task_resume`
  loads EAX through ECX after ECX has its new value (`arch/i386/cpu.s:174`); results
  written to the saved registers after the save are lost when sleep or yield switch.

### Bounds

* Scheduler: three or four tasks, `kernel_idle` included.  Three are enough for a
  list with a head, a middle and a tail besides the running task only with a
  fourth, which `scheduler` has.  `MAX_PID` bounds the number of allocations,
  failed ones included; 6 allows a table entry and a stack slot to be used
  again after reaping.  The quantum is 1 or 2 (5 in the code) and `TICK_MOD` 3
  or 4 (2^32), so that quanta end and the tick count wraps while tasks sleep.
  `MS_MOD` 32 with `SleepMs` {0, 15, 28} gives a plain yield, two ticks, and
  an argument for which `ms + 9` wraps.  The liveness runs use three tasks.
* Heap: three pages of four units, and four frames, one of which becomes the page
  table.  Requests of 1, 2 and 4 units split chunks, use them whole, leave a
  remainder of exactly a header, and grow by one and by two pages; one of 250 bytes
  wraps.  Frames held by others make growth fail after none or one page was mapped.
* Fat16: two names, two directory entries, two descriptors, three clusters of two
  sectors, and reads and writes that span all three (`Counts`, `MAX_SIZE`): two
  chains can compete for the last cluster, entries and descriptors are reused, and
  failures stop a call at every position.
* AddressSpace: three tasks, twelve frames, two pages of code and of heap, and
  five calls (`MAX_CALLS`; six in `fork_tables`).  The eight images have no page,
  one, two and one too many, a gap, another base, two segments in one page, and a page
  in the heap.  A process of one page takes six frames and its child
  four, so the twelve are exhausted within the second or third call, at each allocation of
  each handler depending on what came before; five calls are enough for creation,
  fork, exec of both processes or twice of one, and exit and wait.
* Keyboard: a ring of three (32 in the code) and seven bytes: the prefix, an
  arrow, its release, two letters, a key without character, a code beyond the
  table.
* Modules: frames of four bytes and a bitmap of ten, so that regions begin and end inside
  frames, at the kernel image and beyond the bitmap; one of the four memories leaves two
  usable frames, one has an empty region.  Eight objects: two good ones of the same name or not, one with
  gaps, one without a name, one with an unresolved symbol, one cut short, one too
  large, one with a bad header; two slots, three pages (`MAX_MODULE_PAGES`), one frame
  held by others (`MAX_OTHERS`).
* Menu: the keys are none, up, down, ENTER, ESC, a dot and one without meaning; up and
  down are letters in the prompt.  Names of two and one characters in a buffer of four
  stand for 8.3 in twelve: the buffer is as long as the longest name there too.  Two
  descriptors let tasks keep one or all from the callbacks.
* Context: three tasks, two of ring 3, and two values for registers and memory.

No symmetry is used: task indices are ordered (first free entry, wake-up in
table order).

### Fairness

`FairSpec` assumes weak fairness of `Tick` alone: the PIT keeps interrupting, and
no code outside handlers disables interrupts.  No task is assumed to make calls
or to give up the processor.  `IdleSpec` adds weak fairness of
`IdleYieldCall`: `kernel_idle` reaches the end of its round while it has
the processor.  `Fat16!FairSpec` assumes that a read or
write that has begun is carried on, since nothing else can run meanwhile.

## The proofs

Each theorem holds for every value of the constants that satisfies the `ASSUME`s of the
module it is about.  In each proof module a first theorem (`Invariance`, `MemoryStaysSound`,
`LoaderStaysSound`) states that the inductive invariant `Inv` holds, with one lemma per
action, and the theorems below follow from it.

| Module | Theorem | Property |
|---|---|---|
| `Scheduler_proofs` | `TypeCorrect` | `TypeOK` |
| | `ReadyListCorrect` | `ReadyListOK` |
| | `ProcessorRunsCurrent` | `RunsCurrent` |
| | `StacksAreOwned` | `StackSlotsOwned` |
| | `ChildrenBelong` | `ChildrenAreOurs` |
| | `DeadTasksStayDead` | `ZombiesStayDead` (action property) |
| | `FirstComeFirstServed` | `NoOvertaking` (action property) |
| `Heap_proofs` | `TypeCorrect` | `TypeOK` |
| | `ListStaysInOrder` | `ListInOrder` |
| | `CoalescingIsComplete` | `NoFreeNeighbours` |
| | `BlocksAreInUse` | `BlocksInUse` |
| | `BlocksAreLargeEnough` | `BlocksLargeEnough` |
| | `FramesAreConserved` | `FramesConserved` |
| | `HeapImplementsAllocator` | `Implements` (refinement of `Allocator`) |
| `Keyboard_proofs` | `TypeCorrect` | `TypeOK` |
| | `RingStaysInStep` | `RingInStep` |
| | `RingImplementsQueue` | `ImplementsQueue` (refinement of `EventQueue`) |
| | `KeysQueuedCorrectly` | `KeysAreQueued` (action property) |
| `Fat16_proofs` | `TypeCorrect` | `TypeOK` |
| | `ChainsStayDisjoint` | `ChainsDisjoint` |
| | `FilesStayDisjoint` | `FilesDisjoint` |
| | `FilesStayOnChain` | `StaysOnChain` |
| | `ChainsGrowAtTheEnd` | `ChainsOnlyGrow` (action property) |
| `Menu_proofs` | `TypeCorrect` | `TypeOK` |
| | `ScreenStaysInStep` | `ScreenInStep` |
| | `NamesAreAccepted` | `NamesAccepted` |
| | `ResourcesArePaired` | `ResourcesPaired` |
| `AddressSpace_proofs` | `TypeCorrect` | `TypeOK` |
| | `FramesStayExclusive` | `FramesExclusive` |
| | `NoFrameIsLost` | `NoFrameLost` |
| | `NoPageDangles` | `NoDanglingPage` |
| `ModuleLoader_proofs` | `TypeCorrect` | `TypeOK` |
| | `FramesAreConserved` | `FramesConserved` |
| | `NoPageDangles` | `NoDanglingPage` |
| | `NewestStaysIntact` | `NewestModuleIntact` |

### Scheduler

`Inv` is the five state properties and three facts they rest on.  `IdleRunnable`:
`kernel_idle` is ready or running, so the list is not empty when a task stops, and
`task_select_next` finds someone.  Without it a task that sleeps with an empty list would
keep the processor while marked WAITING.  `BuildingReady`: the task the menu is creating
is READY and neither current nor in the list, so enqueueing it is sound whatever happened
since its allocation.  `QuantumLeft`: the tick count of the running task is below the
quantum, so that counting never leaves its range.  The lemma of each action (`TickInv`,
`SleepInv`, ...) also says what the step does to zombies and to the order of the list;
what handlers share is in `SwitchInv`.

The first part of `Scheduler_proofs` is about the pointer code of `ReadyList`: enqueueing a task that is not
in the list, removing the head, linking a batch and clearing the links of a task outside
the list each turn a list of `S` into a list of the expected set.  That a list is acyclic
is expressed by a function `ahead` that gives for each task the tasks in front of it
(`Ordered`); each lemma exhibits this function for the new list.  `AheadOfIs` shows that
`ahead` is what following `next` from the head finds, which is how `NoOvertaking` defines
it.  The model wakes tasks with the loop of `task_wake_waiting_tasks` (`WakeLoop`); the
proof replaces it by a closed form, `EnqueueAll`, which `WakeLoopIs` shows equal to it,
round by round.

### Induction

Walks along links and scans of tables are recursive functions over an interval `0..N`, and
the library's induction theorems cannot be instantiated here.  `BoundedInduction` states
what is needed with sets and functions in place of predicates: a set that holds 0 and with
each round the next holds all of `0..N` (`LoopInduction`, from the well-foundedness of the
naturals); a loop has a run, so the recursive function that describes it exists and satisfies
its equation (`LoopRuns`); a walk of more steps than there are places comes back somewhere
(`WalkReturns`, the pigeonhole principle).  The last gives that an acyclic chain
ends before the walk does.

### Heap

`Inv` says that the chunks tile the region in list order and that some chunk is the last
one (`Tiled`), that no two free chunks are neighbours (`Alternate`), that the chunks in
use are the blocks handed out and have the units their request was rounded to
(`OwnedOK`), and that each frame is in one place (`FramesOK`).  "Some chunk is the last"
is what `expand_heap` needs to find the end of the list; the units of a block are needed for
the refinement, since the size asked for bounds nothing when rounding wraps; and
`BlocksLargeEnough` is stated for requests that do not wrap, as for the others it is false.
The loop of `expand_heap` is followed by induction: after `i` rounds the pages taken so far
map the frames taken so far, these come out of the pool, and the page table is there; what
the rollback restores is read off from that.
`HeapImplementsAllocator` maps the blocks of `Allocator` to the chunks in use.

### Keyboard

`RingInStep` is inductive with the types and the fact that `extended_prefix` remembers
whether the last byte was 0xE0.  The refinement maps the ring to the sequence that starts
at the tail (`Pending`); the lemmas on remainders (`RingIndex`, `SlotFacts`) show that a
store at the head appends to it and a read removes its first element.

### Fat16

Reachability along the FAT is not inductive; what `Inv` has in its place is that two
functions exist.  `rank` numbers the clusters so that links lead upwards (`LinksOK`): linking
a new cluster gives it a number above that of the old end, so there is no cycle.  `home`
assigns each cluster the directory entry for which it was first allocated (`HomesOK`), and
links, first clusters and descriptors respect it.  It never changes for an allocated
cluster, because `fat16_delete` frees none: that is why a stale descriptor, closed
after its entry was deleted and given to another file, writes a chain into the entry that no other
entry refers to.  The rest says that what is referred to is allocated (`DirOK`,
`StaysOnChain`), that files of some size have a first cluster (`FilesOK`), and where a
read or write is (`CallOK`): what is left fits, the cluster to be extended is an end, and
the new one has no link to it yet.  `ChainWithin`, `ChainGrows` and `ChainNext` carry
this to chains as `Chain` defines them.

### Menu

`ScreenOK` states what the redraw and display flags mean in each phase, `HeldOK` at which
positions of which callback a descriptor or block is held, `NameOK` that the buffer
has at most one dot, not in front, and that `input_has_dot` says so.

### AddressSpace

The properties are far from inductive, because fork copies directory entries: parent and
child then map their pages in the same tables, and a page one task unmaps may be one the
other had mapped.  The invariant speaks of three sets a handler carries from call to
call.  `D` are the directories, `O` the frames somebody owns, and `C` the claims, saying
which page of which directory a task believes to map which frame.  `Sound` holds on every
path, errors included: directories are owned, what is owned is in use, a table that a
directory links is in use and owned by nobody.  `Exact` and `Backed` hold until an error is
reported: nothing else is in use, and every page that is mapped is a claim,
of a task or of `stray`.
The converse, that every claim is mapped, is false, as another task may have mapped
over it; the proof does not need it.  Each function of `vmm.c` has a lemma that says
how it changes the three sets.  The loops of the handlers (`AllocPages`,
`LoadElf`) are recursive functions; their lemmas go by `LoopInduction`, with the claims of
the first `k` pages after `k` rounds, which for `LoadElf` are at the places the image
gives; what the next clean-up does not unmap of them goes into `stray`.  The lemma of a reap is short: it frees the table
of low memory, which the kernel's directory still links, so `ok` becomes FALSE.

### Pmm and ModuleLoader

`ModuleLoader_proofs` begins with `pmm_init`.  `FrameBounds`, `Touches` and `EndFrameIs` relate
the division by `PAGE_SIZE` to bytes, `InitFree` concludes that the frames marked free
are those the byte-level reference calls usable, and `PmmInitMeans` that `total_frames`
stays within the bitmap.  That needs what `PmmAssumption` says of the boot loader: the
buffer of the memory map lies below the end of the bitmap.  `pmm_init` does not check it,
and without it the claim is false.  `LowestFramesUse` shows that `n` calls of
`pmm_alloc_frame` return `n` different frames if there are as many.

`Inv` has four parts.  `Divided`: the usable frames are divided between the bitmap, the
rest of the kernel, the page table and the lists of the entries that count.  `Loading`: a
call has a slot, and the sections before its own are laid out (`Laid`): each at its
aligned offset, mapped to its frames in order, holding its image.  `Newest` is the same
for a registered module.  `Mapped`: without gaps, a page that is mapped maps a frame
of a registered module or is one the call in progress would unmap, by counting its
frames from the base.  `Loading` is what carries `NewestModuleIntact` through the many steps
of a load, and `Mapped` why unmapping by counting is right without gaps.  That
alignments are powers of two, as ELF demands, is part of the description of an object;
the code relies on it too.

### Only model-checked

* Liveness (`NoStarvation`, `SleepersWake`, `CallsReturn`): fairness is
  out of the prover's reach.
* The violation runs are counterexamples and need no proof.

## Not modelled

* Interrupts between the assignments of `task_enqueue`, `task_alloc` and
  `task_yield` when `kernel_idle` executes them.
* The contents of pages, access flags, the TLB, the kernel half of directories apart
  from the temporary mapping.
* Interrupts while the menu creates a task: `vmm_map_page_for_pdt` switches
  directories with interrupts enabled.
* Interrupts during the menu's calls of the file system, the geometry that
  `fat16_mount` computes, the contents of sectors, the disk controller.
* Interrupts during the menu's read of the keyboard.
* The headers, symbols and relocations of objects and programs: only whether they are
  accepted.
* Descriptor tables, PIC and PIT programming.
* Output (terminal, serial port, log), libc, the two small kernels beside the
  monolithic one.

## Plan

Every invariant, action property and refinement of the passing runs, apart from liveness,
is proved.  What could follow:

1. `IdleRace`: the list, allocation and keyboard code of `kernel_idle` assignment by
   assignment, with the handlers in between; abstract specification: the
   atomic operations of `ReadyList`.
2. Composition of `AddressSpace` and `Fat16` with the menu's interruptible calls,
   and of `AddressSpace` with `Scheduler`'s fork and wait.
3. A property relating the position of a FAT16 descriptor to its current cluster, for
   what happens at the end of a cluster.
