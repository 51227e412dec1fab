--------------------------------- MODULE Menu ---------------------------------
(***************************************************************************)
(* kernel/menu_renderer.c and kernel/menu_main.c: the menu that            *)
(* kernel_idle draws and reads keys for, frame by frame, and the callbacks *)
(* of its items.  A frame is one call of menu_renderer_update: it draws,   *)
(* then reads at most one key.  Callbacks run with interrupts enabled, so  *)
(* between their calls to the file system and the heap tasks open and      *)
(* close files of their own.                                               *)
(*                                                                         *)
(* Keys are character codes, as keyboard_get_event returns them; 0 is no   *)
(* key.  Of the screen only this is kept: a menu with its selection, the   *)
(* text of a callback, or the prompt for a file name.                      *)
(***************************************************************************)
EXTENDS Naturals, Sequences, FiniteSets, SequencesExt

CONSTANTS
  Keys,             \* the keys pressed
  MAX_INPUT,        \* 12: input_buffer has room for one more
  NAME_MAX,         \* 8
  EXT_MAX,          \* 3
  MAX_OPEN_FILES    \* FAT16_MAX_OPEN_FILES

ASSUME MenuAssumption ==
  /\ Keys \subseteq 0..127 /\ 0 \in Keys
  /\ {MAX_INPUT, NAME_MAX, EXT_MAX, MAX_OPEN_FILES} \subseteq Nat \ {0}

VARIABLES
  menu,                     \* the menu kernel_idle holds
  current_selection, parent,
  last_menu, last_selection, needs_redraw,
  callback_display_active, callback_menu,
  input_mode, input_buffer, input_has_dot,
  screen,
  phase,                    \* of a frame: drawing, or reading a key
  job,                      \* the callback that runs and where it is
  fd, buffer,               \* what it holds: a file descriptor, a heap block
  stuck, others,            \* descriptors left open by a close that failed; of tasks
  created,                  \* history: the name given to fat16_create in this frame
  halted

navigation == <<menu, current_selection, parent>>
drawing    == <<last_menu, last_selection, needs_redraw, screen>>
display    == <<callback_display_active, callback_menu>>
prompt     == <<input_mode, input_buffer, input_has_dot, created>>
held       == <<fd, buffer, stuck>>
vars       == <<navigation, drawing, display, prompt, phase, job, held, others, halted>>

-----------------------------------------------------------------------------
(* The menus.  An item is the name of a menu, or that of a callback.       *)
Menus == {"main", "disk", "info"}
NULL  == "NULL"

Items ==
  [ main |-> <<"boot_os", "disk", "info", "list_tasks", "run_hello_world",
               "run_disk_hello", "memory_test", "shutdown">>,
    disk |-> <<"disk_test", "disk_write_test", "list_files", "create_file",
               "delete_file", "main">>,
    info |-> <<"cpu_details", "memory_map", "interrupt_table", "device_list", "main">> ]

(* A callback is a program: the calls it makes that can fail or that take  *)
(* or return something, each with the step that follows when it succeeds   *)
(* and when it fails.  Step 0 is the return.  Loops that only fill lines   *)
(* of the screen are left out, the one of menu_run_hello_world that prints *)
(* an error and lets its index start again included.                       *)
Op(name, ok, no) == [op |-> name, ok |-> ok, no |-> no]

BootOs         == << >>
ListTasks      == << >>
CpuDetails     == << >>
MemoryMap      == << >>
InterruptTable == << >>
DeviceList     == << >>
HeapTest       == << Op("kmalloc", 2, 0), Op("kfree", 0, 0) >>
MemoryTest     == HeapTest
Shutdown       == << Op("halt", 0, 0) >>
RunHelloWorld  == << Op("task_create", 0, 0) >>
ListFiles      == << Op("mount", 2, 0), Op("list_root", 0, 0) >>
CreateFile     == << Op("prompt", 0, 0) >>
DeleteFile     == << Op("mount", 2, 0), Op("delete", 0, 0) >>

(* A slip: the descriptor is not closed when there is no buffer.           *)
RunDiskHelloLeak ==
  << Op("open", 2, 0), Op("kmalloc", 3, 0), Op("read", 4, 6),
     Op("close", 5, 5), Op("task_create", 7, 7),
     Op("close", 7, 7), Op("kfree", 0, 0) >>

(* The descriptor is closed and then the result of the read is looked at.  *)
RunDiskHello ==
  << Op("open", 2, 0), Op("kmalloc", 3, 8), Op("read", 4, 6),
     Op("close", 5, 5), Op("task_create", 7, 7),
     Op("close", 7, 7), Op("kfree", 0, 0),
     Op("close", 0, 0) >>

(* Four names are tried.                                                   *)
DiskTest ==
  << Op("mount", 2, 0),
     Op("open", 6, 3), Op("open", 6, 4), Op("open", 6, 5), Op("open", 6, 0),
     Op("read", 7, 7), Op("close", 0, 0) >>

DiskWriteTest ==
  << Op("mount", 2, 0), Op("open", 5, 3), Op("create", 4, 0), Op("open", 5, 0),
     Op("write", 7, 6), Op("close", 0, 0),
     Op("close", 8, 0), Op("open", 9, 0), Op("read", 10, 10), Op("close", 0, 0) >>

Program ==
  [ boot_os |-> BootOs, list_tasks |-> ListTasks, run_hello_world |-> RunHelloWorld,
    run_disk_hello |-> RunDiskHello, memory_test |-> MemoryTest, shutdown |-> Shutdown,
    disk_test |-> DiskTest, disk_write_test |-> DiskWriteTest, list_files |-> ListFiles,
    create_file |-> CreateFile, delete_file |-> DeleteFile,
    cpu_details |-> CpuDetails, memory_map |-> MemoryMap,
    interrupt_table |-> InterruptTable, device_list |-> DeviceList ]
Callbacks == DOMAIN Program
NoJob     == [callback |-> NULL, at |-> 0]

-----------------------------------------------------------------------------
(* What is on the screen.                                                  *)
Picture(m, sel) == [shows |-> "menu", of |-> m, selected |-> sel]
Text(c)         == [shows |-> "text", of |-> c, selected |-> 0]
Prompt          == [shows |-> "prompt", of |-> "create_file", selected |-> 0]

Init ==
  /\ menu = "main"
  /\ current_selection = [m \in Menus |-> 0]
  /\ parent = [main |-> NULL, disk |-> "main", info |-> "main"]
  /\ last_menu = NULL /\ last_selection = 0 /\ needs_redraw = TRUE
  /\ callback_display_active = FALSE /\ callback_menu = NULL
  /\ input_mode = FALSE /\ input_buffer = << >> /\ input_has_dot = FALSE
  /\ created = << >>
  /\ screen = Text(NULL)
  /\ phase = "draw" /\ job = NoJob
  /\ fd = "none" /\ buffer = FALSE /\ stuck = 0 /\ others = 0
  /\ halted = FALSE

selection == current_selection[menu]
item      == Items[menu][selection + 1]

(* menu_renderer_update up to the key: nothing is drawn over the text of a *)
(* callback.                                                               *)
Draw ==
  /\ ~halted /\ phase = "draw" /\ job = NoJob
  /\ phase' = "input"
  /\ IF /\ ~callback_display_active
        /\ needs_redraw \/ last_menu # menu \/ last_selection # selection
     THEN /\ screen' = Picture(menu, selection)
          /\ last_menu' = menu /\ last_selection' = selection
          /\ needs_redraw' = FALSE
     ELSE UNCHANGED drawing
  /\ created' = << >>
  /\ UNCHANGED <<navigation, display, input_mode, input_buffer, input_has_dot,
                 job, held, others, halted>>

(* The rest of it, after the key: `next` is what handle_input returned,    *)
(* `active` and `redraw` what it left in the flags.  (NULL, at the root,   *)
(* keeps the menu.)                                                        *)
EndUpdate(next, sel, active, redraw) ==
  LET moved == next # menu \/ sel[menu] # last_selection
  IN  /\ menu' = IF next = NULL THEN menu ELSE next
      /\ current_selection' = sel
      /\ needs_redraw' = (redraw \/ moved)
      /\ callback_display_active' = (active /\ ~moved)
      /\ phase' = "draw"
      /\ UNCHANGED <<last_menu, last_selection>>

Unmoved == EndUpdate(menu, current_selection, callback_display_active, needs_redraw)

Reading == ~halted /\ phase = "input" /\ job = NoJob

NoKey ==
  /\ Reading
  /\ Unmoved
  /\ UNCHANGED <<parent, screen, callback_menu, prompt, job, held, others, halted>>

UpKeys    == {72, 75, 119, 87, 97, 65}       \* KEY_UP, KEY_LEFT, w, W, a, A
DownKeys  == {80, 77, 115, 83, 100, 68}      \* KEY_DOWN, KEY_RIGHT, s, S, d, D
EnterKeys == {10, 13}
ESC       == 27
DOT       == 46

-----------------------------------------------------------------------------
(* process_filename_input, while input_mode is set.                        *)
ValidChar(c) == c \in 65..90 \cup 97..122 \cup 48..57 \cup {DOT, 95}
Upper(c)     == IF c \in 97..122 THEN c - 32 ELSE c

(* The position of the first dot; 0 if there is none.                      *)
Dot(s) == IF \E i \in 1..Len(s) : s[i] = DOT
          THEN CHOOSE i \in 1..Len(s) : s[i] = DOT /\ \A j \in 1 .. i - 1 : s[j] # DOT
          ELSE 0
WellFormed(s) ==
  IF Dot(s) = 0 THEN Len(s) <= NAME_MAX
  ELSE Dot(s) - 1 <= NAME_MAX /\ Len(s) - Dot(s) <= EXT_MAX

(* The prompt is left.  The buffer is not looked at again before           *)
(* menu_create_file clears it; here it is cleared at once.                 *)
PromptEnds ==
  /\ input_mode' = FALSE
  /\ input_buffer' = << >> /\ input_has_dot' = FALSE
  /\ screen' = Text("create_file")

(* Enter: an empty name is ignored, a bad one is asked for again, and the  *)
(* file is created unless mounting or creating fails.                      *)
PromptEnter ==
  /\ input_buffer # << >>
  /\ IF WellFormed(input_buffer)
     THEN /\ \E mounted \in BOOLEAN :
               created' = IF mounted THEN input_buffer ELSE << >>
          /\ PromptEnds
     ELSE /\ input_buffer' = << >> /\ input_has_dot' = FALSE
          /\ screen' = Prompt
          /\ UNCHANGED <<input_mode, created>>

PromptEscape == PromptEnds /\ UNCHANGED created

(* A slip: a second dot is accepted.                                       *)
PromptCharAnyDots(key) ==
  /\ Len(input_buffer) < MAX_INPUT /\ ValidChar(key)
  /\ key = DOT => input_buffer # << >>
  /\ input_buffer' = Append(input_buffer, Upper(key))
  /\ input_has_dot' = (input_has_dot \/ key = DOT)
  /\ UNCHANGED <<input_mode, screen, created>>

(* A character is appended; no dot at the start, and only one.             *)
PromptChar(key) ==
  /\ Len(input_buffer) < MAX_INPUT /\ ValidChar(key)
  /\ key = DOT => ~input_has_dot /\ input_buffer # << >>
  /\ input_buffer' = Append(input_buffer, Upper(key))
  /\ input_has_dot' = (input_has_dot \/ key = DOT)
  /\ UNCHANGED <<input_mode, screen, created>>

PromptKey(key) ==
  /\ Reading /\ input_mode
  /\ \/ key \in EnterKeys /\ PromptEnter
     \/ key = ESC /\ PromptEscape
     \/ key \notin EnterKeys \cup {ESC} /\ PromptChar(key)
  /\ Unmoved
  /\ UNCHANGED <<parent, callback_menu, job, held, others, halted>>

-----------------------------------------------------------------------------
(* A slip: the menu is not asked to be drawn again.                        *)
DismissNoRedraw ==
  /\ Reading /\ ~input_mode /\ callback_display_active
  /\ EndUpdate(IF callback_menu = NULL THEN menu ELSE callback_menu,
               current_selection, FALSE, needs_redraw)
  /\ callback_menu' = NULL
  /\ UNCHANGED <<parent, screen, prompt, job, held, others, halted>>

(* ESC ends the display of a callback; other keys are ignored meanwhile.   *)
Dismiss ==
  /\ Reading /\ ~input_mode /\ callback_display_active
  /\ EndUpdate(IF callback_menu = NULL THEN menu ELSE callback_menu,
               current_selection, FALSE, TRUE)
  /\ callback_menu' = NULL
  /\ UNCHANGED <<parent, screen, prompt, job, held, others, halted>>

Choosing == Reading /\ ~input_mode /\ ~callback_display_active

(* A slip: the last item is passed.                                        *)
NavigateTooFar(key) ==
  /\ Choosing
  /\ LET sel == IF key \in UpKeys THEN (IF selection > 0 THEN selection - 1 ELSE 0)
                ELSE IF selection < Len(Items[menu]) THEN selection + 1 ELSE selection
     IN  EndUpdate(menu, [current_selection EXCEPT ![menu] = sel], FALSE, needs_redraw)
  /\ UNCHANGED <<parent, screen, callback_menu, prompt, job, held, others, halted>>

Navigate(key) ==
  /\ Choosing
  /\ LET sel == IF key \in UpKeys THEN (IF selection > 0 THEN selection - 1 ELSE 0)
                ELSE IF selection < Len(Items[menu]) - 1 THEN selection + 1 ELSE selection
     IN  EndUpdate(menu, [current_selection EXCEPT ![menu] = sel], FALSE, needs_redraw)
  /\ UNCHANGED <<parent, screen, callback_menu, prompt, job, held, others, halted>>

(* ENTER on a submenu; its selection and its parent are set anew.          *)
EnterSubmenu ==
  /\ Choosing /\ item \in Menus
  /\ parent' = [parent EXCEPT ![item] = menu]
  /\ EndUpdate(item, [current_selection EXCEPT ![item] = 0], FALSE, needs_redraw)
  /\ UNCHANGED <<screen, callback_menu, prompt, job, held, others, halted>>

(* ENTER on a callback, which first shows its title.                       *)
EnterCallback ==
  /\ Choosing /\ item \in Callbacks
  /\ job' = [callback |-> item, at |-> IF Program[item] = << >> THEN 0 ELSE 1]
  /\ screen' = Text(item)
  /\ UNCHANGED <<navigation, last_menu, last_selection, needs_redraw, display,
                 prompt, phase, held, others, halted>>

(* ESC in a menu: to its parent; at the root nothing is left to do.        *)
Escape ==
  /\ Choosing
  /\ EndUpdate(parent[menu], current_selection, FALSE, needs_redraw)
  /\ UNCHANGED <<parent, screen, callback_menu, prompt, job, held, others, halted>>

-----------------------------------------------------------------------------
Running == ~halted /\ job # NoJob
op      == Program[job.callback][job.at]
Goto(n) == job' = [job EXCEPT !.at = n]

(* The outcomes a call may have: a descriptor has to be free for open; and *)
(* close fails when it has a directory entry to write and cannot.          *)
Outcomes ==
  CASE op.op = "open"  -> IF others + stuck + (IF fd = "none" THEN 0 ELSE 1) < MAX_OPEN_FILES
                          THEN {TRUE, FALSE} ELSE {FALSE}
    [] op.op = "close" -> IF fd = "modified" THEN {TRUE, FALSE} ELSE {TRUE}
    [] op.op \in {"kfree", "prompt", "halt"} -> {TRUE}
    [] OTHER -> {TRUE, FALSE}

(* One call of the callback.                                               *)
Step ==
  /\ Running /\ job.at # 0
  /\ \E ok \in Outcomes :
       /\ Goto(IF ok THEN op.ok ELSE op.no)
       /\ fd' = CASE op.op = "open" /\ ok  -> "clean"
                  [] op.op = "write" /\ ok -> "modified"
                  [] op.op = "close"       -> "none"
                  [] OTHER                 -> fd
       /\ stuck' = IF op.op = "close" /\ ~ok THEN stuck + 1 ELSE stuck
       /\ buffer' = CASE op.op = "kmalloc" -> ok
                      [] op.op = "kfree"   -> FALSE
                      [] OTHER             -> buffer
  /\ halted' = (op.op = "halt")
  /\ IF op.op = "prompt"
     THEN /\ input_mode' = TRUE /\ input_buffer' = << >> /\ input_has_dot' = FALSE
          /\ screen' = Prompt /\ UNCHANGED created
     ELSE UNCHANGED <<prompt, screen>>
  /\ UNCHANGED <<navigation, last_menu, last_selection, needs_redraw, display,
                 phase, others>>

(* The callback returns to handle_input, and this to update.               *)
Return ==
  /\ Running /\ job.at = 0
  /\ job' = NoJob
  /\ callback_menu' = menu
  /\ EndUpdate(menu, current_selection, TRUE, needs_redraw)
  /\ UNCHANGED <<parent, screen, prompt, held, others, halted>>

(* Tasks open files and close them.                                        *)
Others ==
  /\ ~halted
  /\ \/ /\ others + stuck + (IF fd = "none" THEN 0 ELSE 1) < MAX_OPEN_FILES
        /\ others' = others + 1
     \/ others > 0 /\ others' = others - 1
  /\ UNCHANGED <<navigation, drawing, display, prompt, phase, job, held, halted>>

Key(key) ==
  \/ key # 0 /\ PromptKey(key)
  \/ key = ESC /\ Dismiss
  \/ key \in UpKeys \cup DownKeys /\ Navigate(key)
  \/ key \in EnterKeys /\ (EnterSubmenu \/ EnterCallback)
  \/ key = ESC /\ Escape

Next == Draw \/ NoKey \/ (\E key \in Keys : Key(key)) \/ Step \/ Return \/ Others

Spec == Init /\ [][Next]_vars

-----------------------------------------------------------------------------
(* The variables have the shapes the code gives them; the selection of     *)
(* every menu is one of its items, and a name fits in input_buffer.        *)
TypeOK ==
  /\ menu \in Menus
  /\ \A m \in Menus : current_selection[m] \in 0 .. Len(Items[m]) - 1
  /\ parent \in [Menus -> Menus \cup {NULL}]
  /\ last_menu \in Menus \cup {NULL} /\ last_selection \in Nat
  /\ {needs_redraw, callback_display_active, input_mode, input_has_dot, buffer, halted}
       \subseteq BOOLEAN
  /\ callback_menu \in Menus \cup {NULL}
  /\ Len(input_buffer) <= MAX_INPUT /\ Len(created) <= MAX_INPUT
  /\ phase \in {"draw", "input"}
  /\ job.callback \in Callbacks \cup {NULL}
  /\ fd \in {"none", "clean", "modified"}
  /\ stuck \in 0..MAX_OPEN_FILES /\ others \in 0..MAX_OPEN_FILES

(* What the user sees when a key is read is what the key acts on: the menu *)
(* with its selection; or the text of a callback, which only ESC ends; or  *)
(* the prompt, which takes the key as a character.  The code keeps this in *)
(* step with five flags, set in different functions and frames.            *)
ScreenInStep ==
  Reading =>
    IF callback_display_active
    THEN /\ screen.shows = IF input_mode THEN "prompt" ELSE "text"
         /\ screen.of = Items[callback_menu][current_selection[callback_menu] + 1]
         /\ callback_menu = menu
    ELSE screen = Picture(menu, selection) /\ ~input_mode

(* What fat16_normalize_short_name accepts: it counts characters before    *)
(* and after the dot as it goes, and gives up at a second dot.             *)
Normalizes(path) ==
  LET dots == {i \in 1..Len(path) : path[i] = DOT}
      name == {i \in 1..Len(path) : path[i] # DOT /\ \A d \in dots : i < d}
      ext  == {i \in 1..Len(path) : path[i] # DOT /\ \E d \in dots : d < i}
  IN  /\ Cardinality(dots) <= 1
      /\ Cardinality(name) \in 1..NAME_MAX
      /\ Cardinality(ext) <= EXT_MAX

(* Whatever is typed, the name the prompt hands to fat16_create is one     *)
(* that fat16.c accepts: the checks made key by key and those made at      *)
(* ENTER, over several attempts, together imply the file system's own.     *)
NamesAccepted == created # << >> => Normalizes(created)

(* A callback works only with what it holds, never takes a second          *)
(* descriptor or block before it has returned the first, and has returned  *)
(* both on every path when it ends, whichever of its calls failed.  (A     *)
(* descriptor whose close fails stays open: fat16_close keeps it.)         *)
ResourcesPaired ==
  /\ Running /\ job.at # 0 =>
       /\ op.op \in {"read", "write", "close"} => fd # "none"
       /\ op.op = "open" => fd = "none"
       /\ op.op = "kmalloc" => ~buffer
       /\ op.op = "kfree" => buffer
  /\ job.at = 0 => fd = "none" /\ ~buffer
=============================================================================
