----------------------------- MODULE Menu_proofs -----------------------------
(***************************************************************************)
(* Proofs about Menu, for any keys, any lengths of names and any number of *)
(* file descriptors.                                                       *)
(***************************************************************************)
EXTENDS Menu, FiniteSetTheorems, SequenceTheorems, TLAPS

(* Every item of a menu is a menu or a callback.                           *)
LEMMA ItemFacts ==
  ASSUME NEW m \in Menus
  PROVE  /\ Len(Items[m]) \in Nat \ {0}
         /\ \A i \in 0 .. Len(Items[m]) - 1 : Items[m][i + 1] \in Menus \cup Callbacks
<1>1. CASE m = "main"
  BY <1>1 DEF Items, Menus, Callbacks, Program
<1>2. CASE m = "disk"
  BY <1>2 DEF Items, Menus, Callbacks, Program
<1>3. CASE m = "info"
  BY <1>3 DEF Items, Menus, Callbacks, Program
<1> QED BY <1>1, <1>2, <1>3 DEF Menus

(* The calls a callback makes while it holds a descriptor, and while it    *)
(* holds a heap block.                                                     *)
HoldsFd ==
  {"run_disk_hello"} \X {2, 3, 4, 6, 8}
    \cup {"disk_test"} \X {6, 7}
    \cup {"disk_write_test"} \X {5, 6, 7, 9, 10}

HoldsBuffer == {"run_disk_hello"} \X {3, 4, 5, 6, 7} \cup {"memory_test"} \X {2}

(* A call of a callback takes and returns what those sets say, and the     *)
(* step it goes to is one of the callback.                                 *)
OpOK(c, n, o) ==
  LET f == <<c, n>> \in HoldsFd
      b == <<c, n>> \in HoldsBuffer
  IN  /\ {o.ok, o.no} \subseteq 0 .. Len(Program[c])
      /\ o.op \in {"read", "write", "close"} => f
      /\ o.op = "open" => ~f
      /\ o.op = "kmalloc" => ~b
      /\ o.op = "kfree" => b
      /\ <<c, o.ok>> \in HoldsFd <=> o.op = "open" \/ (f /\ o.op # "close")
      /\ <<c, o.no>> \in HoldsFd <=> f /\ o.op # "close"
      /\ <<c, o.ok>> \in HoldsBuffer <=> o.op = "kmalloc" \/ (b /\ o.op # "kfree")
      /\ o.op # "kfree" => (<<c, o.no>> \in HoldsBuffer <=> b)
      /\ o.op = "prompt" => c = "create_file" /\ o.ok = 0
      /\ o.op \in {"kmalloc", "kfree", "halt", "task_create", "mount", "list_root", "prompt",
                   "delete", "open", "read", "close", "create", "write"}

(* Which holds of every call of every callback.                            *)
LEMMA ProgramsPaired ==
  \A c \in Callbacks : /\ Len(Program[c]) \in Nat
                       /\ \A n \in 1 .. Len(Program[c]) : OpOK(c, n, Program[c][n])
<1> SUFFICES ASSUME NEW c \in Callbacks
             PROVE  /\ Len(Program[c]) \in Nat
                    /\ \A n \in 1 .. Len(Program[c]) : OpOK(c, n, Program[c][n])
  OBVIOUS
<1> DEFINE P == Program[c]
<1>1. ASSUME P = << >> PROVE Len(P) \in Nat /\ \A n \in 1 .. Len(P) : OpOK(c, n, P[n])
  BY <1>1
<1>2. CASE c = "memory_test"
  <2>1. P = MemoryTest /\ Len(MemoryTest) = 2
    BY <1>2 DEF Program, MemoryTest, HeapTest
  <2>2. \A n \in 1..2 : OpOK(c, n, MemoryTest[n])
    BY <1>2, <2>1 DEF OpOK, Op, HoldsFd, HoldsBuffer, MemoryTest, HeapTest
  <2> QED BY <2>1, <2>2
<1>3. CASE c = "shutdown"
  <2>1. P = Shutdown /\ Len(Shutdown) = 1
    BY <1>3 DEF Program, Shutdown
  <2>2. \A n \in 1..1 : OpOK(c, n, Shutdown[n])
    BY <1>3, <2>1 DEF OpOK, Op, HoldsFd, HoldsBuffer, Shutdown
  <2> QED BY <2>1, <2>2
<1>4. CASE c = "run_hello_world"
  <2>1. P = RunHelloWorld /\ Len(RunHelloWorld) = 1
    BY <1>4 DEF Program, RunHelloWorld
  <2>2. \A n \in 1..1 : OpOK(c, n, RunHelloWorld[n])
    BY <1>4, <2>1 DEF OpOK, Op, HoldsFd, HoldsBuffer, RunHelloWorld
  <2> QED BY <2>1, <2>2
<1>5. CASE c = "list_files"
  <2>1. P = ListFiles /\ Len(ListFiles) = 2
    BY <1>5 DEF Program, ListFiles
  <2>2. \A n \in 1..2 : OpOK(c, n, ListFiles[n])
    BY <1>5, <2>1 DEF OpOK, Op, HoldsFd, HoldsBuffer, ListFiles
  <2> QED BY <2>1, <2>2
<1>6. CASE c = "create_file"
  <2>1. P = CreateFile /\ Len(CreateFile) = 1
    BY <1>6 DEF Program, CreateFile
  <2>2. \A n \in 1..1 : OpOK(c, n, CreateFile[n])
    BY <1>6, <2>1 DEF OpOK, Op, HoldsFd, HoldsBuffer, CreateFile
  <2> QED BY <2>1, <2>2
<1>7. CASE c = "delete_file"
  <2>1. P = DeleteFile /\ Len(DeleteFile) = 2
    BY <1>7 DEF Program, DeleteFile
  <2>2. \A n \in 1..2 : OpOK(c, n, DeleteFile[n])
    BY <1>7, <2>1 DEF OpOK, Op, HoldsFd, HoldsBuffer, DeleteFile
  <2> QED BY <2>1, <2>2
<1>8. CASE c = "run_disk_hello"
  <2>1. P = RunDiskHello /\ Len(RunDiskHello) = 8
    BY <1>8 DEF Program, RunDiskHello
  <2>2. \A n \in 1..8 : OpOK(c, n, RunDiskHello[n])
    BY <1>8, <2>1 DEF OpOK, Op, HoldsFd, HoldsBuffer, RunDiskHello
  <2> QED BY <2>1, <2>2
<1>9. CASE c = "disk_test"
  <2>1. P = DiskTest /\ Len(DiskTest) = 7
    BY <1>9 DEF Program, DiskTest
  <2>2. \A n \in 1..7 : OpOK(c, n, DiskTest[n])
    BY <1>9, <2>1 DEF OpOK, Op, HoldsFd, HoldsBuffer, DiskTest
  <2> QED BY <2>1, <2>2
<1>10. CASE c = "disk_write_test"
  <2>1. P = DiskWriteTest /\ Len(DiskWriteTest) = 10
    BY <1>10 DEF Program, DiskWriteTest
  <2>2. \A n \in 1..10 : OpOK(c, n, DiskWriteTest[n])
    BY <1>10, <2>1 DEF OpOK, Op, HoldsFd, HoldsBuffer, DiskWriteTest
  <2> QED BY <2>1, <2>2
<1>11. CASE c \in {"boot_os", "list_tasks", "cpu_details", "memory_map", "interrupt_table", "device_list"}
  <2>1. P = << >>
    BY <1>11 DEF Program, BootOs, ListTasks, CpuDetails, MemoryMap, InterruptTable, DeviceList
  <2> QED BY <1>1, <2>1
<1> QED BY <1>2, <1>3, <1>4, <1>5, <1>6, <1>7, <1>8, <1>9, <1>10, <1>11 DEF Callbacks, Program

-----------------------------------------------------------------------------
(* The inductive invariant.  To the invariants of Menu it adds how the     *)
(* flags stand between two frames and while a callback runs, what each     *)
(* call of a callback holds, and what the prompt has let through so far.   *)
Types ==
  /\ menu \in Menus
  /\ current_selection \in [Menus -> Nat]
  /\ \A m \in Menus : current_selection[m] < Len(Items[m])
  /\ parent \in [Menus -> Menus \cup {NULL}]
  /\ last_menu \in Menus \cup {NULL} /\ last_selection \in Nat
  /\ needs_redraw \in BOOLEAN /\ callback_display_active \in BOOLEAN
  /\ input_mode \in BOOLEAN /\ input_has_dot \in BOOLEAN
  /\ buffer \in BOOLEAN /\ halted \in BOOLEAN
  /\ callback_menu \in Menus \cup {NULL}
  /\ phase \in {"draw", "input"}
  /\ fd \in {"none", "clean", "modified"}

ScreenOK ==
  /\ job # NoJob =>
       /\ phase = "input" /\ ~callback_display_active
       /\ job.callback = item /\ screen.of = item
       /\ screen.shows = IF input_mode THEN "prompt" ELSE "text"
       /\ input_mode => item = "create_file"
  /\ job = NoJob /\ callback_display_active =>
       /\ callback_menu = menu /\ screen.of = item
       /\ screen.shows = IF input_mode THEN "prompt" ELSE "text"
       /\ input_mode => item = "create_file"
  /\ job = NoJob /\ ~callback_display_active => ~input_mode
  /\ phase = "input" \/ callback_display_active =>
       last_menu = menu /\ last_selection = selection /\ ~needs_redraw
  /\ /\ job = NoJob /\ ~callback_display_active
     /\ ~needs_redraw /\ last_menu = menu /\ last_selection = selection
     => screen = Picture(menu, selection)

InUse == others + stuck + (IF fd = "none" THEN 0 ELSE 1)

HeldOK ==
  /\ others \in Nat /\ stuck \in Nat /\ InUse <= MAX_OPEN_FILES
  /\ job = NoJob => fd = "none" /\ ~buffer
  /\ job # NoJob =>
       /\ job \in [callback: Callbacks, at: Nat]
       /\ job.at <= Len(Program[job.callback])
       /\ fd # "none" <=> <<job.callback, job.at>> \in HoldsFd
       /\ buffer <=> <<job.callback, job.at>> \in HoldsBuffer

HasDot(s) == \E i \in 1..Len(s) : s[i] = DOT

Typed(s) ==
  /\ s \in Seq(Nat) /\ Len(s) <= MAX_INPUT
  /\ s # << >> => s[1] # DOT
  /\ \A i, j \in 1..Len(s) : s[i] = DOT /\ s[j] = DOT => i = j

NameOK ==
  /\ Typed(input_buffer) /\ (input_has_dot <=> HasDot(input_buffer))
  /\ Typed(created) /\ (created # << >> => WellFormed(created))

Inv == Types /\ ScreenOK /\ HeldOK /\ NameOK

(* The menu at boot.                                                       *)
LEMMA InitInv == Init => Inv
<1> SUFFICES ASSUME Init PROVE Inv
  OBVIOUS
<1>1. \A m \in Menus : Len(Items[m]) \in Nat \ {0}
  BY ItemFacts
<1>2. Types
  <2>1. current_selection \in [Menus -> Nat] /\ \A m \in Menus : current_selection[m] = 0
    BY DEF Init
  <2>2. \A m \in Menus : current_selection[m] < Len(Items[m])
    BY <1>1, <2>1
  <2>3. parent \in [Menus -> Menus \cup {NULL}]
    BY DEF Init, Menus
  <2> QED BY <2>1, <2>2, <2>3 DEF Init, Types, Menus
<1>3. ScreenOK
  BY DEF Init, ScreenOK
<1>4. HeldOK
  BY MenuAssumption DEF Init, HeldOK, InUse
<1>5. << >> \in Seq(Nat) /\ Len(<< >>) = 0
  OBVIOUS
<1>6. NameOK
  BY <1>5, MenuAssumption DEF Init, NameOK, Typed, HasDot
<1> QED BY <1>2, <1>3, <1>4, <1>6 DEF Inv

(* How a frame ends.                                                       *)
LEMMA EndsFrame ==
  ASSUME Types, ScreenOK, phase = "input",
         NEW next \in Menus \cup {NULL}, NEW sel \in [Menus -> Nat],
         \A m \in Menus : sel[m] < Len(Items[m]),
         NEW active \in BOOLEAN, NEW redraw \in BOOLEAN,
         EndUpdate(next, sel, active, redraw),
         active => next = menu /\ sel = current_selection
  PROVE  /\ menu' \in Menus /\ current_selection' \in [Menus -> Nat]
         /\ \A m \in Menus : current_selection'[m] < Len(Items[m])
         /\ last_menu' = menu /\ last_selection' = selection
         /\ needs_redraw' \in BOOLEAN /\ callback_display_active' \in BOOLEAN
         /\ phase' = "draw"
         /\ callback_display_active' <=> active
         /\ active => menu' = menu /\ selection' = selection /\ needs_redraw' = redraw
         /\ ~active /\ ~needs_redraw' => menu' = menu /\ selection' = selection /\ ~redraw
<1>1. last_menu = menu /\ last_selection = selection /\ ~needs_redraw /\ menu \in Menus
  BY DEF Types, ScreenOK
<1> DEFINE moved == next # menu \/ sel[menu] # last_selection
<1>2. /\ menu' = (IF next = NULL THEN menu ELSE next)
      /\ current_selection' = sel
      /\ needs_redraw' = (redraw \/ moved)
      /\ callback_display_active' = (active /\ ~moved)
      /\ phase' = "draw"
      /\ UNCHANGED <<last_menu, last_selection>>
  BY DEF EndUpdate
<1>3. NULL \notin Menus
  BY DEF NULL, Menus
<1>4. active => ~moved
  BY <1>1 DEF selection
<1>5. moved \in BOOLEAN
  OBVIOUS
<1>6. ~moved => menu' = menu /\ selection' = selection
  BY <1>1, <1>2, <1>3 DEF selection
<1> HIDE DEF moved
<1>7. menu' \in Menus
  BY <1>1, <1>2
<1> QED BY <1>1, <1>2, <1>4, <1>5, <1>6, <1>7

-----------------------------------------------------------------------------
(* Appending a key that the prompt accepts.                                *)
LEMMA CharTyped ==
  ASSUME NEW s, Typed(s), NEW d \in BOOLEAN, d <=> HasDot(s),
         NEW key \in Nat, Len(s) < MAX_INPUT, key = DOT => ~d /\ s # << >>
  PROVE  /\ Typed(Append(s, Upper(key)))
         /\ (d \/ key = DOT) <=> HasDot(Append(s, Upper(key)))
<1> DEFINE x == Upper(key)
           t == Append(s, x)
           n == Len(s)
<1>1. x \in Nat /\ (x = DOT <=> key = DOT)
  BY DEF Upper, DOT
<1>2. s \in Seq(Nat) /\ n \in Nat /\ MAX_INPUT \in Nat
  BY MenuAssumption DEF Typed
<1> HIDE DEF x
<1>3. /\ t \in Seq(Nat) /\ Len(t) = n + 1 /\ t[n + 1] = x
      /\ \A i \in 1..n : t[i] = s[i]
  BY <1>1, <1>2, AppendProperties
<1> HIDE DEF t
<1>4. \A i \in 1 .. n + 1 : i \in 1..n \/ i = n + 1
  BY <1>2
<1>5. 1..n \subseteq 1 .. n + 1 /\ n + 1 \in 1 .. n + 1
  BY <1>2
<1>6. (d \/ key = DOT) <=> HasDot(t)
  BY <1>1, <1>3, <1>4, <1>5 DEF HasDot
<1>7. t[1] # DOT
  <2>1. CASE s = << >>
    <3>1. n = 0
      BY <2>1
    <3> QED BY <1>1, <1>3, <2>1, <3>1
  <2>2. CASE s # << >>
    <3>1. 1 \in 1..n
      BY <1>2, <2>2, EmptySeq
    <3> QED BY <1>3, <2>2, <3>1 DEF Typed
  <2> QED BY <2>1, <2>2
<1>8. \A i, j \in 1 .. n + 1 : t[i] = DOT /\ t[j] = DOT => i = j
  <2> SUFFICES ASSUME NEW i \in 1 .. n + 1, NEW j \in 1 .. n + 1, t[i] = DOT, t[j] = DOT
               PROVE  i = j
    OBVIOUS
  <2>1. CASE key = DOT
    BY <1>3, <1>4, <2>1 DEF HasDot
  <2>2. CASE key # DOT
    <3>1. i \in 1..n /\ j \in 1..n
      BY <1>1, <1>3, <1>4, <2>2
    <3> QED BY <1>3, <3>1 DEF Typed
  <2> QED BY <2>1, <2>2
<1>9. Typed(t)
  BY <1>2, <1>3, <1>7, <1>8 DEF Typed
<1> QED BY <1>6, <1>9 DEF t, x

(* A name that was typed key by key and is well-formed at ENTER is one     *)
(* that fat16_normalize_short_name accepts.                                *)
LEMMA TypedNormalizes ==
  ASSUME NEW s, Typed(s), s # << >>, WellFormed(s)
  PROVE  Normalizes(s)
<1> DEFINE n == Len(s)
           dots == {i \in 1..n : s[i] = DOT}
           name == {i \in 1..n : s[i] # DOT /\ \A d \in dots : i < d}
           ext  == {i \in 1..n : s[i] # DOT /\ \E d \in dots : d < i}
<1>1. n \in Nat /\ n > 0 /\ NAME_MAX \in Nat /\ EXT_MAX \in Nat
  BY MenuAssumption, EmptySeq DEF Typed
<1>2. CASE dots = {}
  <2>1. name = 1..n /\ ext = {}
    BY <1>2
  <2>2. Dot(s) = 0
    BY <1>2 DEF Dot
  <2>3. Cardinality(dots) = 0 /\ Cardinality(ext) = 0 /\ Cardinality(name) = n
    <3>1. Cardinality(1..n) = n
      BY <1>1, FS_Interval
    <3>2. Cardinality({}) = 0
      BY FS_EmptySet
    <3> HIDE DEF name, ext, dots
    <3> QED BY <1>2, <2>1, <3>1, <3>2
  <2>4. n <= NAME_MAX
    BY <2>2 DEF WellFormed
  <2>5. Cardinality(dots) <= 1 /\ Cardinality(name) \in 1..NAME_MAX /\ Cardinality(ext) <= EXT_MAX
    <3> HIDE DEF name, ext, dots
    <3> QED BY <1>1, <2>3, <2>4
  <2> QED BY <2>5 DEF Normalizes
<1>3. CASE dots # {}
  <2>1. PICK p \in 1..n : s[p] = DOT
    BY <1>3
  <2>2. dots = {p}
    BY <2>1 DEF Typed
  <2>3. p # 1 /\ p \in Nat /\ p > 1
    BY <1>1, <2>1 DEF Typed
  <2>4. Dot(s) = p
    <3>1. \A i \in 1..n : s[i] = DOT <=> i = p
      BY <2>1, <2>2
    <3>2. \A j \in 1 .. p - 1 : s[j] # DOT
      BY <1>1, <2>1, <2>3, <3>1
    <3>3. \A i \in 1..n : (s[i] = DOT /\ \A j \in 1 .. i - 1 : s[j] # DOT) <=> i = p
      BY <3>1, <3>2
    <3> QED BY <2>1, <3>3 DEF Dot
  <2>5. name = 1 .. p - 1 /\ ext = p + 1 .. n
    BY <1>1, <2>1, <2>2, <2>3
  <2>6. Cardinality(dots) = 1 /\ Cardinality(name) = p - 1 /\ Cardinality(ext) = n - p
    <3>1. Cardinality(1 .. p - 1) = p - 1 /\ Cardinality({p}) = 1
      <4>1. 1 \in Int /\ p - 1 \in Int /\ 1 <= p - 1
        BY <2>3
      <4>2. Cardinality(1 .. p - 1) = IF 1 > p - 1 THEN 0 ELSE (p - 1) - 1 + 1
        BY <4>1, FS_Interval
      <4>3. Cardinality({p}) = 1
        BY FS_Singleton
      <4> QED BY <2>3, <4>2, <4>3
    <3>2. Cardinality(p + 1 .. n) = n - p
      <4>1. p + 1 \in Int /\ n \in Int /\ p <= n
        BY <1>1, <2>3
      <4>2. Cardinality(p + 1 .. n) = IF p + 1 > n THEN 0 ELSE n - (p + 1) + 1
        BY <4>1, FS_Interval
      <4> QED BY <4>1, <4>2
    <3> HIDE DEF name, ext, dots
    <3> QED BY <2>2, <2>5, <3>1, <3>2
  <2>7. p - 1 <= NAME_MAX /\ n - p <= EXT_MAX
    BY <2>3, <2>4 DEF WellFormed
  <2>8. p - 1 \in 1..NAME_MAX
    BY <1>1, <2>3, <2>7
  <2>9. Cardinality(dots) <= 1 /\ Cardinality(name) \in 1..NAME_MAX /\ Cardinality(ext) <= EXT_MAX
    <3> HIDE DEF name, ext, dots
    <3> QED BY <1>1, <2>6, <2>7, <2>8
  <2> QED BY <2>9 DEF Normalizes
<1> QED BY <1>2, <1>3

-----------------------------------------------------------------------------
(* A frame that ends with no text of a callback on the screen: the menu is *)
(* drawn again in the next one, unless it is on the screen as it is.       *)
LEMMA EndsInMenu ==
  ASSUME Types, ScreenOK, job = NoJob, job' = NoJob, phase = "input",
         NEW next \in Menus \cup {NULL}, NEW sel \in [Menus -> Nat],
         \A m \in Menus : sel[m] < Len(Items[m]),
         NEW redraw \in BOOLEAN,
         EndUpdate(next, sel, FALSE, redraw),
         ~input_mode', redraw \/ (~callback_display_active /\ screen' = screen)
  PROVE  ScreenOK'
<1>1. /\ last_menu' = menu /\ last_selection' = selection
      /\ phase' = "draw" /\ ~callback_display_active'
      /\ ~needs_redraw' => menu' = menu /\ selection' = selection /\ ~redraw
  BY EndsFrame
<1>2. ~callback_display_active => screen = Picture(menu, selection)
  BY DEF ScreenOK
<1>3. ~needs_redraw' => screen' = Picture(menu', selection')
  BY <1>1, <1>2 DEF Picture
<1>4. (selection = current_selection[menu])'
  BY DEF selection
<1> QED BY <1>1, <1>3 DEF ScreenOK, Picture

(* A frame that ends with it.                                              *)
LEMMA EndsInText ==
  ASSUME Types, ScreenOK, job' = NoJob, phase = "input",
         EndUpdate(menu, current_selection, TRUE, needs_redraw),
         callback_menu' = menu, screen'.of = item,
         input_mode' => screen'.shows = "prompt", ~input_mode' => screen'.shows = "text",
         input_mode' => item = "create_file"
  PROVE  ScreenOK'
<1>1. menu \in Menus \cup {NULL} /\ current_selection \in [Menus -> Nat]
      /\ \A m \in Menus : current_selection[m] < Len(Items[m])
      /\ TRUE \in BOOLEAN /\ needs_redraw \in BOOLEAN /\ ~needs_redraw
  BY DEF Types, ScreenOK
<1>2. /\ last_menu' = menu /\ last_selection' = selection /\ menu' = menu
      /\ phase' = "draw" /\ callback_display_active' /\ selection' = selection
      /\ ~needs_redraw'
  <2>1. last_menu = menu /\ last_selection = selection /\ current_selection[menu] = selection
        /\ menu # NULL
    BY DEF ScreenOK, Types, selection, NULL, Menus
  <2>2. menu' = menu /\ current_selection' = current_selection /\ phase' = "draw"
        /\ callback_display_active' /\ ~needs_redraw' /\ UNCHANGED <<last_menu, last_selection>>
    BY <1>1, <2>1 DEF EndUpdate
  <2> QED BY <2>1, <2>2 DEF selection
<1>3. item' = item
  BY <1>2 DEF item
<1> QED BY <1>1, <1>2, <1>3 DEF ScreenOK

(* Either way the flags and the selection keep their types.                *)
LEMMA EndsTyped ==
  ASSUME Types, ScreenOK, phase = "input",
         NEW next \in Menus \cup {NULL}, NEW sel \in [Menus -> Nat],
         \A m \in Menus : sel[m] < Len(Items[m]),
         NEW active \in BOOLEAN, NEW redraw \in BOOLEAN,
         EndUpdate(next, sel, active, redraw),
         active => next = menu /\ sel = current_selection,
         parent' \in [Menus -> Menus \cup {NULL}], callback_menu' \in Menus \cup {NULL},
         input_mode' \in BOOLEAN, input_has_dot' \in BOOLEAN,
         UNCHANGED <<fd, buffer, halted>>
  PROVE  Types'
<1>1. /\ menu' \in Menus /\ current_selection' \in [Menus -> Nat]
      /\ \A m \in Menus : current_selection'[m] < Len(Items[m])
      /\ last_menu' = menu /\ last_selection' = selection
      /\ needs_redraw' \in BOOLEAN /\ callback_display_active' \in BOOLEAN
      /\ phase' = "draw"
  BY EndsFrame
<1>2. selection \in Nat
  BY DEF selection, Types
<1> QED BY <1>1, <1>2 DEF Types

(* Steps that touch neither job nor descriptors.                           *)
LEMMA HeldFrame ==
  ASSUME HeldOK, UNCHANGED <<job, held, others>>
  PROVE  HeldOK'
BY DEF HeldOK, InUse, held

(* Steps that do not touch the prompt.                                     *)
LEMMA NameFrame ==
  ASSUME NameOK, UNCHANGED prompt
  PROVE  NameOK'
BY DEF NameOK, prompt

(* The selection is typed.                                                 *)
LEMMA SelectionFacts ==
  ASSUME Types
  PROVE  /\ menu \in Menus \cup {NULL} /\ current_selection \in [Menus -> Nat]
         /\ \A m \in Menus : current_selection[m] < Len(Items[m])
         /\ selection \in Nat /\ selection < Len(Items[menu])
         /\ item \in Menus \cup Callbacks
<1>1. menu \in Menus /\ selection \in Nat /\ selection < Len(Items[menu])
  BY DEF Types, selection
<1>2. selection \in 0 .. Len(Items[menu]) - 1
  BY <1>1, ItemFacts
<1> QED BY <1>1, <1>2, ItemFacts DEF Types, item

(* Drawing the frame.                                                      *)
LEMMA DrawInv ==
  ASSUME Inv, Draw
  PROVE  Inv'
<1> DEFINE again == /\ ~callback_display_active
                    /\ needs_redraw \/ last_menu # menu \/ last_selection # selection
<1>1. /\ phase = "draw" /\ job = NoJob /\ phase' = "input" /\ created' = << >>
      /\ UNCHANGED <<navigation, display, input_mode, input_buffer, input_has_dot,
                     job, held, others, halted>>
      /\ again => /\ screen' = Picture(menu, selection)
                  /\ last_menu' = menu /\ last_selection' = selection
                  /\ needs_redraw' = FALSE
      /\ ~again => UNCHANGED drawing
  BY DEF Draw
<1>2. /\ menu' = menu /\ current_selection' = current_selection /\ parent' = parent
      /\ selection' = selection /\ item' = item
      /\ callback_display_active' = callback_display_active /\ callback_menu' = callback_menu
  BY <1>1 DEF navigation, display, selection, item
<1>3. selection \in Nat
  BY SelectionFacts DEF Inv
<1>4. Types'
  BY <1>1, <1>2, <1>3 DEF Inv, Types, drawing, held
<1>5. ScreenOK'
  <2>1. CASE again
    BY <1>1, <1>2, <2>1 DEF Inv, ScreenOK, Picture
  <2>2. CASE ~again
    BY <1>1, <1>2, <2>2 DEF Inv, ScreenOK, Picture, drawing
  <2> QED BY <2>1, <2>2
<1>6. HeldOK'
  BY <1>1, HeldFrame DEF Inv
<1>7. NameOK'
  <2>1. << >> \in Seq(Nat) /\ Len(<< >>) = 0
    OBVIOUS
  <2> QED BY <1>1, <2>1, MenuAssumption DEF Inv, NameOK, Typed
<1> QED BY <1>4, <1>5, <1>6, <1>7 DEF Inv

(* A frame in which no key, or one that has no meaning, is read.           *)
LEMMA NoKeyInv ==
  ASSUME Inv, NoKey
  PROVE  Inv'
<1>1. /\ job = NoJob /\ phase = "input" /\ job' = job /\ screen' = screen
      /\ UNCHANGED <<parent, callback_menu, prompt, job, held, others, halted>>
      /\ EndUpdate(menu, current_selection, callback_display_active, needs_redraw)
  BY DEF NoKey, Reading, Unmoved
<1>2. /\ menu \in Menus \cup {NULL} /\ current_selection \in [Menus -> Nat]
      /\ \A m \in Menus : current_selection[m] < Len(Items[m])
      /\ callback_display_active \in BOOLEAN /\ needs_redraw \in BOOLEAN
      /\ Types /\ ScreenOK
  BY SelectionFacts DEF Inv, Types
<1>3. Types'
  BY <1>1, <1>2, EndsTyped DEF Types, prompt, held
<1>4. ScreenOK'
  <2>1. CASE callback_display_active
    <3>1. callback_display_active = TRUE /\ input_mode' = input_mode
      BY <1>1, <1>2, <2>1 DEF prompt
    <3>2. EndUpdate(menu, current_selection, TRUE, needs_redraw)
      BY <1>1, <3>1
    <3>3. /\ callback_menu' = menu /\ screen'.of = item
          /\ input_mode' => screen'.shows = "prompt"
          /\ ~input_mode' => screen'.shows = "text"
          /\ input_mode' => item = "create_file"
      BY <1>1, <1>2, <2>1, <3>1 DEF ScreenOK
    <3> QED BY <1>1, <1>2, <3>2, <3>3, EndsInText
  <2>2. CASE ~callback_display_active
    <3>1. callback_display_active = FALSE /\ ~input_mode'
      BY <1>1, <1>2, <2>2 DEF prompt, ScreenOK
    <3>2. EndUpdate(menu, current_selection, FALSE, needs_redraw)
      BY <1>1, <3>1
    <3> QED BY <1>1, <1>2, <2>2, <3>1, <3>2, EndsInMenu
  <2> QED BY <2>1, <2>2
<1> QED BY <1>1, <1>3, <1>4, HeldFrame, NameFrame DEF Inv

(* A key while a file name is typed.                                       *)
LEMMA PromptKeyInv ==
  ASSUME Inv, NEW key \in Keys, PromptKey(key)
  PROVE  Inv'
<1>1. /\ job = NoJob /\ phase = "input" /\ input_mode
      /\ UNCHANGED <<parent, callback_menu, job, held, others, halted>>
      /\ EndUpdate(menu, current_selection, callback_display_active, needs_redraw)
      /\ key \in Nat
  BY MenuAssumption DEF PromptKey, Reading, Unmoved
<1>2. /\ menu \in Menus \cup {NULL} /\ current_selection \in [Menus -> Nat]
      /\ \A m \in Menus : current_selection[m] < Len(Items[m])
      /\ callback_display_active \in BOOLEAN /\ needs_redraw \in BOOLEAN
      /\ Types /\ ScreenOK /\ NameOK
  BY SelectionFacts DEF Inv, Types
<1>3. /\ callback_display_active = TRUE /\ callback_menu = menu /\ screen.of = item
      /\ screen.shows = "prompt" /\ item = "create_file"
  BY <1>1, <1>2 DEF ScreenOK
<1>4. << >> \in Seq(Nat) /\ Len(<< >>) = 0 /\ Typed(<< >>) /\ ~HasDot(<< >>)
  BY MenuAssumption DEF Typed, HasDot
<1> DEFINE Result ==
             /\ input_mode' \in BOOLEAN /\ input_has_dot' \in BOOLEAN
             /\ screen'.of = item
             /\ input_mode' => screen'.shows = "prompt"
             /\ ~input_mode' => screen'.shows = "text"
             /\ NameOK'
<1>5. ASSUME PromptEnds, \/ created' = created \/ created' = << >>
                         \/ created' = input_buffer /\ WellFormed(input_buffer)
      PROVE  Result
  <2>1. Typed(created') /\ (created' # << >> => WellFormed(created'))
    BY <1>2, <1>4, <1>5 DEF NameOK
  <2>2. /\ input_mode' = FALSE /\ input_buffer' = << >> /\ input_has_dot' = FALSE
        /\ screen' = Text("create_file")
    BY <1>5 DEF PromptEnds
  <2>3. screen'.of = item /\ screen'.shows = "text"
    BY <1>3, <2>2 DEF Text
  <2> QED BY <1>4, <2>1, <2>2, <2>3 DEF NameOK
<1>6. ASSUME PromptEnter PROVE Result
  <2>1. CASE WellFormed(input_buffer)
    BY <1>5, <1>6, <2>1 DEF PromptEnter
  <2>2. CASE ~WellFormed(input_buffer)
    <3>1. /\ input_buffer' = << >> /\ input_has_dot' = FALSE /\ screen' = Prompt
          /\ input_mode' = input_mode /\ created' = created
      BY <1>6, <2>2 DEF PromptEnter
    <3>2. screen'.of = item /\ screen'.shows = "prompt"
      BY <1>3, <3>1 DEF Prompt
    <3> QED BY <1>1, <1>2, <1>4, <3>1, <3>2 DEF NameOK, Types
  <2> QED BY <2>1, <2>2
<1>7. ASSUME PromptEscape PROVE Result
  BY <1>5, <1>7 DEF PromptEscape
<1>8. ASSUME PromptChar(key) PROVE Result
  <2>1. /\ Len(input_buffer) < MAX_INPUT
        /\ key = DOT => ~input_has_dot /\ input_buffer # << >>
        /\ input_buffer' = Append(input_buffer, Upper(key))
        /\ input_has_dot' = (input_has_dot \/ key = DOT)
        /\ UNCHANGED <<input_mode, screen, created>>
    BY <1>8 DEF PromptChar
  <2>2. input_has_dot \in BOOLEAN /\ Typed(input_buffer) /\ (input_has_dot <=> HasDot(input_buffer))
    BY <1>2 DEF Types, NameOK
  <2>3. /\ Typed(Append(input_buffer, Upper(key)))
        /\ (input_has_dot \/ key = DOT) <=> HasDot(Append(input_buffer, Upper(key)))
    BY <1>1, <2>1, <2>2, CharTyped
  <2>4. Typed(input_buffer') /\ (input_has_dot' <=> HasDot(input_buffer'))
        /\ input_has_dot' \in BOOLEAN
    BY <2>1, <2>2, <2>3
  <2> QED BY <1>1, <1>2, <1>3, <2>1, <2>4 DEF NameOK, Types
<1>9. Result
  BY <1>6, <1>7, <1>8 DEF PromptKey
<1>10. Types'
  BY <1>1, <1>2, <1>9, EndsTyped DEF Types, held
<1>11. ScreenOK'
  <2>1. EndUpdate(menu, current_selection, TRUE, needs_redraw)
    BY <1>1, <1>3
  <2> QED BY <1>1, <1>2, <1>3, <1>9, <2>1, EndsInText
<1> QED BY <1>1, <1>9, <1>10, <1>11, HeldFrame DEF Inv

(* ESC over the text of a callback.                                        *)
LEMMA DismissInv ==
  ASSUME Inv, Dismiss
  PROVE  Inv'
<1>1. /\ job = NoJob /\ phase = "input" /\ ~input_mode /\ callback_display_active
      /\ EndUpdate(IF callback_menu = NULL THEN menu ELSE callback_menu,
                   current_selection, FALSE, TRUE)
      /\ callback_menu' = NULL /\ input_mode' = input_mode
      /\ UNCHANGED <<parent, screen, prompt, job, held, others, halted>>
  BY DEF Dismiss, Reading, prompt
<1>2. /\ menu \in Menus \cup {NULL} /\ current_selection \in [Menus -> Nat]
      /\ \A m \in Menus : current_selection[m] < Len(Items[m])
      /\ Types /\ ScreenOK /\ TRUE \in BOOLEAN /\ FALSE \in BOOLEAN
  BY SelectionFacts DEF Inv
<1>3. EndUpdate(menu, current_selection, FALSE, TRUE)
  BY <1>1, <1>2 DEF ScreenOK
<1>4. Types'
  BY <1>1, <1>2, <1>3, EndsTyped DEF Types, prompt, held
<1>5. ScreenOK'
  BY <1>1, <1>2, <1>3, EndsInMenu
<1> QED BY <1>1, <1>4, <1>5, HeldFrame, NameFrame DEF Inv

(* Navigate, EnterSubmenu and Escape.                                      *)
LEMMA ChosenInv ==
  ASSUME Inv, Choosing,
         NEW next \in Menus \cup {NULL}, NEW sel \in [Menus -> Nat],
         \A m \in Menus : sel[m] < Len(Items[m]),
         EndUpdate(next, sel, FALSE, needs_redraw),
         parent' \in [Menus -> Menus \cup {NULL}],
         UNCHANGED <<screen, callback_menu, prompt, job, held, others, halted>>
  PROVE  Inv'
<1>1. /\ job = NoJob /\ job' = NoJob /\ phase = "input" /\ ~callback_display_active
      /\ ~input_mode' /\ screen' = screen
      /\ Types /\ ScreenOK /\ needs_redraw \in BOOLEAN /\ FALSE \in BOOLEAN
  BY DEF Inv, Choosing, Reading, prompt, Types
<1>2. Types'
  BY <1>1, EndsTyped DEF Types, prompt, held
<1>3. ScreenOK'
  BY <1>1, EndsInMenu
<1> QED BY <1>2, <1>3, HeldFrame, NameFrame DEF Inv

(* The selection moves by one within the items.                            *)
LEMMA NavigateInv ==
  ASSUME Inv, NEW key \in Keys, Navigate(key)
  PROVE  Inv'
<1> DEFINE s == IF key \in UpKeys THEN (IF selection > 0 THEN selection - 1 ELSE 0)
                ELSE IF selection < Len(Items[menu]) - 1 THEN selection + 1 ELSE selection
           sel == [current_selection EXCEPT ![menu] = s]
<1>1. /\ menu \in Menus /\ selection \in Nat /\ selection < Len(Items[menu])
      /\ Len(Items[menu]) \in Nat /\ current_selection \in [Menus -> Nat]
      /\ \A m \in Menus : current_selection[m] < Len(Items[m])
  BY SelectionFacts, ItemFacts DEF Inv, Types
<1>2. s \in Nat /\ s < Len(Items[menu])
  BY <1>1
<1>3. EndUpdate(menu, sel, FALSE, needs_redraw) /\ Choosing
      /\ UNCHANGED <<parent, screen, callback_menu, prompt, job, held, others, halted>>
  BY DEF Navigate
<1> HIDE DEF s
<1>4. sel \in [Menus -> Nat] /\ \A m \in Menus : sel[m] < Len(Items[m])
  BY <1>1, <1>2
<1>5. parent' \in [Menus -> Menus \cup {NULL}]
  BY <1>3 DEF Inv, Types
<1> HIDE DEF sel
<1> QED BY <1>1, <1>3, <1>4, <1>5, ChosenInv

(* A submenu is entered at its first item.                                 *)
LEMMA EnterSubmenuInv ==
  ASSUME Inv, EnterSubmenu
  PROVE  Inv'
<1> DEFINE sel == [current_selection EXCEPT ![item] = 0]
<1>1. /\ item \in Menus /\ Choosing
      /\ parent' = [parent EXCEPT ![item] = menu]
      /\ EndUpdate(item, sel, FALSE, needs_redraw)
      /\ UNCHANGED <<screen, callback_menu, prompt, job, held, others, halted>>
  BY DEF EnterSubmenu
<1>2. /\ menu \in Menus /\ current_selection \in [Menus -> Nat]
      /\ \A m \in Menus : current_selection[m] < Len(Items[m])
      /\ parent \in [Menus -> Menus \cup {NULL}]
  BY DEF Inv, Types
<1>3. \A m \in Menus : Len(Items[m]) \in Nat \ {0}
  BY ItemFacts
<1>4. sel \in [Menus -> Nat] /\ \A m \in Menus : sel[m] < Len(Items[m])
  BY <1>1, <1>2, <1>3
<1>5. parent' \in [Menus -> Menus \cup {NULL}]
  BY <1>1, <1>2
<1> HIDE DEF sel
<1> QED BY <1>1, <1>4, <1>5, ChosenInv

(* Back to the parent.                                                     *)
LEMMA EscapeInv ==
  ASSUME Inv, Escape
  PROVE  Inv'
<1>1. /\ Choosing /\ EndUpdate(parent[menu], current_selection, FALSE, needs_redraw)
      /\ UNCHANGED <<parent, screen, callback_menu, prompt, job, held, others, halted>>
  BY DEF Escape
<1>2. /\ menu \in Menus /\ current_selection \in [Menus -> Nat]
      /\ \A m \in Menus : current_selection[m] < Len(Items[m])
      /\ parent \in [Menus -> Menus \cup {NULL}]
  BY DEF Inv, Types
<1>3. parent[menu] \in Menus \cup {NULL} /\ parent' \in [Menus -> Menus \cup {NULL}]
  BY <1>1, <1>2
<1> QED BY <1>1, <1>2, <1>3, ChosenInv

(* A callback begins, holding nothing.                                     *)
LEMMA EnterCallbackInv ==
  ASSUME Inv, EnterCallback
  PROVE  Inv'
<1> DEFINE n == IF Program[item] = << >> THEN 0 ELSE 1
<1>1. /\ job = NoJob /\ phase = "input" /\ ~callback_display_active /\ ~input_mode
      /\ item \in Callbacks /\ job' = [callback |-> item, at |-> n]
      /\ screen' = Text(item)
      /\ UNCHANGED <<menu, current_selection, parent, last_menu, last_selection, needs_redraw,
                     callback_display_active, callback_menu, prompt, phase, held, others, halted>>
  BY DEF EnterCallback, Choosing, Reading, navigation, display
<1>2. /\ selection' = selection /\ item' = item /\ input_mode' = input_mode
      /\ fd' = fd /\ buffer' = buffer /\ stuck' = stuck /\ input_has_dot' = input_has_dot
  BY <1>1 DEF selection, item, prompt, held
<1>3. Types'
  BY <1>1, <1>2 DEF Inv, Types
<1>4. screen'.of = item /\ screen'.shows = "text"
  BY <1>1 DEF Text
<1>5. /\ job' # NoJob /\ job'.callback = item /\ job'.at = n
      /\ job' \in [callback: Callbacks, at: Nat]
  <2>1. NULL \notin Callbacks
    BY DEF NULL, Callbacks, Program
  <2>2. n \in Nat
    OBVIOUS
  <2> HIDE DEF n
  <2> QED BY <1>1, <2>1, <2>2 DEF NoJob
<1>6. ScreenOK'
  BY <1>1, <1>2, <1>4, <1>5 DEF Inv, ScreenOK
<1>7. n <= Len(Program[item]) /\ <<item, n>> \notin HoldsFd /\ <<item, n>> \notin HoldsBuffer
  <2>1. Len(Program[item]) \in Nat
    BY <1>1, ProgramsPaired
  <2>2. Program[item] # << >> => Len(Program[item]) >= 1
    BY <1>1 DEF Callbacks, Program, BootOs, ListTasks, CpuDetails, MemoryMap, InterruptTable,
                DeviceList, HeapTest, MemoryTest, Shutdown, RunHelloWorld, ListFiles, CreateFile,
                DeleteFile, RunDiskHello, DiskTest, DiskWriteTest
  <2>3. n \in {0, 1}
    OBVIOUS
  <2>4. n <= Len(Program[item])
    BY <2>1, <2>2
  <2> HIDE DEF n
  <2> QED BY <2>3, <2>4 DEF HoldsFd, HoldsBuffer
<1> HIDE DEF n
<1>8. HeldOK'
  <2>1. others \in Nat /\ stuck \in Nat /\ InUse <= MAX_OPEN_FILES /\ fd = "none" /\ ~buffer
    BY <1>1 DEF Inv, HeldOK
  <2>2. InUse' = InUse
    BY <1>1, <1>2 DEF InUse
  <2> QED BY <1>1, <1>2, <1>5, <1>7, <2>1, <2>2 DEF HeldOK
<1> QED BY <1>1, <1>3, <1>6, <1>8, NameFrame DEF Inv

(* A call of a callback.                                                   *)
LEMMA StepInv ==
  ASSUME Inv, Step
  PROVE  Inv'
<1> DEFINE c == job.callback
           n == job.at
<1>1. /\ job # NoJob /\ n # 0 /\ job \in [callback: Callbacks, at: Nat]
      /\ c \in Callbacks /\ n \in 1 .. Len(Program[c]) /\ Len(Program[c]) \in Nat
      /\ fd # "none" <=> <<c, n>> \in HoldsFd
      /\ buffer <=> <<c, n>> \in HoldsBuffer
      /\ others \in Nat /\ stuck \in Nat /\ InUse <= MAX_OPEN_FILES
      /\ fd \in {"none", "clean", "modified"} /\ buffer \in BOOLEAN
  <2>1. job # NoJob /\ n # 0 /\ job \in [callback: Callbacks, at: Nat] /\ n <= Len(Program[c])
    BY DEF Step, Running, Inv, HeldOK
  <2>2. c \in Callbacks /\ n \in Nat
    BY <2>1
  <2>3. Len(Program[c]) \in Nat
    BY <2>2, ProgramsPaired
  <2>4. n \in 1 .. Len(Program[c])
    BY <2>1, <2>2, <2>3
  <2> QED BY <2>1, <2>2, <2>3, <2>4 DEF Inv, HeldOK, Types
<1>2. OpOK(c, n, op)
  BY <1>1, ProgramsPaired DEF op
<1>3. PICK ok \in Outcomes :
       /\ job' = [job EXCEPT !.at = IF ok THEN op.ok ELSE op.no]
       /\ fd' = CASE op.op = "open" /\ ok  -> "clean"
                  [] op.op = "write" /\ ok -> "modified"
                  [] op.op = "close"       -> "none"
                  [] OTHER                 -> fd
       /\ stuck' = (IF op.op = "close" /\ ~ok THEN stuck + 1 ELSE stuck)
       /\ buffer' = CASE op.op = "kmalloc" -> ok
                      [] op.op = "kfree"   -> FALSE
                      [] OTHER             -> buffer
  BY DEF Step, Goto
<1>4. /\ ok \in BOOLEAN
      /\ op.op = "open" /\ ok => InUse < MAX_OPEN_FILES
      /\ op.op = "close" /\ ~ok => fd = "modified"
      /\ op.op \in {"kfree", "prompt", "halt"} => ok
  <2> USE DEF Outcomes, InUse
  <2>1. CASE op.op = "open"
    BY <2>1
  <2>2. CASE op.op = "close"
    BY <2>2
  <2>3. CASE op.op \in {"kfree", "prompt", "halt"}
    BY <2>3
  <2>4. CASE op.op \notin {"open", "close", "kfree", "prompt", "halt"}
    BY <2>4
  <2> QED BY <2>1, <2>2, <2>3, <2>4
<1> DEFINE g == IF ok THEN op.ok ELSE op.no
<1>5. /\ g \in 0 .. Len(Program[c])
      /\ <<c, g>> \in HoldsFd <=> (op.op = "open" /\ ok) \/ (fd # "none" /\ op.op # "close")
      /\ <<c, g>> \in HoldsBuffer <=> IF op.op = "kmalloc" THEN ok
                                      ELSE buffer /\ op.op # "kfree"
  <2>1. CASE ok
    BY <1>1, <1>2, <2>1 DEF OpOK
  <2>2. CASE ~ok
    BY <1>1, <1>2, <1>4, <2>2 DEF OpOK
  <2> QED BY <2>1, <2>2
<1> HIDE DEF g
<1>6. /\ job' = [callback |-> c, at |-> g] /\ job'.callback = c /\ job'.at = g
      /\ g \in Nat
  BY <1>1, <1>3, <1>5 DEF g
<1>7. /\ job' \in [callback: Callbacks, at: Nat] /\ job' # NoJob /\ g <= Len(Program[c])
  <2>1. NULL \notin Callbacks
    BY DEF NULL, Callbacks, Program
  <2> QED BY <1>1, <1>5, <1>6, <2>1 DEF NoJob
<1>8. fd' \in {"none", "clean", "modified"} /\ (fd' # "none" <=> <<c, g>> \in HoldsFd)
  <2>1. CASE op.op = "open"
    BY <1>1, <1>2, <1>3, <1>4, <1>5, <2>1 DEF OpOK
  <2>2. CASE op.op = "write"
    BY <1>1, <1>2, <1>3, <1>4, <1>5, <2>2 DEF OpOK
  <2>3. CASE op.op = "close"
    BY <1>1, <1>3, <1>5, <2>3
  <2>4. CASE op.op \notin {"open", "write", "close"}
    BY <1>1, <1>3, <1>5, <2>4
  <2> QED BY <2>1, <2>2, <2>3, <2>4
<1>9. buffer' \in BOOLEAN /\ (buffer' <=> <<c, g>> \in HoldsBuffer)
  <2>1. CASE op.op = "kmalloc"
    BY <1>3, <1>4, <1>5, <2>1
  <2>2. CASE op.op = "kfree"
    BY <1>3, <1>5, <2>2
  <2>3. CASE op.op \notin {"kmalloc", "kfree"}
    BY <1>1, <1>3, <1>5, <2>3
  <2> QED BY <2>1, <2>2, <2>3
<1>10. others' = others /\ stuck' \in Nat /\ InUse' <= MAX_OPEN_FILES
  <2>1. others' = others /\ stuck' \in Nat
    BY <1>1, <1>3 DEF Step
  <2>2. CASE op.op = "open"
    <3>1. fd = "none" /\ stuck' = stuck
      BY <1>1, <1>2, <1>3, <2>2 DEF OpOK
    <3>2. CASE ok
      <4>1. InUse < MAX_OPEN_FILES /\ InUse = others + stuck /\ InUse' <= others + stuck + 1
        BY <1>1, <1>4, <2>1, <2>2, <3>1, <3>2 DEF InUse
      <4> QED BY <1>1, <4>1, <2>1, <3>1, MenuAssumption DEF InUse
    <3>3. CASE ~ok
      BY <1>1, <1>3, <2>1, <2>2, <3>1, <3>3 DEF InUse
    <3> QED BY <1>4, <3>2, <3>3
  <2>3. CASE op.op = "write"
    BY <1>1, <1>2, <1>3, <1>8, <2>1, <2>3, MenuAssumption DEF InUse, OpOK
  <2>4. CASE op.op = "close"
    BY <1>1, <1>3, <1>4, <2>1, <2>4, MenuAssumption DEF InUse
  <2>5. CASE op.op \notin {"open", "write", "close"}
    BY <1>1, <1>3, <2>1, <2>5 DEF InUse
  <2> QED BY <2>1, <2>2, <2>3, <2>4, <2>5
<1>11. HeldOK'
  BY <1>1, <1>6, <1>7, <1>8, <1>9, <1>10 DEF HeldOK
<1>12. /\ menu' = menu /\ selection' = selection /\ item' = item
       /\ current_selection' = current_selection /\ parent' = parent
       /\ UNCHANGED <<last_menu, last_selection, needs_redraw, callback_display_active,
                      callback_menu, phase>>
  BY DEF Step, navigation, display, selection, item
<1>13. halted' \in BOOLEAN
  BY DEF Step
<1>14. /\ phase = "input" /\ ~callback_display_active /\ c = item /\ screen.of = item
       /\ input_mode => screen.shows = "prompt"
       /\ ~input_mode => screen.shows = "text"
       /\ input_mode => item = "create_file"
       /\ last_menu = menu /\ last_selection = selection /\ ~needs_redraw
  BY <1>1 DEF Inv, ScreenOK
<1>15. CASE op.op = "prompt"
  <2>1. /\ input_mode' = TRUE /\ input_buffer' = << >> /\ input_has_dot' = FALSE
        /\ screen' = Prompt /\ created' = created
    BY <1>15 DEF Step
  <2>2. c = "create_file"
    BY <1>2, <1>15 DEF OpOK
  <2>3. screen'.of = item /\ screen'.shows = "prompt" /\ item = "create_file"
    BY <1>14, <2>1, <2>2 DEF Prompt
  <2>4. Types'
    BY <1>8, <1>9, <1>12, <1>13, <2>1 DEF Inv, Types
  <2>5. ScreenOK'
    BY <1>6, <1>7, <1>12, <1>14, <2>1, <2>3 DEF ScreenOK
  <2>6. << >> \in Seq(Nat) /\ Len(<< >>) = 0
    OBVIOUS
  <2>7. NameOK'
    BY <2>1, <2>6, MenuAssumption DEF Inv, NameOK, Typed, HasDot
  <2> QED BY <1>11, <2>4, <2>5, <2>7 DEF Inv
<1>16. CASE op.op # "prompt"
  <2>1. UNCHANGED <<prompt, screen>> /\ input_mode' = input_mode /\ input_has_dot' = input_has_dot
    BY <1>16 DEF Step, prompt
  <2>2. Types'
    BY <1>8, <1>9, <1>12, <1>13, <2>1 DEF Inv, Types
  <2>3. ScreenOK'
    BY <1>6, <1>7, <1>12, <1>14, <2>1 DEF ScreenOK
  <2> QED BY <1>11, <2>1, <2>2, <2>3, NameFrame DEF Inv
<1> QED BY <1>15, <1>16

(* It ends, holding nothing.                                               *)
LEMMA ReturnInv ==
  ASSUME Inv, Return
  PROVE  Inv'
<1>1. /\ job # NoJob /\ job.at = 0 /\ job' = NoJob /\ callback_menu' = menu
      /\ EndUpdate(menu, current_selection, TRUE, needs_redraw)
      /\ UNCHANGED <<parent, screen, prompt, held, others, halted>>
      /\ input_mode' = input_mode /\ input_has_dot' = input_has_dot
  BY DEF Return, Running, prompt
<1>2. /\ Types /\ ScreenOK /\ phase = "input"
      /\ screen'.of = item /\ (input_mode' => item = "create_file")
      /\ input_mode' => screen'.shows = "prompt"
      /\ ~input_mode' => screen'.shows = "text"
  BY <1>1 DEF Inv, ScreenOK
<1>3. ScreenOK'
  BY <1>1, <1>2, EndsInText
<1>4. fd = "none" /\ ~buffer
  BY <1>1 DEF Inv, HeldOK, HoldsFd, HoldsBuffer
<1>5. HeldOK'
  BY <1>1, <1>4 DEF Inv, HeldOK, InUse, held
<1>6. /\ menu \in Menus \cup {NULL} /\ menu \in Menus /\ current_selection \in [Menus -> Nat]
      /\ \A m \in Menus : current_selection[m] < Len(Items[m])
      /\ needs_redraw \in BOOLEAN /\ TRUE \in BOOLEAN
  BY <1>2 DEF Types
<1>7. Types'
  <2>1. PICK active \in BOOLEAN : active = TRUE
    OBVIOUS
  <2>2. EndUpdate(menu, current_selection, active, needs_redraw)
    BY <1>1, <2>1
  <2> QED BY <1>1, <1>2, <1>6, <2>2, EndsTyped DEF Types, held
<1> QED BY <1>1, <1>3, <1>5, <1>7, NameFrame DEF Inv

(* Tasks use the descriptor table meanwhile.                               *)
LEMMA OthersInv ==
  ASSUME Inv, Others
  PROVE  Inv'
<1>1. UNCHANGED <<navigation, drawing, display, prompt, phase, job, held, halted>>
  BY DEF Others
<1>2. Types'
  BY <1>1 DEF Inv, Types, navigation, drawing, display, prompt, held
<1>3. ScreenOK'
  <2>1. selection' = selection /\ item' = item
    BY <1>1 DEF navigation, selection, item
  <2> QED BY <1>1, <2>1 DEF Inv, ScreenOK, navigation, drawing, display, prompt
<1>4. HeldOK'
  <2>1. others \in Nat /\ stuck \in Nat /\ InUse <= MAX_OPEN_FILES /\ MAX_OPEN_FILES \in Nat
    BY MenuAssumption DEF Inv, HeldOK
  <2>2. stuck' = stuck /\ fd' = fd /\ buffer' = buffer /\ job' = job
    BY <1>1 DEF held
  <2>3. others' \in Nat /\ InUse' <= MAX_OPEN_FILES
    BY <2>1, <2>2 DEF Others, InUse
  <2> QED BY <2>2, <2>3, <2>1 DEF Inv, HeldOK
<1> QED BY <1>1, <1>2, <1>3, <1>4, NameFrame DEF Inv

(* Every step.                                                             *)
LEMMA NextInv == Inv /\ [Next]_vars => Inv'
<1> SUFFICES ASSUME Inv, [Next]_vars PROVE Inv'
  OBVIOUS
<1>1. ASSUME UNCHANGED vars PROVE Inv'
  <2>1. UNCHANGED <<navigation, drawing, display, prompt, phase, job, held, others, halted>>
    BY <1>1 DEF vars
  <2>2. Types'
    BY <2>1 DEF Inv, Types, navigation, drawing, display, prompt, held
  <2>3. selection' = selection /\ item' = item
    BY <2>1 DEF navigation, selection, item
  <2>4. ScreenOK'
    BY <2>1, <2>3 DEF Inv, ScreenOK, navigation, drawing, display, prompt
  <2> QED BY <2>1, <2>2, <2>4, HeldFrame, NameFrame DEF Inv
<1>2. ASSUME NEW key \in Keys, Key(key) PROVE Inv'
  BY <1>2, PromptKeyInv, DismissInv, NavigateInv, EnterSubmenuInv, EnterCallbackInv, EscapeInv
     DEF Key
<1> QED BY <1>1, <1>2, DrawInv, NoKeyInv, StepInv, ReturnInv, OthersInv DEF Next

(* Keys and calls of callbacks, in any order and with any outcome, keep    *)
(* the invariant.                                                          *)
THEOREM Invariance == Spec => []Inv
BY InitInv, NextInv, PTL DEF Spec

(* Type correctness: the selection stays within the menu, a name within    *)
(* its buffer, and the descriptors within the table.                       *)
THEOREM TypeCorrect == Spec => []TypeOK
<1>1. Inv => TypeOK
  <2> SUFFICES ASSUME Inv PROVE TypeOK
    OBVIOUS
  <2>1. \A m \in Menus : current_selection[m] \in 0 .. Len(Items[m]) - 1
    BY ItemFacts DEF Inv, Types
  <2>2. stuck \in 0..MAX_OPEN_FILES /\ others \in 0..MAX_OPEN_FILES
    BY MenuAssumption DEF Inv, HeldOK, InUse
  <2>3. job.callback \in Callbacks \cup {NULL}
    <3>1. CASE job = NoJob
      BY <3>1 DEF NoJob
    <3>2. CASE job # NoJob
      BY <3>2 DEF Inv, HeldOK
    <3> QED BY <3>1, <3>2
  <2>4. Len(input_buffer) <= MAX_INPUT /\ Len(created) <= MAX_INPUT
    BY DEF Inv, NameOK, Typed
  <2> QED BY <2>1, <2>2, <2>3, <2>4 DEF Inv, Types, TypeOK
<1> QED BY <1>1, Invariance, PTL

(* What the user sees when a key is read is what the key acts on.          *)
THEOREM ScreenStaysInStep == Spec => []ScreenInStep
<1>1. Inv => ScreenInStep
  BY DEF Inv, ScreenOK, ScreenInStep, Reading, item, selection
<1> QED BY <1>1, Invariance, PTL

(* Every name the prompt hands to fat16_create is one that fat16.c         *)
(* accepts, for any lengths of names.                                      *)
THEOREM NamesAreAccepted == Spec => []NamesAccepted
<1>1. Inv => NamesAccepted
  BY TypedNormalizes DEF Inv, NameOK, NamesAccepted
<1> QED BY <1>1, Invariance, PTL

(* A callback returns what it takes on every path, and uses only what it   *)
(* holds.                                                                  *)
THEOREM ResourcesArePaired == Spec => []ResourcesPaired
<1>1. Inv => ResourcesPaired
  <2> SUFFICES ASSUME Inv PROVE ResourcesPaired
    OBVIOUS
  <2>1. CASE job = NoJob
    BY <2>1 DEF Inv, HeldOK, ResourcesPaired, Running
  <2>2. CASE job # NoJob
    <3>1. /\ job.callback \in Callbacks /\ job.at \in Nat
          /\ job.at <= Len(Program[job.callback])
          /\ fd # "none" <=> <<job.callback, job.at>> \in HoldsFd
          /\ buffer <=> <<job.callback, job.at>> \in HoldsBuffer
      BY <2>2 DEF Inv, HeldOK
    <3>2. CASE job.at = 0
      BY <3>1, <3>2 DEF ResourcesPaired, HoldsFd, HoldsBuffer
    <3>3. CASE job.at # 0
      <4>1. job.at \in 1 .. Len(Program[job.callback])
        BY <3>1, <3>3, ProgramsPaired
      <4>2. OpOK(job.callback, job.at, op)
        BY <3>1, <4>1, ProgramsPaired DEF op
      <4> QED BY <3>1, <3>3, <4>2 DEF ResourcesPaired, OpOK
    <3> QED BY <3>2, <3>3
  <2> QED BY <2>1, <2>2
<1> QED BY <1>1, Invariance, PTL
=============================================================================
