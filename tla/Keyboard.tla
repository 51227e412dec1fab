------------------------------- MODULE Keyboard -------------------------------
(***************************************************************************)
(* drivers/keyboard.c: the interrupt handler translates scan codes and     *)
(* puts the characters in a ring buffer; sys_read takes them out.  Both    *)
(* run with interrupts off.  (The menu reads with interrupts on, which is  *)
(* not modelled: see the README.)                                          *)
(*                                                                         *)
(* A character is named by the scan code it comes from; 0 is none.         *)
(***************************************************************************)
EXTENDS Naturals, Sequences

CONSTANTS
  QUEUE_SIZE,   \* KBD_EVENT_QUEUE_SIZE
  ScanCodes     \* the bytes the keyboard sends

ASSUME KeyboardAssumption ==
  /\ QUEUE_SIZE \in Nat \ {0}
  /\ ScanCodes \subseteq 0..255

VARIABLES
  extended_prefix,
  keyboard_queue, keyboard_head, keyboard_tail, keyboard_count,
  last_char,      \* the character keyboard_get_event returned last
  last_code       \* history: the byte the keyboard sent last

queue == <<keyboard_queue, keyboard_head, keyboard_tail, keyboard_count>>
vars  == <<extended_prefix, queue, last_char, last_code>>

Index  == 0 .. QUEUE_SIZE - 1
Arrows == {72, 75, 77, 80}       \* 0x48, 0x4B, 0x4D, 0x50
Blank  == {0, 29, 42, 54, 56}    \* the zeros of kbd_us, which has 58 entries

TypeOK ==
  /\ extended_prefix \in BOOLEAN
  /\ keyboard_queue \in [Index -> 0..127]
  /\ keyboard_head \in Index /\ keyboard_tail \in Index
  /\ keyboard_count \in 0..QUEUE_SIZE
  /\ last_char \in 0..127
  /\ last_code \in 0..255

Init ==
  /\ extended_prefix = FALSE
  /\ keyboard_queue = [i \in Index |-> 0]
  /\ keyboard_head = 0 /\ keyboard_tail = 0 /\ keyboard_count = 0
  /\ last_char = 0
  /\ last_code = 0

-----------------------------------------------------------------------------
(* translate_scan_code.  0xE0 announces an extended key; codes with bit 7  *)
(* are releases; an extended key is an arrow or nothing; arrows are also   *)
(* recognised without the prefix; the rest is looked up in kbd_us.         *)
Translate(sc) ==
  IF sc >= 128 THEN 0
  ELSE IF sc \in Arrows THEN sc
  ELSE IF extended_prefix \/ sc \in Blank \/ sc >= 58 THEN 0
  ELSE sc

(* Slips: off by one at the limit; the oldest character overwritten.       *)
EnqueueOneTooMany(c) ==
  IF keyboard_count > QUEUE_SIZE THEN UNCHANGED queue
  ELSE /\ keyboard_queue' = [keyboard_queue EXCEPT ![keyboard_head] = c]
       /\ keyboard_head' = (keyboard_head + 1) % QUEUE_SIZE
       /\ keyboard_count' = keyboard_count + 1
       /\ UNCHANGED keyboard_tail

EnqueueOverwrite(c) ==
  /\ keyboard_queue' = [keyboard_queue EXCEPT ![keyboard_head] = c]
  /\ keyboard_head' = (keyboard_head + 1) % QUEUE_SIZE
  /\ keyboard_count' = IF keyboard_count < QUEUE_SIZE THEN keyboard_count + 1
                       ELSE keyboard_count
  /\ UNCHANGED keyboard_tail

(* keyboard_enqueue_event: dropped when the queue is full.                 *)
EnqueueEvent(c) ==
  IF keyboard_count >= QUEUE_SIZE THEN UNCHANGED queue
  ELSE /\ keyboard_queue' = [keyboard_queue EXCEPT ![keyboard_head] = c]
       /\ keyboard_head' = (keyboard_head + 1) % QUEUE_SIZE
       /\ keyboard_count' = keyboard_count + 1
       /\ UNCHANGED keyboard_tail

(* A slip: the 0xE0 prefix is forgotten only when a key is queued.         *)
InterruptKeepPrefix(sc) ==
  /\ extended_prefix' = (sc = 224 \/ (extended_prefix /\ Translate(sc) = 0))
  /\ last_code' = sc
  /\ IF Translate(sc) # 0 THEN EnqueueEvent(Translate(sc)) ELSE UNCHANGED queue
  /\ UNCHANGED last_char

(* keyboard_handle_interrupt.                                              *)
Interrupt(sc) ==
  /\ extended_prefix' = (sc = 224)
  /\ last_code' = sc
  /\ IF Translate(sc) # 0 THEN EnqueueEvent(Translate(sc)) ELSE UNCHANGED queue
  /\ UNCHANGED last_char

(* A slip: reading at the head, where the next character will go.          *)
GetEventAtHead ==
  /\ keyboard_count > 0
  /\ last_char' = keyboard_queue[keyboard_head]
  /\ keyboard_tail' = (keyboard_tail + 1) % QUEUE_SIZE
  /\ keyboard_count' = keyboard_count - 1
  /\ UNCHANGED <<extended_prefix, keyboard_queue, keyboard_head, last_code>>

(* sys_read with an event present: keyboard_get_event.                     *)
GetEvent ==
  /\ keyboard_count > 0
  /\ last_char' = keyboard_queue[keyboard_tail]
  /\ keyboard_tail' = (keyboard_tail + 1) % QUEUE_SIZE
  /\ keyboard_count' = keyboard_count - 1
  /\ UNCHANGED <<extended_prefix, keyboard_queue, keyboard_head, last_code>>

Next == GetEvent \/ \E sc \in ScanCodes : Interrupt(sc)

Spec == Init /\ [][Next]_vars

-----------------------------------------------------------------------------
(* The ring buffer is never out of step: the slots between tail and head   *)
(* are the ones counted, and each holds a real character.                  *)
RingInStep ==
  /\ (keyboard_tail + keyboard_count) % QUEUE_SIZE = keyboard_head
  /\ \A i \in 0 .. keyboard_count - 1 :
       keyboard_queue[(keyboard_tail + i) % QUEUE_SIZE] # 0

(* The part of the ring in use, in order.                                  *)
Pending == [i \in 1..keyboard_count |->
              keyboard_queue[(keyboard_tail + i - 1) % QUEUE_SIZE]]

(* The ring buffer implements the queue: characters come out in the order  *)
(* they were typed, none twice, and only a full queue loses one.           *)
E == INSTANCE EventQueue WITH
       Capacity <- QUEUE_SIZE, Events <- 1..127, events <- Pending, last <- last_char
ImplementsQueue == E!QSpec

(* A key pressed while there is room is queued, and a release or the byte  *)
(* after an unfinished extended sequence never queues a character of its   *)
(* own: only the byte sent and whether the one before it was 0xE0 matter.  *)
Queues(prev, sc) ==
  sc < 128 /\ (sc \in Arrows \/ (prev # 224 /\ sc < 58 /\ sc \notin Blank))

KeysAreQueued ==
  [][\A sc \in ScanCodes : Interrupt(sc) =>
       Len(Pending') = IF Queues(last_code, sc) /\ keyboard_count < QUEUE_SIZE
                       THEN Len(Pending) + 1 ELSE Len(Pending)]_vars
=============================================================================
