--------------------------- MODULE Keyboard_proofs ---------------------------
(***************************************************************************)
(* Proofs about Keyboard, for every queue size and set of scan codes: the  *)
(* ring buffer stays in step and implements EventQueue.                    *)
(***************************************************************************)
EXTENDS Keyboard, SequenceTheorems, TLAPS

(* Positions of the ring: up to one turn ahead of an index, the remainder  *)
(* is the index itself or one turn less.                                   *)
LEMMA RingIndex ==
  ASSUME NEW x \in Nat, x < 2 * QUEUE_SIZE
  PROVE  x % QUEUE_SIZE = IF x < QUEUE_SIZE THEN x ELSE x - QUEUE_SIZE
<1> USE KeyboardAssumption
<1>1. CASE x < QUEUE_SIZE
  BY <1>1
<1>2. CASE x >= QUEUE_SIZE
  <2>1. x - QUEUE_SIZE \in 0 .. QUEUE_SIZE - 1
    BY <1>2
  <2>2. x = QUEUE_SIZE * 1 + (x - QUEUE_SIZE)
    OBVIOUS
  <2> QED BY <1>2, <2>1, <2>2
<1> QED BY <1>1, <1>2

(* The position i places after index t.                                    *)
Slot(t, i) == (t + i) % QUEUE_SIZE

(* Slot is an index of the ring, at most one turn ahead.                   *)
LEMMA SlotFacts ==
  ASSUME NEW t \in Index, NEW i \in 0..QUEUE_SIZE
  PROVE  /\ Slot(t, i) = IF t + i < QUEUE_SIZE THEN t + i ELSE t + i - QUEUE_SIZE
         /\ Slot(t, i) \in Index
<1>1. (t + i) % QUEUE_SIZE = IF t + i < QUEUE_SIZE THEN t + i ELSE t + i - QUEUE_SIZE
  BY KeyboardAssumption, RingIndex DEF Index
<1> QED BY <1>1, KeyboardAssumption DEF Slot, Index

-----------------------------------------------------------------------------
(* The invariant: the ring is in step, and extended_prefix remembers of    *)
(* the bytes sent before just whether the last one was 0xE0.               *)
PrefixIsLast == extended_prefix <=> last_code = 224

Inv == TypeOK /\ RingInStep /\ PrefixIsLast

(* What translate_scan_code returns is a character exactly for the codes   *)
(* that are to be queued.                                                  *)
LEMMA TranslateFacts ==
  ASSUME PrefixIsLast, NEW sc \in ScanCodes
  PROVE  /\ Translate(sc) \in 0..127
         /\ Translate(sc) # 0 <=> Queues(last_code, sc)
BY KeyboardAssumption DEF PrefixIsLast, Translate, Queues, Arrows, Blank

(* What a step does to the ring, as a choice of three: nothing, a          *)
(* character stored at the head, or one taken from the tail.               *)
Stored(c) ==
  /\ keyboard_count < QUEUE_SIZE
  /\ keyboard_queue' = [keyboard_queue EXCEPT ![keyboard_head] = c]
  /\ keyboard_head' = (keyboard_head + 1) % QUEUE_SIZE
  /\ keyboard_count' = keyboard_count + 1
  /\ UNCHANGED <<keyboard_tail, last_char>>

(* The keyboard interrupt stores the translated code, or leaves the ring.  *)
LEMMA InterruptCases ==
  ASSUME Inv, NEW sc \in ScanCodes, Interrupt(sc)
  PROVE  /\ extended_prefix' = (sc = 224) /\ last_code' = sc
         /\ Queues(last_code, sc) /\ keyboard_count < QUEUE_SIZE =>
              Translate(sc) \in 1..127 /\ Stored(Translate(sc))
         /\ ~(Queues(last_code, sc) /\ keyboard_count < QUEUE_SIZE) =>
              UNCHANGED <<queue, last_char>>
<1>1. keyboard_count \in Nat /\ QUEUE_SIZE \in Nat /\ PrefixIsLast
  BY KeyboardAssumption DEF Inv, TypeOK
<1>2. Translate(sc) \in 0..127 /\ (Translate(sc) # 0 <=> Queues(last_code, sc))
  BY <1>1, TranslateFacts
<1> QED BY <1>1, <1>2 DEF Interrupt, EnqueueEvent, Stored, queue

(* The empty ring of keyboard_init.                                        *)
LEMMA InitInv == Init => Inv
<1> SUFFICES ASSUME Init PROVE Inv
  OBVIOUS
<1>1. QUEUE_SIZE \in Nat \ {0} /\ 0 \in Index
  BY KeyboardAssumption DEF Index
<1>2. TypeOK
  <2>1. keyboard_queue = [i \in Index |-> 0] /\ 0 \in 0..127 /\ 0 \in 0..QUEUE_SIZE /\ 0 \in 0..255
    BY <1>1 DEF Init
  <2>2. keyboard_queue \in [Index -> 0..127]
    BY <2>1
  <2> QED BY <1>1, <2>1, <2>2 DEF Init, TypeOK
<1>3. PrefixIsLast
  BY DEF Init, PrefixIsLast
<1>4. 0 % QUEUE_SIZE = 0
  BY <1>1, KeyboardAssumption, RingIndex
<1> QED BY <1>1, <1>2, <1>3, <1>4 DEF Init, Inv, RingInStep

(* Storing a character keeps the ring in step.                             *)
LEMMA StoredInStep ==
  ASSUME TypeOK, RingInStep, NEW c \in 1..127, Stored(c)
  PROVE  /\ keyboard_queue' \in [Index -> 0..127]
         /\ keyboard_head' \in Index
         /\ keyboard_count' \in 0..QUEUE_SIZE
         /\ RingInStep'
         /\ \A i \in 0 .. keyboard_count - 1 :
              keyboard_queue'[Slot(keyboard_tail, i)] = keyboard_queue[Slot(keyboard_tail, i)]
         /\ keyboard_queue'[Slot(keyboard_tail, keyboard_count)] = c
<1> DEFINE Q == QUEUE_SIZE
           h == keyboard_head
           t == keyboard_tail
           n == keyboard_count
<1>1. /\ Q \in Nat \ {0} /\ h \in 0 .. Q - 1 /\ t \in 0 .. Q - 1 /\ n \in 0 .. Q - 1
      /\ keyboard_queue \in [Index -> 0..127] /\ Index = 0 .. Q - 1
  BY KeyboardAssumption DEF TypeOK, Index, Stored
<1>2. \A i \in 0 .. Q : /\ Slot(t, i) = IF t + i < Q THEN t + i ELSE t + i - Q
                        /\ Slot(t, i) \in Index
  BY <1>1, SlotFacts
<1>3. Slot(t, n) = h /\ \A i \in 0 .. n - 1 : keyboard_queue[Slot(t, i)] # 0
  BY DEF RingInStep, Slot
<1>4. \A i \in 0 .. n - 1 : Slot(t, i) # h /\ Slot(t, i) \in Index
  <2> TAKE i \in 0 .. n - 1
  <2>1. i \in 0..Q /\ n \in 0..Q
    BY <1>1
  <2>2. /\ Slot(t, i) = IF t + i < Q THEN t + i ELSE t + i - Q
        /\ h = IF t + n < Q THEN t + n ELSE t + n - Q
        /\ Slot(t, i) \in Index
    BY <1>2, <1>3, <2>1
  <2> QED BY <1>1, <2>2
<1>5. /\ keyboard_queue' = [keyboard_queue EXCEPT ![h] = c]
      /\ keyboard_head' = Slot(h, 1) /\ keyboard_count' = n + 1 /\ keyboard_tail' = t
  BY DEF Stored, Slot
<1>6. /\ \A i \in 0 .. n - 1 : keyboard_queue'[Slot(t, i)] = keyboard_queue[Slot(t, i)]
      /\ keyboard_queue'[Slot(t, n)] = c
      /\ keyboard_queue' \in [Index -> 0..127]
  BY <1>1, <1>3, <1>4, <1>5
<1>7. Slot(h, 1) \in Index /\ Slot(h, 1) = Slot(t, n + 1)
  <2>1. h \in Index /\ 1 \in 0..Q /\ n \in 0..Q /\ n + 1 \in 0..Q
    BY <1>1
  <2>2. Slot(h, 1) \in Index /\ Slot(h, 1) = IF h + 1 < Q THEN h + 1 ELSE h + 1 - Q
    BY <2>1, SlotFacts
  <2>3. /\ Slot(t, n + 1) = IF t + (n + 1) < Q THEN t + (n + 1) ELSE t + (n + 1) - Q
        /\ h = IF t + n < Q THEN t + n ELSE t + n - Q
    BY <1>2, <1>3, <2>1
  <2> QED BY <1>1, <2>2, <2>3
<1>8. \A i \in 0 .. n : keyboard_queue'[Slot(t, i)] # 0
  <2> TAKE i \in 0 .. n
  <2>1. i \in 0 .. n - 1 \/ i = n
    BY <1>1
  <2> QED BY <1>3, <1>6, <2>1
<1>9. RingInStep'
  <2>1. keyboard_count' - 1 = n
    BY <1>1, <1>5
  <2>2. Slot(keyboard_tail', keyboard_count') = keyboard_head'
    BY <1>5, <1>7
  <2> QED BY <1>5, <1>8, <2>1, <2>2 DEF RingInStep, Slot
<1>10. keyboard_count' \in 0..Q
  BY <1>1, <1>5
<1> QED BY <1>5, <1>6, <1>7, <1>9, <1>10

(* Taking a character keeps the ring in step, and moves every position of  *)
(* the rest by one.                                                        *)
LEMMA TakenInStep ==
  ASSUME TypeOK, RingInStep, GetEvent
  PROVE  /\ last_char' \in 1..127
         /\ keyboard_tail' \in Index
         /\ keyboard_count' \in 0..QUEUE_SIZE
         /\ RingInStep'
         /\ \A i \in 0 .. keyboard_count - 2 :
              Slot(keyboard_tail', i) = Slot(keyboard_tail, i + 1)
         /\ last_char' = keyboard_queue[Slot(keyboard_tail, 0)]
<1> DEFINE Q == QUEUE_SIZE
           h == keyboard_head
           t == keyboard_tail
           n == keyboard_count
           r == Slot(t, 1)
<1>1. /\ Q \in Nat \ {0} /\ h \in 0 .. Q - 1 /\ t \in 0 .. Q - 1 /\ n \in 1 .. Q
      /\ keyboard_queue \in [Index -> 0..127] /\ Index = 0 .. Q - 1
  BY KeyboardAssumption DEF TypeOK, Index, GetEvent
<1>2. /\ keyboard_queue' = keyboard_queue /\ keyboard_head' = h /\ keyboard_count' = n - 1
      /\ keyboard_tail' = r /\ last_char' = keyboard_queue[t]
  BY DEF GetEvent, Slot
<1>3. Slot(t, n) = h /\ \A i \in 0 .. n - 1 : keyboard_queue[Slot(t, i)] # 0
  BY DEF RingInStep, Slot
<1>4. r \in Index /\ r = IF t + 1 < Q THEN t + 1 ELSE t + 1 - Q
  <2>1. t \in Index /\ 1 \in 0..Q
    BY <1>1
  <2> QED BY <2>1, SlotFacts
<1>5. Slot(t, 0) = t
  <2>1. t \in Index /\ 0 \in 0..Q
    BY <1>1
  <2>2. Slot(t, 0) = IF t + 0 < Q THEN t + 0 ELSE t + 0 - Q
    BY <2>1, SlotFacts
  <2> QED BY <1>1, <2>2
<1> HIDE DEF r
<1>6. \A i \in 0 .. n - 1 : Slot(r, i) = Slot(t, i + 1)
  <2> TAKE i \in 0 .. n - 1
  <2>1. i \in 0..Q /\ i + 1 \in 0..Q /\ t \in Index
    BY <1>1
  <2>2. /\ Slot(t, i + 1) = IF t + (i + 1) < Q THEN t + (i + 1) ELSE t + (i + 1) - Q
        /\ Slot(r, i) = IF r + i < Q THEN r + i ELSE r + i - Q
    BY <1>4, <2>1, SlotFacts
  <2> QED BY <1>1, <1>4, <2>1, <2>2
<1>7. last_char' \in 1..127 /\ last_char' = keyboard_queue[Slot(t, 0)]
  <2>1. 0 \in 0 .. n - 1 /\ t \in Index
    BY <1>1
  <2>2. keyboard_queue[t] # 0 /\ keyboard_queue[t] \in 0..127
    BY <1>1, <1>3, <1>5, <2>1
  <2> QED BY <1>2, <1>5, <2>2
<1>8. Slot(r, n - 1) = h
  <2>1. n - 1 \in 0 .. n - 1 /\ (n - 1) + 1 = n
    BY <1>1
  <2> QED BY <1>3, <1>6, <2>1
<1>9. \A i \in 0 .. n - 2 : keyboard_queue[Slot(r, i)] # 0 /\ Slot(r, i) = Slot(t, i + 1)
  <2> TAKE i \in 0 .. n - 2
  <2>1. i \in 0 .. n - 1 /\ i + 1 \in 0 .. n - 1
    BY <1>1
  <2> QED BY <1>3, <1>6, <2>1
<1>10. RingInStep'
  <2>1. keyboard_count' - 1 = n - 2
    BY <1>1, <1>2
  <2>2. Slot(keyboard_tail', keyboard_count') = keyboard_head'
    BY <1>2, <1>8
  <2> QED BY <1>2, <1>9, <2>1, <2>2 DEF RingInStep, Slot
<1>11. keyboard_count' \in 0..Q
  BY <1>1, <1>2
<1> QED BY <1>2, <1>4, <1>7, <1>9, <1>10, <1>11

(* The interrupt and the reader keep the invariant.                        *)
LEMMA NextInv == Inv /\ [Next]_vars => Inv'
<1> SUFFICES ASSUME Inv, [Next]_vars PROVE Inv'
  OBVIOUS
<1>1. ASSUME NEW sc \in ScanCodes, Interrupt(sc) PROVE Inv'
  <2>1. /\ extended_prefix' = (sc = 224) /\ last_code' = sc /\ sc \in 0..255
    BY <1>1, KeyboardAssumption DEF Interrupt
  <2>2. PrefixIsLast' /\ extended_prefix' \in BOOLEAN
    BY <2>1 DEF PrefixIsLast
  <2>3. CASE Queues(last_code, sc) /\ keyboard_count < QUEUE_SIZE
    <3>1. Translate(sc) \in 1..127 /\ Stored(Translate(sc))
      BY <1>1, <2>3, InterruptCases
    <3>2. /\ keyboard_queue' \in [Index -> 0..127] /\ keyboard_head' \in Index
          /\ keyboard_count' \in 0..QUEUE_SIZE /\ RingInStep'
      BY <3>1, StoredInStep DEF Inv
    <3> QED BY <2>1, <2>2, <3>1, <3>2 DEF Inv, TypeOK, Stored
  <2>4. CASE ~(Queues(last_code, sc) /\ keyboard_count < QUEUE_SIZE)
    <3>1. UNCHANGED <<queue, last_char>>
      BY <1>1, <2>4, InterruptCases
    <3> QED BY <2>1, <2>2, <3>1 DEF Inv, TypeOK, RingInStep, queue
  <2> QED BY <2>3, <2>4
<1>2. CASE GetEvent
  <2>1. /\ last_char' \in 1..127 /\ keyboard_tail' \in Index
        /\ keyboard_count' \in 0..QUEUE_SIZE /\ RingInStep'
    BY <1>2, TakenInStep DEF Inv
  <2> QED BY <1>2, <2>1 DEF Inv, TypeOK, PrefixIsLast, GetEvent
<1>3. CASE UNCHANGED vars
  BY <1>3 DEF vars, queue, Inv, TypeOK, RingInStep, PrefixIsLast
<1> QED BY <1>1, <1>2, <1>3 DEF Next

(* Bytes from the keyboard and reads, in any order, keep the invariant.    *)
THEOREM Invariance == Spec => []Inv
BY InitInv, NextInv, PTL DEF Spec

(* Type correctness: head, tail and count stay within the ring, and what   *)
(* is read is a character.                                                 *)
THEOREM TypeCorrect == Spec => []TypeOK
<1>1. Inv => TypeOK
  BY DEF Inv
<1> QED BY <1>1, Invariance, PTL

(* The slots between tail and head are exactly the ones counted and hold   *)
(* characters, for any size of the ring.                                   *)
THEOREM RingStaysInStep == Spec => []RingInStep
<1>1. Inv => RingInStep
  BY DEF Inv
<1> QED BY <1>1, Invariance, PTL

-----------------------------------------------------------------------------
(* The n characters of the ring q from index t on, as a sequence.          *)
Ring(q, t, n) == [i \in 1..n |-> q[Slot(t, i - 1)]]

(* Ring is a sequence of characters.                                       *)
LEMMA RingSeq ==
  ASSUME NEW q \in [Index -> 0..127], NEW t \in Index, NEW n \in 0..QUEUE_SIZE,
         \A i \in 0 .. n - 1 : q[Slot(t, i)] # 0
  PROVE  /\ Ring(q, t, n) \in Seq(1..127)
         /\ Len(Ring(q, t, n)) = n
         /\ \A i \in 1..n : Ring(q, t, n)[i] = q[Slot(t, i - 1)]
<1> DEFINE s == Ring(q, t, n)
<1>1. n \in Nat /\ QUEUE_SIZE \in Nat
  BY KeyboardAssumption
<1>2. \A i \in 1..n : q[Slot(t, i - 1)] \in 1..127
  <2> TAKE i \in 1..n
  <2>1. i - 1 \in 0 .. n - 1 /\ i - 1 \in 0..QUEUE_SIZE
    BY <1>1
  <2>2. Slot(t, i - 1) \in Index
    BY <2>1, SlotFacts
  <2>3. q[Slot(t, i - 1)] \in 0..127 /\ q[Slot(t, i - 1)] # 0
    BY <2>1, <2>2
  <2> QED BY <2>3
<1>3. s \in [1..n -> 1..127] /\ DOMAIN s = 1..n
  BY <1>2 DEF Ring
<1>4. s \in Seq(1..127)
  BY <1>1, <1>3, SeqDef
<1>5. Len(s) \in Nat /\ DOMAIN s = 1..Len(s)
  BY <1>4, LenProperties
<1>6. Len(s) = n
  BY <1>1, <1>3, <1>5
<1> QED BY <1>4, <1>6 DEF Ring

(* The sequence Pending that the ring stands for.                          *)
LEMMA PendingIsRing ==
  /\ Pending  = Ring(keyboard_queue, keyboard_tail, keyboard_count)
  /\ Pending' = Ring(keyboard_queue', keyboard_tail', keyboard_count')
BY DEF Pending, Ring, Slot

(* The empty ring stands for the empty queue.                              *)
LEMMA InitRefines == Init => E!QInit
<1> SUFFICES ASSUME Init PROVE E!QInit
  OBVIOUS
<1>1. /\ keyboard_queue \in [Index -> 0..127] /\ keyboard_tail \in Index
      /\ keyboard_count \in 0..QUEUE_SIZE /\ keyboard_count = 0
      /\ \A i \in 0 .. keyboard_count - 1 : keyboard_queue[Slot(keyboard_tail, i)] # 0
  BY InitInv DEF Inv, TypeOK, RingInStep, Slot, Init
<1>2. Pending \in Seq(1..127) /\ Len(Pending) = 0
  BY <1>1, RingSeq, PendingIsRing
<1>3. Pending = << >>
  BY <1>2, EmptySeq
<1> QED BY <1>3 DEF Init, E!QInit

(* A stored character is appended.                                         *)
LEMMA StoredAppends ==
  ASSUME TypeOK, RingInStep, NEW c \in 1..127, Stored(c)
  PROVE  Len(Pending) < QUEUE_SIZE /\ Pending' = Append(Pending, c)
         /\ Len(Pending) = keyboard_count /\ Len(Pending') = keyboard_count + 1
<1> DEFINE n == keyboard_count
<1>1. /\ keyboard_queue \in [Index -> 0..127] /\ keyboard_tail \in Index
      /\ n \in 0..QUEUE_SIZE /\ n \in Nat
      /\ \A i \in 0 .. n - 1 : keyboard_queue[Slot(keyboard_tail, i)] # 0
  BY KeyboardAssumption DEF TypeOK, RingInStep, Slot
<1>2. /\ keyboard_queue' \in [Index -> 0..127] /\ keyboard_tail' = keyboard_tail
      /\ keyboard_count' \in 0..QUEUE_SIZE /\ keyboard_count' = n + 1
      /\ n < QUEUE_SIZE
      /\ \A i \in 0 .. n - 1 : keyboard_queue'[Slot(keyboard_tail, i)]
                                 = keyboard_queue[Slot(keyboard_tail, i)]
      /\ keyboard_queue'[Slot(keyboard_tail, n)] = c
  BY StoredInStep DEF Stored
<1>3. \A i \in 0 .. keyboard_count' - 1 : keyboard_queue'[Slot(keyboard_tail', i)] # 0
  BY StoredInStep DEF RingInStep, Slot
<1>4. /\ Pending \in Seq(1..127) /\ Len(Pending) = n
      /\ \A i \in 1..n : Pending[i] = keyboard_queue[Slot(keyboard_tail, i - 1)]
  BY <1>1, RingSeq, PendingIsRing
<1>5. /\ Pending' \in Seq(1..127) /\ Len(Pending') = n + 1
      /\ \A i \in 1 .. n + 1 : Pending'[i] = keyboard_queue'[Slot(keyboard_tail, i - 1)]
  BY <1>1, <1>2, <1>3, RingSeq, PendingIsRing
<1>6. /\ Append(Pending, c) \in Seq(1..127) /\ Len(Append(Pending, c)) = n + 1
      /\ \A i \in 1..n : Append(Pending, c)[i] = Pending[i]
      /\ Append(Pending, c)[n + 1] = c
  BY <1>4, AppendProperties
<1>7. \A i \in 1 .. n + 1 : Pending'[i] = Append(Pending, c)[i]
  <2> TAKE i \in 1 .. n + 1
  <2>1. CASE i \in 1..n
    <3>1. i - 1 \in 0 .. n - 1
      BY <1>1, <2>1
    <3> QED BY <1>2, <1>4, <1>5, <1>6, <2>1, <3>1
  <2>2. CASE i = n + 1
    <3>1. i - 1 = n
      BY <1>1, <2>2
    <3> QED BY <1>2, <1>5, <1>6, <2>2, <3>1
  <2>3. i \in 1..n \/ i = n + 1
    BY <1>1
  <2> QED BY <2>1, <2>2, <2>3
<1>8. Pending' = Append(Pending, c)
  BY <1>5, <1>6, <1>7, SeqEqual
<1> QED BY <1>2, <1>4, <1>5, <1>8

(* The character read is the oldest, and the others stay in order.         *)
LEMMA TakenIsHead ==
  ASSUME TypeOK, RingInStep, GetEvent
  PROVE  Pending # << >> /\ last_char' = Head(Pending) /\ Pending' = Tail(Pending)
<1> DEFINE n == keyboard_count
<1>1. /\ keyboard_queue \in [Index -> 0..127] /\ keyboard_tail \in Index
      /\ n \in 0..QUEUE_SIZE /\ n \in Nat /\ n > 0
      /\ \A i \in 0 .. n - 1 : keyboard_queue[Slot(keyboard_tail, i)] # 0
  BY KeyboardAssumption DEF TypeOK, RingInStep, Slot, GetEvent
<1>2. /\ keyboard_queue' = keyboard_queue /\ keyboard_tail' \in Index
      /\ keyboard_count' \in 0..QUEUE_SIZE /\ keyboard_count' = n - 1
      /\ last_char' = keyboard_queue[Slot(keyboard_tail, 0)]
      /\ \A i \in 0 .. n - 2 : Slot(keyboard_tail', i) = Slot(keyboard_tail, i + 1)
  BY TakenInStep DEF GetEvent
<1>3. \A i \in 0 .. keyboard_count' - 1 : keyboard_queue'[Slot(keyboard_tail', i)] # 0
  BY TakenInStep DEF RingInStep, Slot
<1>4. /\ Pending \in Seq(1..127) /\ Len(Pending) = n
      /\ \A i \in 1..n : Pending[i] = keyboard_queue[Slot(keyboard_tail, i - 1)]
  BY <1>1, RingSeq, PendingIsRing
<1>5. /\ Pending' \in Seq(1..127) /\ Len(Pending') = n - 1
      /\ \A i \in 1 .. n - 1 : Pending'[i] = keyboard_queue[Slot(keyboard_tail', i - 1)]
  BY <1>1, <1>2, <1>3, RingSeq, PendingIsRing
<1>6. Pending # << >>
  BY <1>1, <1>4, EmptySeq
<1>7. /\ Tail(Pending) \in Seq(1..127) /\ Len(Tail(Pending)) = n - 1
      /\ \A i \in 1 .. n - 1 : Tail(Pending)[i] = Pending[i + 1]
  BY <1>4, <1>6, HeadTailProperties
<1>8. \A i \in 1 .. n - 1 : Pending'[i] = Tail(Pending)[i]
  <2> TAKE i \in 1 .. n - 1
  <2>1. i - 1 \in 0 .. n - 2 /\ i + 1 \in 1..n /\ (i - 1) + 1 = i /\ (i + 1) - 1 = i
    BY <1>1
  <2> QED BY <1>2, <1>4, <1>5, <1>7, <2>1
<1>9. Pending' = Tail(Pending)
  BY <1>5, <1>7, <1>8, SeqEqual
<1>10. Head(Pending) = last_char'
  <2>1. Head(Pending) = Pending[1]
    BY <1>4, <1>6
  <2>2. 1 \in 1..n /\ 1 - 1 = 0
    BY <1>1
  <2> QED BY <1>2, <1>4, <2>1, <2>2
<1> QED BY <1>6, <1>9, <1>10

(* Every step of the driver is a step of the queue or changes nothing.     *)
LEMMA StepRefines == Inv /\ [Next]_vars => [E!QNext]_<<Pending, last_char>>
<1> SUFFICES ASSUME Inv, [Next]_vars
             PROVE  E!QNext \/ UNCHANGED <<Pending, last_char>>
  OBVIOUS
<1>1. ASSUME NEW sc \in ScanCodes, Interrupt(sc)
      PROVE  E!QNext \/ UNCHANGED <<Pending, last_char>>
  <2>1. CASE Queues(last_code, sc) /\ keyboard_count < QUEUE_SIZE
    <3>1. Translate(sc) \in 1..127 /\ Stored(Translate(sc))
      BY <1>1, <2>1, InterruptCases
    <3>2. /\ Len(Pending) < QUEUE_SIZE /\ Pending' = Append(Pending, Translate(sc))
          /\ UNCHANGED last_char
      BY <3>1, StoredAppends DEF Inv, Stored
    <3>3. E!Put(Translate(sc))
      BY <3>2 DEF E!Put
    <3> QED BY <3>1, <3>3 DEF E!QNext
  <2>2. CASE ~(Queues(last_code, sc) /\ keyboard_count < QUEUE_SIZE)
    BY <1>1, <2>2, InterruptCases DEF queue, Pending
  <2> QED BY <2>1, <2>2
<1>2. CASE GetEvent
  BY <1>2, TakenIsHead DEF Inv, E!QNext, E!Take
<1>3. CASE UNCHANGED vars
  BY <1>3 DEF vars, queue, Pending
<1> QED BY <1>1, <1>2, <1>3 DEF Next

(* The ring buffer with its interrupt handler and reader implements the    *)
(* first-in first-out queue, for any size: nothing is read twice, out of   *)
(* order or lost, except when the ring is full.                            *)
THEOREM RingImplementsQueue == Spec => ImplementsQueue
BY InitRefines, StepRefines, Invariance, PTL DEF Spec, ImplementsQueue, E!QSpec

(* Whether a byte from the keyboard queues a character depends only on it, *)
(* on whether the byte before was 0xE0, and on whether there is room.      *)
THEOREM KeysQueuedCorrectly == Spec => KeysAreQueued
<1> DEFINE A == \A sc \in ScanCodes : Interrupt(sc) =>
                  Len(Pending') = IF Queues(last_code, sc) /\ keyboard_count < QUEUE_SIZE
                                  THEN Len(Pending) + 1 ELSE Len(Pending)
<1>1. Inv /\ [Next]_vars => [A]_vars
  <2> SUFFICES ASSUME Inv, NEW sc \in ScanCodes, Interrupt(sc)
               PROVE  Len(Pending') = IF Queues(last_code, sc) /\ keyboard_count < QUEUE_SIZE
                                      THEN Len(Pending) + 1 ELSE Len(Pending)
    OBVIOUS
  <2>1. CASE Queues(last_code, sc) /\ keyboard_count < QUEUE_SIZE
    <3>1. Translate(sc) \in 1..127 /\ Stored(Translate(sc))
      BY <2>1, InterruptCases
    <3> QED BY <2>1, <3>1, StoredAppends DEF Inv
  <2>2. CASE ~(Queues(last_code, sc) /\ keyboard_count < QUEUE_SIZE)
    <3>1. Pending' = Pending
      BY <2>2, InterruptCases DEF queue, Pending
    <3> QED BY <2>2, <3>1
  <2> QED BY <2>1, <2>2
<1> QED BY <1>1, Invariance, PTL DEF Spec, KeysAreQueued
=============================================================================
