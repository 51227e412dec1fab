------------------------------ MODULE Allocator ------------------------------
(***************************************************************************)
(* What a caller of kmalloc and kfree relies on.  Memory is counted in     *)
(* 16-byte units.  blocks maps the address of each block handed out and    *)
(* not yet freed to the number of units the caller asked for.              *)
(***************************************************************************)
EXTENDS Integers

VARIABLE blocks

Overlap(a, m, b, n) == a < b + n /\ b < a + m

AInit == blocks = [a \in {} |-> 0]

(* A block is handed out: it overlaps none that is in use.                 *)
Alloc(a, n) ==
  /\ a \notin DOMAIN blocks
  /\ \A b \in DOMAIN blocks : ~Overlap(a, n, b, blocks[b])
  /\ blocks' = [b \in DOMAIN blocks \cup {a} |-> IF b = a THEN n ELSE blocks[b]]

Free(a) ==
  /\ a \in DOMAIN blocks
  /\ blocks' = [b \in DOMAIN blocks \ {a} |-> blocks[b]]

ANext == \/ \E a \in DOMAIN blocks' \ DOMAIN blocks : Alloc(a, blocks'[a])
         \/ \E a \in DOMAIN blocks : Free(a)

ASpec == AInit /\ [][ANext]_blocks
=============================================================================
