------------------------------ MODULE EventQueue ------------------------------
(***************************************************************************)
(* What the readers of the keyboard rely on: a first-in first-out queue of *)
(* at most Capacity events; an event that finds it full is dropped.        *)
(***************************************************************************)
EXTENDS Naturals, Sequences

CONSTANTS Capacity, Events

VARIABLES events, last   \* the queue; the event read last

QInit == events = <<>> /\ last = 0

Put(e) == Len(events) < Capacity /\ events' = Append(events, e) /\ UNCHANGED last

Take == events # <<>> /\ last' = Head(events) /\ events' = Tail(events)

QNext == Take \/ \E e \in Events : Put(e)

QSpec == QInit /\ [][QNext]_<<events, last>>
=============================================================================
