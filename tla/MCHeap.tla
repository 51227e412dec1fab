-------------------------------- MODULE MCHeap --------------------------------
(* Instances of Heap for TLC: a page of four units and three pages, so     *)
(* that chunks are split, used whole, merged on either side, and the heap  *)
(* grows by one and by two pages.  250 bytes are rounded to 0 modulo 256.  *)
EXTENDS Heap

MCSizes == {1, 20, 64, 250}
=============================================================================
