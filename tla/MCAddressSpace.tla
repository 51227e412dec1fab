--------------------------- MODULE MCAddressSpace ---------------------------
(* AddressSpace for TLC.                                                   *)
EXTENDS AddressSpace

(* Images: without a page, one and two pages from 0x400000 on, with a gap, *)
(* at another base, with two segments in one page, with one page too many, *)
(* and in the heap.                                                        *)
Code(p)  == <<"code", p>>
MCImages == {<<>>, <<Code(0)>>, <<Code(0), Code(1)>>, <<Code(0), Code(2)>>, <<Code(1)>>,
             <<Code(0), Code(0)>>, <<Code(0), Code(1), Code(2)>>, <<<<"heap", 0>>>>}
=============================================================================
