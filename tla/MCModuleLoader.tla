--------------------------- MODULE MCModuleLoader ---------------------------
(* ModuleLoader for TLC: memories of four-byte frames and a few objects.   *)
EXTENDS ModuleLoader

Mem(addr, len, type) == [addr |-> addr, len |-> len, type |-> type]
Map(map) == [mmap |-> TRUE, map |-> map, mmap_addr |-> 21, mmap_length |-> 3, top |-> 4]

(* Frames 0-1 are the BIOS area, 3-4 the kernel image (bytes 12 to 18), 5  *)
(* the memory map.  A map whose regions begin and end inside frames; one   *)
(* that reaches beyond the bitmap; one with an empty region at 0; and none *)
(* at all.                                                                 *)
MCBootInfos ==
  { Map(<<Mem(0, 6, 1), Mem(6, 2, 2), Mem(9, 29, 1), Mem(38, 10, 2)>>),
    Map(<<Mem(8, 18, 1), Mem(26, 90, 1)>>),
    Map(<<Mem(8, 18, 1), Mem(0, 0, 1)>>),
    [mmap |-> FALSE, map |-> << >>, mmap_addr |-> 0, mmap_length |-> 1, top |-> 27] }

Sec(pages, align) == [pages |-> pages, align |-> align, inFile |-> TRUE]
Object(name, secs) ==
  [header |-> TRUE, sections |-> secs, undefined |-> {"printk"}, name |-> name,
   nameSec |-> 1, exitSec |-> Len(secs), init |-> "ok"]

MCDesc ==
  [ hello   |-> Object("hello", <<Sec(1, 1), Sec(1, 1)>>),
    small   |-> [Object("hello", <<Sec(1, 1)>>) EXCEPT !.init = "fails"],
    gaps    |-> Object("gaps", <<Sec(1, 1), Sec(1, 2)>>),
    unnamed |-> [Object("unnamed", <<Sec(1, 1), Sec(2, 1)>>)
                   EXCEPT !.nameSec = 0, !.exitSec = 0, !.init = "none"],
    foreign |-> [Object("foreign", <<Sec(1, 1), Sec(1, 2)>>)
                   EXCEPT !.undefined = {"missing"}],
    cut     |-> Object("cut", <<Sec(1, 1), [Sec(1, 1) EXCEPT !.inFile = FALSE]>>),
    large   |-> Object("large", <<Sec(2, 1), Sec(2, 1)>>),
    broken  |-> [Object("broken", << >>) EXCEPT !.header = FALSE, !.nameSec = 0] ]
MCImages == DOMAIN MCDesc
=============================================================================
