-------------------------------- MODULE Fat16 --------------------------------
(***************************************************************************)
(* kernel/fat16.c: files in the root directory of a FAT16 volume, the      *)
(* descriptors of open files, and a disk whose sectors may fail and which  *)
(* survives a power failure at any moment.                                 *)
(*                                                                         *)
(* A call is one step for everybody else (system calls run with interrupts *)
(* off), but fat16_read and fat16_write issue many sector accesses, so     *)
(* they are carried out access by access: `call` says where they are.      *)
(* The contents of sectors and the second copy of the FAT, which is never  *)
(* read, are left out.                                                     *)
(***************************************************************************)
EXTENDS Naturals, FiniteSets

CONSTANTS
  Names,      \* 8.3 names, normalised
  ENTRIES,    \* root directory entries
  CLUSTERS,   \* cluster_count
  SECTOR,     \* bytes_per_sector
  SPC,        \* sectors_per_cluster
  MAX_OPEN,   \* FAT16_MAX_OPEN_FILES
  Counts,     \* the byte counts of reads and writes
  MAX_SIZE    \* bound on the size of a file

ASSUME Fat16Assumption ==
  /\ {ENTRIES, CLUSTERS, SECTOR, SPC, MAX_OPEN} \subseteq Nat \ {0}
  /\ Counts \subseteq Nat \ {0}
  /\ MAX_SIZE \in Nat
  /\ {"never", "deleted"} \cap Names = {}

VARIABLES
  fat,       \* the first copy of the FAT
  dir,       \* the root directory
  files,     \* fat16_files
  mounted,   \* fat16_current_fs is set
  call       \* the read or write in progress

vars == <<fat, dir, files, mounted, call>>

FREE     == 0                       \* FAT16_CLUSTER_FREE
MIN      == 2                       \* FAT16_CLUSTER_MIN
Clusters == MIN .. CLUSTERS + 1
BAD      == CLUSTERS + 2            \* FAT16_CLUSTER_BAD
EOC      == CLUSTERS + 3            \* FAT16_CLUSTER_EOC
Entries  == 1..ENTRIES
Files    == 1..MAX_OPEN
CLUSTER_SIZE == SECTOR * SPC

Entry == [name: Names \cup {"never", "deleted"},   \* first byte 0x00, 0xE5
          start: Clusters \cup {FREE}, size: 0..MAX_SIZE]

File == [active: BOOLEAN, modified: BOOLEAN, entry: Entries \cup {0},
         start: Clusters \cup {FREE}, current: Clusters \cup {FREE, BAD},
         size: 0..MAX_SIZE, position: 0..MAX_SIZE]

Call == [at: {"none", "read", "write", "alloc", "link"}, fd: Files \cup {0},
         left: 0..MAX_SIZE, prev: Clusters \cup {FREE}, new: Clusters \cup {FREE}]

TypeOK ==
  /\ fat \in [Clusters -> Clusters \cup {FREE, EOC}]
  /\ dir \in [Entries -> Entry]
  /\ files \in [Files -> File]
  /\ mounted \in BOOLEAN
  /\ call \in Call

Closed == [active |-> FALSE, modified |-> FALSE, entry |-> 0, start |-> FREE,
           current |-> FREE, size |-> 0, position |-> 0]
NoCall == [at |-> "none", fd |-> 0, left |-> 0, prev |-> FREE, new |-> FREE]

(* An empty volume.                                                        *)
Init ==
  /\ fat = [c \in Clusters |-> FREE]
  /\ dir = [e \in Entries |-> [name |-> "never", start |-> FREE, size |-> 0]]
  /\ files = [d \in Files |-> Closed]
  /\ mounted = FALSE
  /\ call = NoCall

-----------------------------------------------------------------------------
Lowest(S) == CHOOSE x \in S : \A y \in S : x <= y

(* fat16_find_root_entry: the search ends at the first entry never used.   *)
Found(n) == {e \in Entries : dir[e].name = n /\ \A d \in 1..e : dir[d].name # "never"}

(* fat16_find_free_root_entry.                                             *)
FreeEntries == {e \in Entries : dir[e].name \in {"never", "deleted"}}

(* fat16_create_root_entry.                                                *)
NewEntry(n) == [name |-> n, start |-> FREE, size |-> 0]

(* fat16_mount.  A boot sector that cannot be read or is not one changes   *)
(* nothing.                                                                *)
Mount ==
  /\ call = NoCall /\ mounted' = TRUE
  /\ UNCHANGED <<fat, dir, files, call>>

(* fat16_create.  A directory that cannot be read during the first search  *)
(* (unread) counts as one without the name.                                *)
Create(n, unread) ==
  /\ call = NoCall /\ mounted
  /\ unread \/ Found(n) = {}
  /\ FreeEntries # {}
  /\ dir' = [dir EXCEPT ![Lowest(FreeEntries)] = NewEntry(n)]
  /\ UNCHANGED <<fat, files, mounted, call>>

(* fat16_delete_root_entry: the first byte of the name becomes 0xE5.       *)
Deleted(e) == [dir EXCEPT ![e].name = "deleted"]

(* fat16_delete marks the entry and leaves the FAT alone.                  *)
Delete(n) ==
  /\ call = NoCall /\ mounted
  /\ Found(n) # {}
  /\ dir' = Deleted(Lowest(Found(n)))
  /\ UNCHANGED <<fat, files, mounted, call>>

(* fat16_open: the first free descriptor gets a copy of the entry.         *)
Open(n) ==
  /\ call = NoCall /\ mounted
  /\ Found(n) # {}
  /\ LET e    == Lowest(Found(n))
         idle == {d \in Files : ~files[d].active}
     IN  /\ ~(dir[e].size > 0 /\ dir[e].start < MIN)
         /\ idle # {}
         /\ files' = [files EXCEPT ![Lowest(idle)] =
                        [active |-> TRUE, modified |-> FALSE, entry |-> e,
                         start |-> dir[e].start, current |-> dir[e].start,
                         size |-> dir[e].size, position |-> 0]]
  /\ UNCHANGED <<fat, dir, mounted, call>>

(* A slip: only the size is written back.                                  *)
UpdatedSizeOnly(f) == [dir EXCEPT ![f.entry].size = f.size]

(* fat16_update_root_entry: first cluster and size, in whatever file the   *)
(* entry belongs to by now.                                                *)
Updated(f) == [dir EXCEPT ![f.entry].start = f.start, ![f.entry].size = f.size]

(* fat16_close.  When the update fails the descriptor stays open.          *)
Close(d) ==
  /\ call = NoCall /\ files[d].active
  /\ dir' = IF files[d].modified THEN Updated(files[d]) ELSE dir
  /\ files' = [files EXCEPT ![d] = Closed]
  /\ UNCHANGED <<fat, mounted, call>>

-----------------------------------------------------------------------------
(* The call returns, with an error or because its loop is done.            *)
Return == call' = NoCall

(* The bytes of one round of the loops: at most to the end of the sector.  *)
Chunk(f) ==
  LET room == SECTOR - ((f.position % CLUSTER_SIZE) % SECTOR)
  IN  IF room > call.left THEN call.left ELSE room

(* sector_in_cluster is the last one and the chunk fills it.               *)
ClusterDone(p) == p % CLUSTER_SIZE = 0

(* fat16_read_fat_entry: BAD when the sector cannot be read.               *)
FatEntry(c) == {fat[c], BAD}

Ends(c) == c < MIN \/ c = EOC

(* fat16_read, up to its loop.  At the end of the file it returns 0.       *)
Read(d, n) ==
  /\ call = NoCall /\ files[d].active
  /\ files[d].position < files[d].size
  /\ LET rest == files[d].size - files[d].position
     IN  call' = [NoCall EXCEPT !.at = "read", !.fd = d, !.left = IF rest > n THEN n ELSE rest]
  /\ UNCHANGED <<fat, dir, files, mounted>>

(* A slip: a sector that cannot be read is tried again for ever.           *)
ReadChunkRetry ==
  /\ call.at = "read"
  /\ files[call.fd].current \in Clusters
  /\ LET f == files[call.fd]
         p == f.position + Chunk(f)
     IN  /\ call' = IF call.left = Chunk(f) THEN NoCall ELSE [call EXCEPT !.left = @ - Chunk(f)]
         /\ \E next \in FatEntry(f.current) :
              files' = [files EXCEPT ![call.fd].position = p,
                          ![call.fd].current =
                             IF p < f.size /\ ClusterDone(p) /\ ~Ends(next) THEN next ELSE @]
  /\ UNCHANGED <<fat, dir, mounted>>

(* A round of the loop of fat16_read.  The sector may be unreadable; that  *)
(* of a cluster BAD is beyond the end of the disk.                         *)
ReadChunk ==
  /\ call.at = "read"
  /\ LET f == files[call.fd]
         p == f.position + Chunk(f)
     IN  \/ Return /\ UNCHANGED files
         \/ /\ f.current \in Clusters
            /\ IF p < f.size /\ ClusterDone(p)
               THEN \E next \in FatEntry(f.current) :
                      IF Ends(next)
                      THEN Return /\ files' = [files EXCEPT ![call.fd].position = p]
                      ELSE /\ files' = [files EXCEPT ![call.fd].position = p,
                                                     ![call.fd].current = next]
                           /\ call' = IF call.left = Chunk(f) THEN NoCall
                                      ELSE [call EXCEPT !.left = @ - Chunk(f)]
               ELSE /\ files' = [files EXCEPT ![call.fd].position = p]
                    /\ call' = IF call.left = Chunk(f) THEN NoCall
                               ELSE [call EXCEPT !.left = @ - Chunk(f)]
  /\ UNCHANGED <<fat, dir, mounted>>

-----------------------------------------------------------------------------
(* fat16_write, up to its loop: an empty file gets its first cluster.      *)
Write(d, n) ==
  /\ call = NoCall /\ files[d].active
  /\ files[d].position + n <= MAX_SIZE
  /\ LET f == files[d]
     IN  /\ files' = [files EXCEPT ![d].current =
                        IF f.current < MIN /\ f.start >= MIN THEN f.start ELSE @]
         /\ call' = [NoCall EXCEPT
                       !.at = IF f.position = 0 /\ f.start < MIN THEN "alloc" ELSE "write",
                       !.fd = d, !.left = n]
  /\ UNCHANGED <<fat, dir, mounted>>

(* A slip: the end of the chain is not recognised.                         *)
WriteChunkNoEnd ==
  /\ call.at = "write"
  /\ LET f  == files[call.fd]
         p  == f.position + Chunk(f)
         g  == [f EXCEPT !.position = p, !.size = IF p > @ THEN p ELSE @]
         go == [call EXCEPT !.left = @ - Chunk(f)]
     IN  /\ f.current \in Clusters
         /\ IF call.left = Chunk(f)
            THEN Return /\ files' = [files EXCEPT ![call.fd] = [g EXCEPT !.modified = TRUE]]
            ELSE /\ call' = go
                 /\ files' = [files EXCEPT ![call.fd] =
                       IF ClusterDone(p) THEN [g EXCEPT !.current = fat[f.current]] ELSE g]
  /\ UNCHANGED <<fat, dir, mounted>>

(* A round of the loop of fat16_write.  The descriptor is marked modified  *)
(* only when the whole call succeeds, and the move to the next cluster is  *)
(* left out when nothing remains to be written.                            *)
WriteChunk ==
  /\ call.at = "write"
  /\ LET f  == files[call.fd]
         p  == f.position + Chunk(f)
         g  == [f EXCEPT !.position = p, !.size = IF p > @ THEN p ELSE @]
         go == [call EXCEPT !.left = @ - Chunk(f)]
     IN  \/ Return /\ UNCHANGED files
         \/ /\ f.current \in Clusters
            /\ IF call.left = Chunk(f)
               THEN Return /\ files' = [files EXCEPT ![call.fd] = [g EXCEPT !.modified = TRUE]]
               ELSE IF ~ClusterDone(p)
               THEN call' = go /\ files' = [files EXCEPT ![call.fd] = g]
               ELSE \E next \in FatEntry(f.current) :
                      IF Ends(next)
                      THEN /\ call' = [go EXCEPT !.at = "alloc", !.prev = f.current]
                           /\ files' = [files EXCEPT ![call.fd] = g]
                      ELSE /\ call' = go
                           /\ files' = [files EXCEPT ![call.fd] = [g EXCEPT !.current = next]]
  /\ UNCHANGED <<fat, dir, mounted>>

(* A slip: the new cluster is not marked.                                  *)
AllocUnmarked ==
  /\ call.at = "alloc"
  /\ \E c \in {d \in Clusters : fat[d] = FREE} :
       /\ UNCHANGED fat
       /\ IF call.prev >= MIN
          THEN call' = [call EXCEPT !.at = "link", !.new = c] /\ UNCHANGED files
          ELSE /\ call' = [call EXCEPT !.at = "write"]
               /\ files' = [files EXCEPT ![call.fd].start = c, ![call.fd].current = c]
  /\ UNCHANGED <<dir, mounted>>

(* fat16_allocate_cluster: a free cluster is found and marked as the end   *)
(* of a chain.  A sector of the FAT that cannot be read makes the search   *)
(* pass over an entry, so any free cluster may be found, or none.  The     *)
(* call fails before the mark, or after it when it is the second copy of   *)
(* the FAT that cannot be written.                                         *)
Alloc ==
  /\ call.at = "alloc"
  /\ \/ Return /\ UNCHANGED <<fat, files>>
     \/ \E c \in {d \in Clusters : fat[d] = FREE} :
          /\ fat' = [fat EXCEPT ![c] = EOC]
          /\ \/ Return /\ UNCHANGED files
             \/ /\ call.prev >= MIN
                /\ call' = [call EXCEPT !.at = "link", !.new = c] /\ UNCHANGED files
             \/ /\ call.prev < MIN
                /\ call' = [call EXCEPT !.at = "write"]
                /\ files' = [files EXCEPT ![call.fd].start = c, ![call.fd].current = c]
  /\ UNCHANGED <<dir, mounted>>

(* Slips: the link is not written; it is written behind the first cluster. *)
LinkNotWritten ==
  /\ call.at = "link"
  /\ call' = [call EXCEPT !.at = "write", !.prev = FREE, !.new = FREE]
  /\ files' = [files EXCEPT ![call.fd].current = call.new]
  /\ UNCHANGED <<fat, dir, mounted>>

LinkAtStart ==
  /\ call.at = "link"
  /\ fat' = [fat EXCEPT ![files[call.fd].start] = call.new]
  /\ call' = [call EXCEPT !.at = "write", !.prev = FREE, !.new = FREE]
  /\ files' = [files EXCEPT ![call.fd].current = call.new]
  /\ UNCHANGED <<dir, mounted>>

(* ... and linked behind the previous one.                                 *)
Link ==
  /\ call.at = "link"
  /\ \/ Return /\ UNCHANGED <<fat, files>>
     \/ /\ fat' = [fat EXCEPT ![call.prev] = call.new]
        /\ \/ Return /\ UNCHANGED files
           \/ /\ call' = [call EXCEPT !.at = "write", !.prev = FREE, !.new = FREE]
              /\ files' = [files EXCEPT ![call.fd].current = call.new]
  /\ UNCHANGED <<dir, mounted>>

(* Power fails, between any two sector writes; the disk remains.           *)
PowerFailure ==
  /\ files' = [d \in Files |-> Closed]
  /\ mounted' = FALSE
  /\ call' = NoCall
  /\ UNCHANGED <<fat, dir>>

Step == ReadChunk \/ WriteChunk \/ Alloc \/ Link

Next ==
  \/ Mount
  \/ \E n \in Names, unread \in BOOLEAN : Create(n, unread)
  \/ \E n \in Names : Delete(n)
  \/ \E n \in Names : Open(n)
  \/ \E d \in Files : Close(d)
  \/ \E d \in Files, n \in Counts : Read(d, n)
  \/ \E d \in Files, n \in Counts : Write(d, n)
  \/ Step
  \/ PowerFailure

Spec == Init /\ [][Next]_vars

(* A call that has begun is carried on: nothing else runs meanwhile.       *)
FairSpec == Spec /\ WF_vars(Step)

-----------------------------------------------------------------------------
Live(e) == dir[e].name \in Names

(* The clusters met when the chain of c is followed in the FAT f.          *)
Walk(f, c) ==
  LET walk[i \in 0..CLUSTERS] ==
        IF i = 0 THEN c
        ELSE IF walk[i-1] \in Clusters THEN f[walk[i-1]] ELSE FREE
  IN  walk

ChainIn(f, c) == LET walk == Walk(f, c) IN {walk[i] : i \in 0..CLUSTERS} \cap Clusters
Chain(c)      == ChainIn(fat, c)

(* The FAT is a set of disjoint chains, each with an end: no link leads    *)
(* into a free cluster, two links never meet and none leads back, whatever *)
(* writes, failed writes and power failures came before.                   *)
ChainsDisjoint ==
  \A c \in Clusters : fat[c] \in Clusters =>
    /\ fat[fat[c]] # FREE
    /\ c \notin Chain(fat[c])
    /\ \A d \in Clusters \ {c} : fat[d] # fat[c]

(* No two files share a cluster, and what an entry refers to is allocated: *)
(* also when files were deleted, their entries given to others and closed  *)
(* through descriptors opened before.                                      *)
FilesDisjoint ==
  \A e \in Entries : Live(e) =>
    /\ dir[e].size > 0 => dir[e].start >= MIN
    /\ dir[e].start >= MIN => fat[dir[e].start] # FREE
    /\ \A g \in Entries \ {e} : Live(g) => Chain(dir[e].start) \cap Chain(dir[g].start) = {}

(* An open file reads and writes only in its own chain: current_cluster is *)
(* reached from start_cluster, so that no data is written to a cluster of  *)
(* another file or to a free one.  (After a FAT sector could not be read   *)
(* it is 0xFFF7, which lies beyond the disk.)                              *)
StaysOnChain ==
  \A d \in Files : files[d].active =>
    \/ files[d].start = FREE /\ files[d].current = FREE
    \/ /\ files[d].start \in Clusters
       /\ fat[files[d].start] # FREE
       /\ files[d].current \in Chain(files[d].start) \cup {BAD}

(* A chain changes only at its end: what is linked stays linked, and an    *)
(* allocated cluster never becomes free.                                   *)
ChainsOnlyGrow ==
  [][\A c \in Clusters : /\ fat[c] \in Clusters => fat'[c] = fat[c]
                         /\ fat[c] # FREE => fat'[c] # FREE]_vars

(* Every read and write comes to an end, also after sectors failed.        *)
CallsReturn == call # NoCall ~> call = NoCall
=============================================================================
