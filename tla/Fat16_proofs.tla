---------------------------- MODULE Fat16_proofs ----------------------------
(***************************************************************************)
(* Proofs about Fat16, for every number of clusters, directory entries and *)
(* open files and every geometry.                                          *)
(***************************************************************************)
EXTENDS Fat16, BoundedInduction

(* The FAT: links lead to allocated clusters, never two to the same one,   *)
(* and always forward in some order, so that there is no cycle.            *)
Forward(f, rank) == \A c \in Clusters : f[c] \in Clusters => rank[c] < rank[f[c]]

LinksOK(f) ==
  /\ \A c \in Clusters : f[c] \in Clusters =>
       /\ f[f[c]] # FREE
       /\ \A d \in Clusters \ {c} : f[d] # f[c]
  /\ \E rank \in [Clusters -> Nat] : Forward(f, rank)

(* Every cluster belongs to one directory entry for good: the one for      *)
(* which it was first allocated.  Links, first clusters and descriptors    *)
(* respect that, also when the entry is deleted and used again.            *)
AtHome(home) ==
  /\ \A c \in Clusters : fat[c] \in Clusters => home[fat[c]] = home[c]
  /\ \A e \in Entries : dir[e].start \in Clusters => home[dir[e].start] = e
  /\ \A d \in Files : files[d].active /\ files[d].start \in Clusters =>
       home[files[d].start] = files[d].entry
  /\ call.at = "link" => home[call.new] = files[call.fd].entry

HomesOK == \E home \in [Clusters -> Entries] : AtHome(home)

DirOK ==
  \A e \in Entries : /\ dir[e].size > 0 => dir[e].start \in Clusters
                     /\ dir[e].start \in Clusters => fat[dir[e].start] # FREE

FilesOK ==
  \A d \in Files : files[d].active =>
    /\ files[d].entry \in Entries
    /\ files[d].size > 0 => files[d].start \in Clusters

(* The read or write in progress: its descriptor is open, what is left     *)
(* fits, the cluster to be extended is the end of the chain of the file,   *)
(* and the new one is nobody's yet.                                        *)
CallOK ==
  call.at # "none" =>
    /\ call.fd \in Files /\ files[call.fd].active
    /\ call.at = "read" => files[call.fd].position + call.left <= files[call.fd].size
    /\ call.at # "read" => files[call.fd].position + call.left <= MAX_SIZE
    /\ call.at \in {"alloc", "link"} /\ call.prev \in Clusters =>
         files[call.fd].current = call.prev /\ fat[call.prev] = EOC
    /\ call.at = "link" =>
         /\ call.prev \in Clusters /\ call.new \in Clusters /\ call.new # call.prev
         /\ fat[call.new] = EOC /\ \A c \in Clusters : fat[c] # call.new

Inv ==
  /\ TypeOK
  /\ LinksOK(fat)
  /\ HomesOK
  /\ DirOK
  /\ FilesOK
  /\ StaysOnChain
  /\ CallOK

-----------------------------------------------------------------------------
Places == Clusters \cup {FREE, EOC, BAD}
FATs   == [Clusters -> Clusters \cup {FREE, EOC}]

(* The marks of fat16.c are no cluster numbers, and the clusters are as    *)
(* many as cluster_count says.                                             *)
LEMMA Marks ==
  /\ CLUSTERS \in Nat \ {0} /\ Clusters = 2 .. 2 + CLUSTERS - 1 /\ Clusters \subseteq Nat
  /\ FREE \notin Clusters /\ EOC \notin Clusters /\ BAD \notin Clusters
  /\ FREE # EOC /\ FREE # BAD /\ EOC # BAD
  /\ \A c \in Clusters : c >= MIN
  /\ ~(FREE >= MIN) /\ FREE < MIN
BY Fat16Assumption DEF FREE, EOC, BAD, MIN, Clusters

(* Following a chain of the FAT, link by link.                             *)
LEMMA WalkSteps ==
  ASSUME NEW f \in FATs, NEW c \in Places
  PROVE  /\ Walk(f, c) \in [0..CLUSTERS -> Places]
         /\ Walk(f, c)[0] = c
         /\ \A n \in 1..CLUSTERS :
              Walk(f, c)[n] = IF Walk(f, c)[n-1] \in Clusters THEN f[Walk(f, c)[n-1]] ELSE FREE
<1> DEFINE step == [x \in (1..CLUSTERS) \X Places |-> IF x[2] \in Clusters THEN f[x[2]] ELSE FREE]
           Rec(g) == [i \in 0..CLUSTERS |->
                        IF i = 0 THEN c
                        ELSE IF g[i-1] \in Clusters THEN f[g[i-1]] ELSE FREE]
<1>1. CLUSTERS \in Nat
  BY Marks
<1>2. FREE \in Places /\ \A x \in Clusters : f[x] \in Places
  BY DEF FATs, Places
<1>3. step \in [(1..CLUSTERS) \X Places -> Places]
  <2> HIDE DEF Places, Clusters
  <2> QED BY <1>2
<1>4. PICK g : IsRun(g, CLUSTERS, Places, c, step)
  <2> HIDE DEF step
  <2> QED BY <1>1, <1>3, LoopRuns
<1>5. \A n \in 1..CLUSTERS : g[n] = IF g[n-1] \in Clusters THEN f[g[n-1]] ELSE FREE
  <2> SUFFICES ASSUME NEW n \in 1..CLUSTERS
               PROVE  g[n] = IF g[n-1] \in Clusters THEN f[g[n-1]] ELSE FREE
    OBVIOUS
  <2>1. n - 1 \in 0..CLUSTERS
    BY <1>1
  <2>2. <<n, g[n-1]>> \in (1..CLUSTERS) \X Places
    BY <1>4, <2>1 DEF IsRun
  <2> QED BY <1>4, <2>2 DEF IsRun
<1>6. g = Rec(g)
  <2>1. \A n \in 0..CLUSTERS : n # 0 => n \in 1..CLUSTERS
    BY <1>1
  <2> QED BY <1>4, <1>5, <2>1 DEF IsRun
<1>7. Walk(f, c) = CHOOSE h : h = Rec(h)
  BY DEF Walk
<1>8. Walk(f, c) = Rec(Walk(f, c))
  <2> HIDE DEF Rec
  <2> QED BY <1>6, <1>7
<1> DEFINE w == Walk(f, c)
<1>9. ASSUME NEW n \in 0..CLUSTERS
      PROVE  w[n] = IF n = 0 THEN c ELSE IF w[n-1] \in Clusters THEN f[w[n-1]] ELSE FREE
  <2> DEFINE v == Rec(w)
  <2>1. w[n] = v[n]
    BY <1>8
  <2>2. v[n] = IF n = 0 THEN c ELSE IF w[n-1] \in Clusters THEN f[w[n-1]] ELSE FREE
    <3> HIDE DEF w
    <3> QED OBVIOUS
  <2> HIDE DEF v
  <2> QED BY <2>1, <2>2
<1>10. w[0] = c /\ \A n \in 1..CLUSTERS : w[n] = IF w[n-1] \in Clusters THEN f[w[n-1]] ELSE FREE
  <2> HIDE DEF w
  <2> QED BY <1>1, <1>9
<1>11. w \in [0..CLUSTERS -> Places]
  <2>1. w = [n \in 0..CLUSTERS |-> w[n]]
    BY <1>8
  <2>2. ASSUME NEW n \in 0..CLUSTERS PROVE w[n] \in Places
    <3> HIDE DEF w
    <3>1. n = 0 \/ n \in 1..CLUSTERS
      BY <1>1
    <3> QED BY <1>2, <1>10, <3>1
  <2> HIDE DEF w
  <2> QED BY <2>1, <2>2
<1> QED BY <1>10, <1>11

(* A cluster is met on its own chain.                                      *)
LEMMA ChainStart ==
  ASSUME NEW f \in FATs, NEW c \in Clusters
  PROVE  c \in ChainIn(f, c)
<1>1. c \in Places /\ 0 \in 0..CLUSTERS
  BY Marks DEF Places
<1>2. Walk(f, c)[0] = c
  BY <1>1, WalkSteps
<1> HIDE DEF Walk
<1> QED BY <1>1, <1>2 DEF ChainIn

(* What holds of a cluster and is passed along the links holds of its      *)
(* whole chain.                                                            *)
LEMMA ChainWithin ==
  ASSUME NEW f \in FATs, NEW c \in Places, NEW T, c \in Clusters => c \in T,
         \A x \in Clusters : x \in T /\ f[x] \in Clusters => f[x] \in T
  PROVE  ChainIn(f, c) \subseteq T
<1> DEFINE w == Walk(f, c)
           P == {n \in 0..CLUSTERS : w[n] \in Clusters => w[n] \in T}
<1>1. /\ w \in [0..CLUSTERS -> Places] /\ w[0] = c
      /\ \A n \in 1..CLUSTERS : w[n] = IF w[n-1] \in Clusters THEN f[w[n-1]] ELSE FREE
  BY WalkSteps
<1>2. CLUSTERS \in Nat /\ FREE \notin Clusters
  BY Marks
<1>3. ChainIn(f, c) = {w[i] : i \in 0..CLUSTERS} \cap Clusters
  BY DEF ChainIn
<1> HIDE DEF w
<1>4. 0 \in P
  BY <1>1, <1>2
<1>5. ASSUME NEW n \in 0 .. CLUSTERS - 1, n \in P PROVE n + 1 \in P
  <2>1. n + 1 \in 1..CLUSTERS /\ n + 1 \in 0..CLUSTERS /\ (n + 1) - 1 = n
    BY <1>2
  <2>2. w[n+1] = IF w[n] \in Clusters THEN f[w[n]] ELSE FREE
    BY <1>1, <2>1
  <2>3. w[n] \in Clusters => w[n] \in T
    BY <1>5
  <2>4. w[n+1] \in Clusters => w[n+1] \in T
    BY <1>2, <2>2, <2>3
  <2> QED BY <2>1, <2>4
<1>6. \A n \in 0..CLUSTERS : n \in P
  <2> HIDE DEF P
  <2> QED BY <1>2, <1>4, <1>5, LoopInduction
<1> QED BY <1>3, <1>6

(* A FAT with the links of another one, and perhaps more: chains grow.     *)
LEMMA ChainGrows ==
  ASSUME NEW f \in FATs, NEW g \in FATs, NEW c \in Places,
         \A x \in Clusters : f[x] \in Clusters => g[x] = f[x]
  PROVE  ChainIn(f, c) \subseteq ChainIn(g, c)
<1> DEFINE w == Walk(f, c)
           v == Walk(g, c)
           P == {n \in 0..CLUSTERS : w[n] \in Clusters => v[n] = w[n]}
<1>1. /\ w[0] = c
      /\ \A n \in 1..CLUSTERS : w[n] = IF w[n-1] \in Clusters THEN f[w[n-1]] ELSE FREE
  BY WalkSteps
<1>2. /\ v[0] = c
      /\ \A n \in 1..CLUSTERS : v[n] = IF v[n-1] \in Clusters THEN g[v[n-1]] ELSE FREE
  BY WalkSteps
<1>3. CLUSTERS \in Nat /\ FREE \notin Clusters
  BY Marks
<1>4. /\ ChainIn(f, c) = {w[i] : i \in 0..CLUSTERS} \cap Clusters
      /\ ChainIn(g, c) = {v[i] : i \in 0..CLUSTERS} \cap Clusters
  BY DEF ChainIn
<1> HIDE DEF w, v
<1>5. 0 \in P
  BY <1>1, <1>2, <1>3
<1>6. ASSUME NEW n \in 0 .. CLUSTERS - 1, n \in P PROVE n + 1 \in P
  <2>1. n + 1 \in 1..CLUSTERS /\ n + 1 \in 0..CLUSTERS /\ (n + 1) - 1 = n
    BY <1>3
  <2>2. /\ w[n+1] = IF w[n] \in Clusters THEN f[w[n]] ELSE FREE
        /\ v[n+1] = IF v[n] \in Clusters THEN g[v[n]] ELSE FREE
    BY <1>1, <1>2, <2>1
  <2>3. w[n] \in Clusters => v[n] = w[n]
    BY <1>6
  <2>4. w[n+1] \in Clusters => v[n+1] = w[n+1]
    BY <1>3, <2>2, <2>3
  <2> QED BY <2>1, <2>4
<1>7. \A n \in 0..CLUSTERS : n \in P
  <2> HIDE DEF P
  <2> QED BY <1>3, <1>5, <1>6, LoopInduction
<1> QED BY <1>4, <1>7

(* A chain without cycles ends before the walk does: there are not enough  *)
(* clusters for it to go on.                                               *)
LEMMA ChainEnds ==
  ASSUME NEW f \in FATs, NEW c \in Places, LinksOK(f)
  PROVE  Walk(f, c)[CLUSTERS] \notin Clusters
<1> DEFINE w == Walk(f, c)
           P == {n \in 0..CLUSTERS : w[CLUSTERS - n] \in Clusters}
<1> SUFFICES ASSUME w[CLUSTERS] \in Clusters PROVE FALSE
  OBVIOUS
<1>1. /\ w \in [0..CLUSTERS -> Places] /\ w[0] = c
      /\ \A n \in 1..CLUSTERS : w[n] = IF w[n-1] \in Clusters THEN f[w[n-1]] ELSE FREE
  BY WalkSteps
<1>2. /\ CLUSTERS \in Nat /\ FREE \notin Clusters
      /\ Clusters = 2 .. 2 + CLUSTERS - 1
  BY Marks
<1>3. PICK rank \in [Clusters -> Nat] : \A x \in Clusters : f[x] \in Clusters => rank[x] < rank[f[x]]
  BY DEF LinksOK, Forward
<1> HIDE DEF w, Clusters
<1>4. 0 \in P
  BY <1>2
<1>5. ASSUME NEW n \in 0 .. CLUSTERS - 1, n \in P PROVE n + 1 \in P
  <2> DEFINE m == CLUSTERS - n
  <2>1. /\ m \in 1..CLUSTERS /\ n + 1 \in 0..CLUSTERS
        /\ m - 1 = CLUSTERS - (n + 1)
    BY <1>2
  <2>2. w[m] \in Clusters
    BY <1>5
  <2> HIDE DEF m
  <2>3. w[m-1] \in Clusters
    BY <1>1, <1>2, <2>1, <2>2
  <2> QED BY <2>1, <2>3
<1>6. \A n \in 0..CLUSTERS : n \in P
  <2> HIDE DEF P
  <2> QED BY <1>2, <1>4, <1>5, LoopInduction
<1>7. ASSUME NEW n \in 0..CLUSTERS PROVE w[n] \in Clusters
  <2>1. CLUSTERS - n \in 0..CLUSTERS /\ CLUSTERS - (CLUSTERS - n) = n
    BY <1>2
  <2> QED BY <1>6, <2>1
<1>8. PICK x \in 0..CLUSTERS, y \in 0..CLUSTERS : x < y /\ w[x] = w[y]
  <2>1. 2 \in Nat /\ w \in [0..CLUSTERS -> 2 .. 2 + CLUSTERS - 1]
    BY <1>1, <1>2, <1>7
  <2> QED BY <1>2, <2>1, WalkReturns
<1> DEFINE Q == {n \in 0..CLUSTERS : \A k \in 0..CLUSTERS : k < n => rank[w[k]] < rank[w[n]]}
<1>9. 0 \in Q
  BY <1>2
<1>10. ASSUME NEW n \in 0 .. CLUSTERS - 1, n \in Q PROVE n + 1 \in Q
  <2>1. /\ n + 1 \in 1..CLUSTERS /\ n + 1 \in 0..CLUSTERS /\ n \in 0..CLUSTERS
        /\ (n + 1) - 1 = n
    BY <1>2
  <2>2. w[n+1] = f[w[n]] /\ w[n] \in Clusters /\ w[n+1] \in Clusters
    BY <1>1, <1>7, <2>1
  <2>3. rank[w[n]] < rank[w[n+1]] /\ rank[w[n]] \in Nat /\ rank[w[n+1]] \in Nat
    BY <1>3, <2>2
  <2>4. ASSUME NEW k \in 0..CLUSTERS, k < n + 1 PROVE rank[w[k]] < rank[w[n+1]]
    <3>1. rank[w[k]] \in Nat
      BY <1>3, <1>7
    <3>2. CASE k = n
      BY <2>3, <3>2
    <3>3. CASE k # n
      <4>1. k < n
        BY <1>2, <2>1, <2>4, <3>3
      <4>2. rank[w[k]] < rank[w[n]]
        BY <1>10, <4>1
      <4> QED BY <2>3, <3>1, <4>2
    <3> QED BY <3>2, <3>3
  <2> QED BY <2>1, <2>4
<1>11. \A n \in 0..CLUSTERS : n \in Q
  <2> HIDE DEF Q
  <2> QED BY <1>2, <1>9, <1>10, LoopInduction
<1>12. rank[w[x]] < rank[w[y]]
  BY <1>8, <1>11
<1>13. rank[w[y]] \in Nat
  BY <1>3, <1>7
<1> QED BY <1>8, <1>12, <1>13

(* The link of a cluster of a chain leads to a cluster of that chain.      *)
LEMMA ChainNext ==
  ASSUME NEW f \in FATs, NEW c \in Places, LinksOK(f),
         NEW x \in ChainIn(f, c), f[x] \in Clusters
  PROVE  f[x] \in ChainIn(f, c)
<1> DEFINE w == Walk(f, c)
<1>1. \A n \in 1..CLUSTERS : w[n] = IF w[n-1] \in Clusters THEN f[w[n-1]] ELSE FREE
  BY WalkSteps
<1>2. w[CLUSTERS] \notin Clusters
  BY ChainEnds
<1>3. ChainIn(f, c) = {w[i] : i \in 0..CLUSTERS} \cap Clusters
  BY DEF ChainIn
<1> HIDE DEF w
<1>4. PICK i \in 0..CLUSTERS : w[i] = x /\ x \in Clusters
  BY <1>3
<1>5. i # CLUSTERS
  BY <1>2, <1>4
<1>6. i + 1 \in 1..CLUSTERS /\ i + 1 \in 0..CLUSTERS /\ (i + 1) - 1 = i
  BY <1>5, Marks
<1>7. w[i+1] = f[x]
  BY <1>1, <1>4, <1>6
<1> QED BY <1>3, <1>6, <1>7

-----------------------------------------------------------------------------
(* What StaysOnChain says of one open file and a FAT.                      *)
OnChain(f, x) ==
  \/ x.start = FREE /\ x.current = FREE
  \/ /\ x.start \in Clusters
     /\ f[x.start] # FREE
     /\ x.current \in ChainIn(f, x.start) \cup {BAD}

(* What ChainsOnlyGrow says of a FAT and the next one.                     *)
Grows(f, g) ==
  \A c \in Clusters : /\ f[c] \in Clusters => g[c] = f[c]
                      /\ f[c] # FREE => g[c] # FREE

(* StaysOnChain, file by file.                                             *)
LEMMA StaysOnChainIs ==
  StaysOnChain <=> \A d \in Files : files[d].active => OnChain(fat, files[d])
BY DEF StaysOnChain, OnChain, Chain

(* A file that stays on its chain does so when chains grow.                *)
LEMMA OnChainGrows ==
  ASSUME NEW f \in FATs, NEW g \in FATs, Grows(f, g), NEW x \in File, OnChain(f, x)
  PROVE  OnChain(g, x)
<1>1. CASE x.start = FREE /\ x.current = FREE
  BY <1>1 DEF OnChain
<1>2. CASE ~(x.start = FREE /\ x.current = FREE)
  <2>1. /\ x.start \in Clusters /\ f[x.start] # FREE
        /\ x.current \in ChainIn(f, x.start) \cup {BAD}
    BY <1>2 DEF OnChain
  <2>2. ChainIn(f, x.start) \subseteq ChainIn(g, x.start)
    <3>1. x.start \in Places
      BY <2>1 DEF Places
    <3> QED BY <3>1, ChainGrows DEF Grows
  <2> QED BY <2>1, <2>2 DEF OnChain, Grows
<1> QED BY <1>1, <1>2

(* The current cluster of an open file is allocated, and it belongs to the *)
(* entry of the file.                                                      *)
LEMMA CurrentIsOwn ==
  ASSUME TypeOK, LinksOK(fat), StaysOnChain, NEW d \in Files, files[d].active,
         files[d].current \in Clusters
  PROVE  /\ files[d].start \in Clusters
         /\ fat[files[d].current] # FREE
         /\ \A home \in [Clusters -> Entries] : AtHome(home) =>
              home[files[d].current] = files[d].entry
<1> DEFINE x == files[d]
<1>1. fat \in FATs /\ x \in File
  BY DEF TypeOK, FATs
<1>2. /\ x.start \in Clusters /\ fat[x.start] # FREE /\ x.current \in ChainIn(fat, x.start)
  <2>1. OnChain(fat, x)
    BY StaysOnChainIs
  <2> QED BY <2>1, Marks DEF OnChain
<1>3. x.start \in Places
  BY <1>2 DEF Places
<1>4. fat[x.current] # FREE
  <2> DEFINE T == {c \in Clusters : fat[c] # FREE}
  <2>1. x.start \in T
    BY <1>2
  <2>2. \A c \in Clusters : c \in T /\ fat[c] \in Clusters => fat[c] \in T
    BY DEF LinksOK
  <2>3. ChainIn(fat, x.start) \subseteq T
    <3> HIDE DEF T
    <3> QED BY <1>1, <1>3, <2>1, <2>2, ChainWithin
  <2> QED BY <1>2, <2>3
<1>5. ASSUME NEW home \in [Clusters -> Entries], AtHome(home)
      PROVE  home[x.current] = x.entry
  <2> DEFINE T == {c \in Clusters : home[c] = x.entry}
  <2>1. x.start \in T
    BY <1>2, <1>5 DEF AtHome
  <2>2. \A c \in Clusters : c \in T /\ fat[c] \in Clusters => fat[c] \in T
    BY <1>5 DEF AtHome
  <2>3. ChainIn(fat, x.start) \subseteq T
    <3> HIDE DEF T
    <3> QED BY <1>1, <1>3, <2>1, <2>2, ChainWithin
  <2> QED BY <1>2, <2>3
<1> QED BY <1>2, <1>4, <1>5

(* The move to the next cluster, at the end of one.                        *)
LEMMA OnChainNext ==
  ASSUME NEW f \in FATs, LinksOK(f), NEW x \in File, OnChain(f, x), x.current \in Clusters,
         NEW next \in {f[x.current], BAD}, ~Ends(next),
         NEW y \in File, y.start = x.start, y.current = next
  PROVE  OnChain(f, y)
<1>1. /\ x.start \in Clusters /\ f[x.start] # FREE /\ x.current \in ChainIn(f, x.start)
  BY Marks DEF OnChain
<1>2. CASE next = BAD
  BY <1>1, <1>2 DEF OnChain
<1>3. CASE next # BAD
  <2>1. next = f[x.current] /\ next \in Clusters
    BY <1>3, Marks DEF FATs, Ends
  <2>2. next \in ChainIn(f, x.start)
    <3>1. x.start \in Places
      BY <1>1 DEF Places
    <3> QED BY <1>1, <2>1, <3>1, ChainNext
  <2> QED BY <1>1, <2>2 DEF OnChain
<1> QED BY <1>2, <1>3

(* The bytes of one round are not more than what is left.                  *)
LEMMA ChunkFits ==
  ASSUME call \in Call, NEW f \in File
  PROVE  Chunk(f) \in Nat /\ Chunk(f) <= call.left
<1>1. SECTOR \in Nat \ {0} /\ SPC \in Nat \ {0} /\ MAX_SIZE \in Nat
  BY Fat16Assumption
<1>2. CLUSTER_SIZE \in Nat /\ CLUSTER_SIZE > 0
  BY <1>1 DEF CLUSTER_SIZE
<1>3. f.position \in Nat /\ call.left \in Nat
  BY <1>1 DEF File, Call
<1>4. f.position % CLUSTER_SIZE \in Nat
  BY <1>2, <1>3
<1>5. /\ (f.position % CLUSTER_SIZE) % SECTOR \in Nat
      /\ (f.position % CLUSTER_SIZE) % SECTOR < SECTOR
  BY <1>1, <1>4
<1> DEFINE r == (f.position % CLUSTER_SIZE) % SECTOR
<1>6. Chunk(f) = IF SECTOR - r > call.left THEN call.left ELSE SECTOR - r
  BY DEF Chunk
<1>7. r \in Nat /\ r < SECTOR
  BY <1>5
<1> HIDE DEF r
<1> QED BY <1>1, <1>3, <1>6, <1>7

(* The lowest of some entries or descriptors is one of them.               *)
LEMMA LowestIs ==
  ASSUME NEW S \in SUBSET Nat, S # {}
  PROVE  Lowest(S) \in S
BY LeastMember DEF Lowest

-----------------------------------------------------------------------------
(* An empty volume satisfies the invariant.                                *)
LEMMA InitInv == Init => Inv
<1> SUFFICES ASSUME Init PROVE Inv
  OBVIOUS
<1>0. /\ ENTRIES \in Nat \ {0} /\ MAX_SIZE \in Nat /\ 0 \in 0..MAX_SIZE
      /\ FREE \notin Clusters /\ 1 \in Entries
  BY Fat16Assumption, Marks DEF Entries
<1>1. TypeOK
  BY <1>0 DEF Init, TypeOK, Closed, NoCall, Entry, File, Call
<1>2. LinksOK(fat)
  <2> DEFINE rank == [c \in Clusters |-> 0]
  <2>1. rank \in [Clusters -> Nat]
    OBVIOUS
  <2>2. \A c \in Clusters : fat[c] \notin Clusters
    BY <1>0 DEF Init
  <2> HIDE DEF rank
  <2>3. Forward(fat, rank)
    BY <2>2 DEF Forward
  <2> QED BY <2>1, <2>2, <2>3 DEF LinksOK
<1>3. HomesOK
  <2> DEFINE home == [c \in Clusters |-> 1]
  <2>1. home \in [Clusters -> Entries]
    BY <1>0
  <2>2. (\A c \in Clusters : fat[c] \notin Clusters) /\ (\A d \in Files : ~files[d].active)
    BY <1>0 DEF Init, Closed
  <2>3. (\A e \in Entries : dir[e].start \notin Clusters) /\ call.at # "link"
    BY <1>0 DEF Init, NoCall
  <2> HIDE DEF home
  <2>4. AtHome(home)
    BY <2>2, <2>3 DEF AtHome
  <2> QED BY <2>1, <2>4 DEF HomesOK
<1>4. DirOK
  BY <1>0 DEF Init, DirOK
<1>5. FilesOK /\ StaysOnChain /\ CallOK
  BY DEF Init, FilesOK, StaysOnChain, CallOK, Closed, NoCall
<1> QED BY <1>1, <1>2, <1>3, <1>4, <1>5 DEF Inv

(* A step that leaves the disk and the files alone.                        *)
LEMMA CallOnly ==
  ASSUME Inv, UNCHANGED <<fat, dir, files>>, mounted' \in BOOLEAN, call' \in Call,
         call'.at # "link", CallOK'
  PROVE  Inv'
<1>1. TypeOK'
  BY DEF Inv, TypeOK
<1>2. HomesOK'
  <2>1. PICK home \in [Clusters -> Entries] : AtHome(home)
    BY DEF Inv, HomesOK
  <2>2. AtHome(home)'
    BY <2>1 DEF AtHome
  <2> QED BY <2>1, <2>2 DEF HomesOK
<1>3. LinksOK(fat)' /\ DirOK' /\ FilesOK'
  BY DEF Inv, LinksOK, Forward, DirOK, FilesOK
<1>4. StaysOnChain'
  BY DEF Inv, StaysOnChain, Chain
<1> QED BY <1>1, <1>2, <1>3, <1>4 DEF Inv

(* A step that changes one open file, whose first cluster stays, and the   *)
(* call.                                                                   *)
LEMMA FileOnly ==
  ASSUME Inv, UNCHANGED <<fat, dir, mounted>>, call' \in Call, call'.at # "link", CallOK',
         NEW d \in Files, files[d].active, NEW x \in File, files' = [files EXCEPT ![d] = x],
         x.active, x.entry = files[d].entry, x.start = files[d].start,
         x.size > 0 => x.start \in Clusters, OnChain(fat, x)
  PROVE  Inv'
<1>0. /\ files' \in [Files -> File] /\ files'[d] = x
      /\ \A o \in Files : o # d => files'[o] = files[o]
  BY DEF Inv, TypeOK
<1>1. TypeOK'
  BY <1>0 DEF Inv, TypeOK
<1>2. HomesOK'
  <2>1. PICK home \in [Clusters -> Entries] : AtHome(home)
    BY DEF Inv, HomesOK
  <2>2. \A o \in Files : files'[o].active => files[o].active /\ files'[o].start = files[o].start
                                         /\ files'[o].entry = files[o].entry
    BY <1>0
  <2>3. AtHome(home)'
    BY <2>1, <2>2 DEF AtHome
  <2> QED BY <2>1, <2>3 DEF HomesOK
<1>3. LinksOK(fat)' /\ DirOK'
  BY DEF Inv, LinksOK, Forward, DirOK
<1>4. FilesOK'
  BY <1>0 DEF Inv, FilesOK
<1>5. StaysOnChain'
  <2>1. \A o \in Files : files'[o].active => OnChain(fat', files'[o])
    BY <1>0, StaysOnChainIs DEF Inv
  <2> QED BY <2>1 DEF StaysOnChain, OnChain, Chain
<1> QED BY <1>1, <1>2, <1>3, <1>4, <1>5 DEF Inv

(* fat16_mount.                                                            *)
LEMMA MountInv == Inv /\ Mount => Inv'
<1> SUFFICES ASSUME Inv, Mount PROVE Inv'
  OBVIOUS
<1>1. call' = call /\ call.at = "none" /\ call \in Call /\ CallOK'
  BY DEF Inv, TypeOK, Mount, NoCall, CallOK
<1> QED BY <1>1, CallOnly DEF Mount

(* fat16_create: the new entry has no cluster.                             *)
LEMMA CreateInv ==
  ASSUME Inv, NEW n \in Names, NEW unread \in BOOLEAN, Create(n, unread)
  PROVE  Inv'
<1> DEFINE e == Lowest(FreeEntries)
<1>0. /\ FreeEntries \in SUBSET Nat /\ FreeEntries # {} /\ e \in Entries
      /\ FREE \notin Clusters /\ FREE = 0 /\ 0 \in 0..MAX_SIZE
  <2>1. FreeEntries \in SUBSET Nat /\ FreeEntries # {}
    BY Fat16Assumption DEF Create, FreeEntries, Entries
  <2>2. e \in FreeEntries
    BY <2>1, LowestIs
  <2> QED BY <2>1, <2>2, Fat16Assumption, Marks DEF FreeEntries, FREE
<1> HIDE DEF e
<1>1. dir' = [dir EXCEPT ![e] = NewEntry(n)] /\ UNCHANGED <<fat, files, mounted, call>>
  BY DEF Create, e
<1>2. /\ dir' \in [Entries -> Entry] /\ dir'[e].start = FREE /\ dir'[e].size = 0
      /\ \A o \in Entries : o # e => dir'[o] = dir[o]
  <2>1. NewEntry(n) \in Entry /\ NewEntry(n).start = FREE /\ NewEntry(n).size = 0
    BY <1>0 DEF NewEntry, Entry
  <2> QED BY <1>0, <1>1, <2>1 DEF Inv, TypeOK
<1>3. TypeOK'
  BY <1>1, <1>2 DEF Inv, TypeOK
<1>4. HomesOK'
  <2>1. PICK home \in [Clusters -> Entries] : AtHome(home)
    BY DEF Inv, HomesOK
  <2>2. \A o \in Entries : dir'[o].start \in Clusters => home[dir'[o].start] = o
    BY <1>0, <1>2, <2>1 DEF AtHome
  <2>3. AtHome(home)'
    BY <1>1, <2>1, <2>2 DEF AtHome
  <2> QED BY <2>1, <2>3 DEF HomesOK
<1>5. DirOK'
  BY <1>0, <1>1, <1>2 DEF Inv, DirOK
<1>6. LinksOK(fat)' /\ FilesOK' /\ StaysOnChain' /\ CallOK'
  BY <1>1 DEF Inv, LinksOK, Forward, FilesOK, StaysOnChain, Chain, CallOK
<1> QED BY <1>3, <1>4, <1>5, <1>6 DEF Inv

(* fat16_delete: the entry keeps its first cluster and its size.           *)
LEMMA DeleteInv ==
  ASSUME Inv, NEW n \in Names, Delete(n)
  PROVE  Inv'
<1> DEFINE e == Lowest(Found(n))
<1>0. e \in Entries
  <2>1. Found(n) \in SUBSET Nat /\ Found(n) # {} /\ Found(n) \subseteq Entries
    BY Fat16Assumption DEF Delete, Found, Entries
  <2>2. e \in Found(n)
    BY <2>1, LowestIs
  <2> QED BY <2>1, <2>2
<1> HIDE DEF e
<1>1. dir' = Deleted(e) /\ UNCHANGED <<fat, files, mounted, call>>
  BY DEF Delete, e
<1>2. /\ dir' \in [Entries -> Entry]
      /\ \A o \in Entries : dir'[o].start = dir[o].start /\ dir'[o].size = dir[o].size
  <2> DEFINE x == [dir[e] EXCEPT !.name = "deleted"]
  <2>1. x \in Entry /\ x.start = dir[e].start /\ x.size = dir[e].size
    BY <1>0 DEF Inv, TypeOK, Entry
  <2>2. dir' = [dir EXCEPT ![e] = x]
    BY <1>1 DEF Deleted
  <2> HIDE DEF x
  <2> QED BY <1>0, <2>1, <2>2 DEF Inv, TypeOK
<1>3. TypeOK'
  BY <1>1, <1>2 DEF Inv, TypeOK
<1>4. HomesOK'
  <2>1. PICK home \in [Clusters -> Entries] : AtHome(home)
    BY DEF Inv, HomesOK
  <2>2. AtHome(home)'
    BY <1>1, <1>2, <2>1 DEF AtHome
  <2> QED BY <2>1, <2>2 DEF HomesOK
<1>5. DirOK'
  BY <1>1, <1>2 DEF Inv, DirOK
<1>6. LinksOK(fat)' /\ FilesOK' /\ StaysOnChain' /\ CallOK'
  BY <1>1 DEF Inv, LinksOK, Forward, FilesOK, StaysOnChain, Chain, CallOK
<1> QED BY <1>3, <1>4, <1>5, <1>6 DEF Inv

(* fat16_open: the descriptor starts where the entry says.                 *)
LEMMA OpenInv ==
  ASSUME Inv, NEW n \in Names, Open(n)
  PROVE  Inv'
<1> DEFINE e == Lowest(Found(n))
           d == Lowest({o \in Files : ~files[o].active})
           x == [active |-> TRUE, modified |-> FALSE, entry |-> e,
                 start |-> dir[e].start, current |-> dir[e].start,
                 size |-> dir[e].size, position |-> 0]
<1>0. e \in Entries
  <2>1. Found(n) \in SUBSET Nat /\ Found(n) # {} /\ Found(n) \subseteq Entries
    BY Fat16Assumption DEF Open, Found, Entries
  <2>2. e \in Found(n)
    BY <2>1, LowestIs
  <2> QED BY <2>1, <2>2
<1>1. d \in Files
  <2> DEFINE idle == {o \in Files : ~files[o].active}
  <2>1. idle \in SUBSET Nat /\ idle # {} /\ idle \subseteq Files
    BY Fat16Assumption DEF Open, Files
  <2>2. d \in idle
    <3> HIDE DEF idle
    <3> QED BY <2>1, LowestIs DEF idle
  <2> QED BY <2>1, <2>2
<1>2. files' = [files EXCEPT ![d] = x] /\ UNCHANGED <<fat, dir, mounted, call>> /\ call = NoCall
  BY DEF Open
<1> HIDE DEF d, e
<1>3. /\ dir[e] \in Entry /\ dir[e].start \in Clusters \cup {FREE}
      /\ dir[e].start \in Clusters => fat[dir[e].start] # FREE
      /\ dir[e].size > 0 => dir[e].start \in Clusters
      /\ 0 \in 0..MAX_SIZE /\ fat \in FATs
  BY <1>0, Fat16Assumption DEF Inv, TypeOK, DirOK, Entry, FATs
<1>4. /\ x \in File /\ x.active /\ x.entry = e /\ x.start = dir[e].start
      /\ x.size = dir[e].size
  BY <1>0, <1>3 DEF File, Entry
<1>5. OnChain(fat, x)
  <2>1. x.start = dir[e].start /\ x.current = dir[e].start
    OBVIOUS
  <2>2. dir[e].start \in Clusters => dir[e].start \in ChainIn(fat, dir[e].start)
    BY <1>3, ChainStart
  <2> HIDE DEF x
  <2> QED BY <1>3, <2>1, <2>2 DEF OnChain
<1> HIDE DEF x
<1>6. /\ files' \in [Files -> File] /\ files'[d] = x
      /\ \A o \in Files : o # d => files'[o] = files[o]
  BY <1>1, <1>2, <1>4 DEF Inv, TypeOK
<1>7. TypeOK'
  BY <1>2, <1>6 DEF Inv, TypeOK
<1>8. HomesOK'
  <2>1. PICK home \in [Clusters -> Entries] : AtHome(home)
    BY DEF Inv, HomesOK
  <2>2. \A o \in Files : files'[o].active =>
          (files'[o].start \in Clusters => home[files'[o].start] = files'[o].entry)
    BY <1>0, <1>4, <1>6, <2>1 DEF AtHome
  <2>3. call'.at # "link"
    BY <1>2 DEF NoCall
  <2>4. AtHome(home)'
    BY <1>2, <2>1, <2>2, <2>3 DEF AtHome
  <2> QED BY <2>1, <2>4 DEF HomesOK
<1>9. LinksOK(fat)' /\ DirOK'
  BY <1>2 DEF Inv, LinksOK, Forward, DirOK
<1>10. FilesOK'
  BY <1>0, <1>3, <1>4, <1>6 DEF Inv, FilesOK
<1>11. StaysOnChain'
  <2>1. \A o \in Files : files'[o].active => OnChain(fat', files'[o])
    BY <1>2, <1>5, <1>6, StaysOnChainIs DEF Inv
  <2> QED BY <2>1 DEF StaysOnChain, OnChain, Chain
<1>12. CallOK'
  BY <1>2 DEF CallOK, NoCall
<1> QED BY <1>7, <1>8, <1>9, <1>10, <1>11, <1>12 DEF Inv

(* fat16_close: the entry gets back what the descriptor says, which is a   *)
(* chain of that entry, whatever became of it meanwhile.                   *)
LEMMA CloseInv ==
  ASSUME Inv, NEW d \in Files, Close(d)
  PROVE  Inv'
<1> DEFINE f == files[d]
           e == f.entry
<1>0. /\ f \in File /\ f.active /\ e \in Entries /\ fat \in FATs
      /\ f.size > 0 => f.start \in Clusters
      /\ f.start \in Clusters => fat[f.start] # FREE
  <2>1. f.start \in Clusters => fat[f.start] # FREE
    <3>1. OnChain(fat, f)
      BY StaysOnChainIs DEF Inv, Close
    <3> QED BY <3>1, Marks DEF OnChain
  <2> QED BY <2>1 DEF Inv, TypeOK, FilesOK, Close, FATs
<1>1. /\ call = NoCall /\ files' = [files EXCEPT ![d] = Closed]
      /\ dir' = IF f.modified THEN Updated(f) ELSE dir
      /\ UNCHANGED <<fat, mounted, call>>
  BY DEF Close
<1>2. /\ dir' \in [Entries -> Entry]
      /\ \A o \in Entries : \/ dir'[o].start = dir[o].start /\ dir'[o].size = dir[o].size
                            \/ o = e /\ dir'[o].start = f.start /\ dir'[o].size = f.size
  <2> DEFINE x == [dir[e] EXCEPT !.start = f.start, !.size = f.size]
  <2>1. x \in Entry /\ x.start = f.start /\ x.size = f.size
    <3>1. dir[e] \in Entry /\ f.start \in Clusters \cup {FREE} /\ f.size \in 0..MAX_SIZE
      BY <1>0 DEF Inv, TypeOK, File
    <3> HIDE DEF f, e
    <3> QED BY <3>1 DEF Entry
  <2>2. Updated(f) = [dir EXCEPT ![e] = x]
    BY <1>0 DEF Updated, Inv, TypeOK, Entry
  <2> HIDE DEF x, f
  <2> QED BY <1>0, <1>1, <2>1, <2>2 DEF Inv, TypeOK
<1>3. /\ files' \in [Files -> File] /\ ~files'[d].active
      /\ \A o \in Files : o # d => files'[o] = files[o]
  <2>1. Closed \in File /\ ~Closed.active
    BY Fat16Assumption DEF Closed, File
  <2> QED BY <1>1, <2>1 DEF Inv, TypeOK
<1>4. TypeOK'
  BY <1>1, <1>2, <1>3 DEF Inv, TypeOK
<1>5. HomesOK'
  <2>1. PICK home \in [Clusters -> Entries] : AtHome(home)
    BY DEF Inv, HomesOK
  <2>2. f.start \in Clusters => home[f.start] = e
    BY <1>0, <2>1 DEF AtHome
  <2>3. \A o \in Entries : dir'[o].start \in Clusters => home[dir'[o].start] = o
    BY <1>2, <2>1, <2>2 DEF AtHome
  <2>4. call'.at # "link"
    BY <1>1 DEF NoCall
  <2>5. AtHome(home)'
    BY <1>1, <1>3, <2>1, <2>3, <2>4 DEF AtHome
  <2> QED BY <2>1, <2>5 DEF HomesOK
<1>6. DirOK'
  <2> HIDE DEF f
  <2> QED BY <1>0, <1>1, <1>2 DEF Inv, DirOK
<1>7. LinksOK(fat)' /\ FilesOK'
  BY <1>1, <1>3 DEF Inv, LinksOK, Forward, FilesOK
<1>8. StaysOnChain'
  <2>1. \A o \in Files : files'[o].active => OnChain(fat', files'[o])
    BY <1>1, <1>3, StaysOnChainIs DEF Inv
  <2> QED BY <2>1 DEF StaysOnChain, OnChain, Chain
<1>9. CallOK'
  BY <1>1 DEF CallOK, NoCall
<1> QED BY <1>4, <1>5, <1>6, <1>7, <1>8, <1>9 DEF Inv

(* The beginning of fat16_read.                                            *)
LEMMA ReadInv ==
  ASSUME Inv, NEW d \in Files, NEW n \in Counts, Read(d, n)
  PROVE  Inv'
<1> DEFINE f == files[d]
           rest == f.size - f.position
           left == IF rest > n THEN n ELSE rest
<1>1. /\ f \in File /\ f.active /\ f.size \in Nat /\ f.position \in Nat /\ n \in Nat
      /\ f.size \in 0..MAX_SIZE /\ MAX_SIZE \in Nat /\ f.position < f.size
  BY Fat16Assumption DEF Inv, TypeOK, File, Read
<1>2. left \in 0..MAX_SIZE /\ f.position + left <= f.size
  <2> HIDE DEF f
  <2> QED BY <1>1
<1>3. call' = [NoCall EXCEPT !.at = "read", !.fd = d, !.left = left]
  BY DEF Read
<1> HIDE DEF left
<1>4. /\ call' \in Call /\ call'.at = "read" /\ call'.fd = d /\ call'.left = left
  BY <1>2, <1>3 DEF NoCall, Call
<1>5. UNCHANGED <<fat, dir, files, mounted>> /\ mounted' \in BOOLEAN
  BY DEF Read, Inv, TypeOK
<1>6. CallOK'
  BY <1>1, <1>2, <1>4, <1>5 DEF CallOK
<1> QED BY <1>4, <1>5, <1>6, CallOnly

(* A call that returns.                                                    *)
LEMMA ReturnInv ==
  ASSUME Inv, Return, UNCHANGED <<fat, dir, files, mounted>>
  PROVE  Inv'
<1>1. call' \in Call /\ call'.at = "none"
  BY Fat16Assumption DEF Return, NoCall, Call
<1>2. CallOK'
  BY <1>1 DEF CallOK
<1> QED BY <1>1, <1>2, CallOnly DEF Inv, TypeOK

(* The beginning of fat16_write.                                           *)
LEMMA WriteInv ==
  ASSUME Inv, NEW d \in Files, NEW n \in Counts, Write(d, n)
  PROVE  Inv'
<1> DEFINE f  == files[d]
           cur == IF f.current < MIN /\ f.start >= MIN THEN f.start ELSE f.current
           x  == [f EXCEPT !.current = cur]
           at == IF f.position = 0 /\ f.start < MIN THEN "alloc" ELSE "write"
<1>1. /\ f \in File /\ f.active /\ fat \in FATs /\ n \in 0..MAX_SIZE
      /\ f.position \in Nat /\ f.position + n <= MAX_SIZE
      /\ f.size > 0 => f.start \in Clusters
  <2>1. f \in File /\ f.active /\ fat \in FATs /\ n \in Nat /\ f.position \in 0..MAX_SIZE
        /\ MAX_SIZE \in Nat /\ f.position + n <= MAX_SIZE
    BY Fat16Assumption DEF Inv, TypeOK, File, Write, FATs
  <2>2. f.size > 0 => f.start \in Clusters
    BY <2>1 DEF Inv, FilesOK
  <2> HIDE DEF f
  <2> QED BY <2>1, <2>2
<1>2. OnChain(fat, f)
  BY <1>1, StaysOnChainIs DEF Inv
<1>3. /\ x \in File /\ x.active /\ x.entry = f.entry /\ x.start = f.start /\ x.size = f.size
      /\ x.position = f.position /\ x.current = cur
  BY <1>1 DEF File, MIN, FREE, Clusters
<1>4. /\ files' = [files EXCEPT ![d] = x] /\ UNCHANGED <<fat, dir, mounted>>
      /\ call' = [NoCall EXCEPT !.at = at, !.fd = d, !.left = n]
  BY DEF Write
<1>5. OnChain(fat, x)
  <2>1. CASE cur = f.current
    BY <1>2, <1>3, <2>1 DEF OnChain
  <2>2. CASE cur = f.start /\ f.start \in Clusters
    BY <1>1, <1>2, <1>3, <2>2, ChainStart, Marks DEF OnChain
  <2>3. cur = f.current \/ (cur = f.start /\ f.start \in Clusters)
    <3>1. f.start \in Clusters \cup {FREE}
      BY <1>1 DEF File
    <3> QED BY <3>1, Marks
  <2> QED BY <2>1, <2>2, <2>3
<1>6. at \in {"alloc", "write"}
  OBVIOUS
<1> HIDE DEF f, x, at
<1>7. /\ call' \in Call /\ call'.at = at /\ call'.fd = d /\ call'.left = n /\ call'.prev = FREE
  BY <1>1, <1>4, <1>6 DEF NoCall, Call
<1>8. files'[d] = x
  BY <1>4 DEF Inv, TypeOK
<1>9. CallOK'
  BY <1>1, <1>3, <1>6, <1>7, <1>8, Marks DEF CallOK
<1>10. call'.at # "link" /\ files[d].active /\ x.entry = files[d].entry /\ x.start = files[d].start
       /\ (x.size > 0 => x.start \in Clusters)
  BY <1>1, <1>3, <1>6, <1>7 DEF f
<1> QED BY <1>3, <1>4, <1>5, <1>7, <1>9, <1>10, FileOnly

(* The descriptor and the byte count in a round of fat16_read or           *)
(* fat16_write.                                                            *)
LEMMA InRound ==
  ASSUME Inv, call.at \in {"read", "write", "alloc", "link"}
  PROVE  /\ call \in Call /\ call.fd \in Files /\ files[call.fd] \in File
         /\ files[call.fd].active /\ fat \in FATs /\ LinksOK(fat)
         /\ files[call.fd].size > 0 => files[call.fd].start \in Clusters
         /\ OnChain(fat, files[call.fd])
         /\ files[call.fd].position \in Nat /\ files[call.fd].size \in Nat
         /\ call.left \in Nat /\ MAX_SIZE \in Nat /\ files[call.fd].size <= MAX_SIZE
         /\ Chunk(files[call.fd]) \in Nat /\ Chunk(files[call.fd]) <= call.left
<1>1. call \in Call /\ call.fd \in Files /\ files[call.fd] \in File /\ files[call.fd].active
  BY DEF Inv, TypeOK, CallOK
<1>2. fat \in FATs /\ LinksOK(fat) /\ MAX_SIZE \in Nat
  BY Fat16Assumption DEF Inv, TypeOK, FATs
<1>3. /\ files[call.fd].size > 0 => files[call.fd].start \in Clusters
      /\ OnChain(fat, files[call.fd])
  BY <1>1, StaysOnChainIs DEF Inv, FilesOK
<1>4. /\ files[call.fd].position \in Nat /\ files[call.fd].size \in Nat
      /\ call.left \in Nat /\ files[call.fd].size <= MAX_SIZE
  BY <1>1, <1>2 DEF File, Call
<1>5. Chunk(files[call.fd]) \in Nat /\ Chunk(files[call.fd]) <= call.left
  BY <1>1, ChunkFits
<1> QED BY <1>1, <1>2, <1>3, <1>4, <1>5

(* A round of fat16_read.                                                  *)
LEMMA ReadChunkInv == Inv /\ ReadChunk => Inv'
<1> SUFFICES ASSUME Inv, ReadChunk PROVE Inv'
  OBVIOUS
<1> DEFINE d == call.fd
           f == files[d]
           k == Chunk(f)
           p == f.position + k
           go == [call EXCEPT !.left = @ - k]
           Moved(c) == [f EXCEPT !.position = p, !.current = c]
<1>0. call.at = "read" /\ UNCHANGED <<fat, dir, mounted>>
  BY DEF ReadChunk
<1>1. /\ call \in Call /\ d \in Files /\ f \in File /\ f.active /\ fat \in FATs /\ LinksOK(fat)
      /\ f.size > 0 => f.start \in Clusters
      /\ OnChain(fat, f) /\ f.position \in Nat /\ f.size \in Nat /\ call.left \in Nat
      /\ MAX_SIZE \in Nat /\ f.size <= MAX_SIZE /\ k \in Nat /\ k <= call.left
  BY <1>0, InRound
<1>2. f.position + call.left <= f.size
  BY <1>0 DEF Inv, CallOK
<1>3. CASE Return /\ UNCHANGED files
  BY <1>0, <1>3, ReturnInv
<1>4. CASE ~(Return /\ UNCHANGED files)
  <2>1. PICK c \in {f.current, fat[f.current], BAD} :
          /\ files' = [files EXCEPT ![d] = Moved(c)]
          /\ c # f.current => ~Ends(c) /\ c \in {fat[f.current], BAD}
          /\ call' = NoCall \/ call' = go
          /\ f.current \in Clusters
    <3>1. /\ f.current \in Clusters
          /\ IF p < f.size /\ ClusterDone(p)
             THEN \E next \in FatEntry(f.current) :
                    IF Ends(next)
                    THEN Return /\ files' = [files EXCEPT ![d].position = p]
                    ELSE /\ files' = [files EXCEPT ![d].position = p, ![d].current = next]
                         /\ call' = IF call.left = k THEN NoCall ELSE go
             ELSE /\ files' = [files EXCEPT ![d].position = p]
                  /\ call' = IF call.left = k THEN NoCall ELSE go
      BY <1>0, <1>4 DEF ReadChunk
    <3>2. files \in [Files -> File]
      BY DEF Inv, TypeOK
    <3>3. [files EXCEPT ![d].position = p] = [files EXCEPT ![d] = Moved(f.current)]
      <4>1. [f EXCEPT !.position = p] = Moved(f.current)
        <5> HIDE DEF f, p
        <5> QED BY <1>1 DEF File
      <4> HIDE DEF p, Moved
      <4> QED BY <1>1, <3>2, <4>1
    <3>4. ASSUME NEW c
          PROVE  [files EXCEPT ![d].position = p, ![d].current = c] = [files EXCEPT ![d] = Moved(c)]
      <4> HIDE DEF p
      <4> QED BY <1>1, <3>2
    <3> HIDE DEF p, Moved, k, go, f, d
    <3>5. CASE files' = [files EXCEPT ![d].position = p] /\ (call' = NoCall \/ call' = go)
      BY <3>1, <3>3, <3>5
    <3>6. CASE ~(files' = [files EXCEPT ![d].position = p] /\ (call' = NoCall \/ call' = go))
      <4>1. PICK next \in FatEntry(f.current) :
               /\ ~Ends(next)
               /\ files' = [files EXCEPT ![d].position = p, ![d].current = next]
               /\ call' = NoCall \/ call' = go
        BY <3>1, <3>6 DEF Return
      <4> QED BY <3>1, <3>4, <4>1 DEF FatEntry
    <3> QED BY <3>5, <3>6
  <2> DEFINE x == Moved(c)
  <2>2. p \in 0..MAX_SIZE /\ p <= f.size /\ p + (call.left - k) <= f.size /\ call.left - k \in 0..MAX_SIZE
    <3> HIDE DEF f, k
    <3> QED BY <1>1, <1>2
  <2>3. c \in Clusters \cup {FREE, BAD}
    <3>1. c \in {fat[f.current], BAD} /\ ~Ends(c) => c \in Clusters \cup {BAD}
      BY <1>1, <2>1, Marks DEF FATs, Ends
    <3> QED BY <2>1, <3>1
  <2>4. /\ x \in File /\ x.active /\ x.entry = f.entry /\ x.start = f.start /\ x.size = f.size
        /\ x.position = p /\ x.current = c
    <3> HIDE DEF f, p
    <3> QED BY <1>1, <2>2, <2>3 DEF File
  <2>5. OnChain(fat, x)
    <3> HIDE DEF x, f
    <3>1. CASE c = f.current
      BY <1>1, <2>4, <3>1 DEF OnChain
    <3>2. CASE c # f.current
      BY <1>1, <2>1, <2>4, <3>2, OnChainNext
    <3> QED BY <3>1, <3>2
  <2>6. /\ go \in Call /\ go.at = "read" /\ go.fd = d /\ go.left = call.left - k
    <3> HIDE DEF k, f
    <3> QED BY <1>0, <1>1, <2>2 DEF Call
  <2>7. NoCall \in Call /\ NoCall.at = "none"
    BY Fat16Assumption DEF NoCall, Call
  <2> HIDE DEF go, Moved
  <2>8. files' = [files EXCEPT ![d] = x] /\ files'[d] = x
    BY <1>1, <2>1 DEF Inv, TypeOK
  <2> HIDE DEF x, d
  <2>9. call' \in Call /\ call'.at # "link"
    BY <2>1, <2>6, <2>7
  <2>10. CallOK'
    <3>1. CASE call' = NoCall
      BY <2>7, <3>1 DEF CallOK
    <3>2. CASE call' = go
      <4> HIDE DEF p, k
      <4> QED BY <1>1, <2>2, <2>4, <2>6, <2>8, <3>2 DEF CallOK
    <3> QED BY <2>1, <3>1, <3>2
  <2>11. /\ files[d].active /\ x.entry = files[d].entry /\ x.start = files[d].start
         /\ x.size > 0 => x.start \in Clusters
    BY <1>1, <2>4
  <2> HIDE DEF f
  <2> QED BY <1>0, <1>1, <2>4, <2>5, <2>8, <2>9, <2>10, <2>11, FileOnly
<1> QED BY <1>3, <1>4

(* A round of fat16_write.                                                 *)
LEMMA WriteChunkInv == Inv /\ WriteChunk => Inv'
<1> SUFFICES ASSUME Inv, WriteChunk PROVE Inv'
  OBVIOUS
<1> DEFINE d == call.fd
           f == files[d]
           k == Chunk(f)
           p == f.position + k
           g == [f EXCEPT !.position = p, !.size = IF p > @ THEN p ELSE @]
           go == [call EXCEPT !.left = @ - k]
           grow == [go EXCEPT !.at = "alloc", !.prev = f.current]
<1>0. call.at = "write" /\ UNCHANGED <<fat, dir, mounted>>
  BY DEF WriteChunk
<1>1. /\ call \in Call /\ d \in Files /\ f \in File /\ f.active /\ fat \in FATs /\ LinksOK(fat)
      /\ OnChain(fat, f) /\ f.position \in Nat /\ f.size \in Nat /\ call.left \in Nat
      /\ MAX_SIZE \in Nat /\ f.size <= MAX_SIZE /\ k \in Nat /\ k <= call.left
  BY <1>0, InRound
<1>2. f.position + call.left <= MAX_SIZE
  BY <1>0 DEF Inv, CallOK
<1>3. CASE Return /\ UNCHANGED files
  BY <1>0, <1>3, ReturnInv
<1>4. CASE ~(Return /\ UNCHANGED files)
  <2>1. /\ f.current \in Clusters
        /\ \/ call' = NoCall /\ files' = [files EXCEPT ![d] = [g EXCEPT !.modified = TRUE]]
           \/ call' = go /\ files' = [files EXCEPT ![d] = g]
           \/ \E next \in {fat[f.current], BAD} :
                /\ Ends(next) /\ call' = grow /\ files' = [files EXCEPT ![d] = g]
           \/ \E next \in {fat[f.current], BAD} :
                /\ ~Ends(next) /\ call' = go
                /\ files' = [files EXCEPT ![d] = [g EXCEPT !.current = next]]
    <3>1. /\ f.current \in Clusters
          /\ IF call.left = k
             THEN Return /\ files' = [files EXCEPT ![d] = [g EXCEPT !.modified = TRUE]]
             ELSE IF ~ClusterDone(p)
             THEN call' = go /\ files' = [files EXCEPT ![d] = g]
             ELSE \E next \in FatEntry(f.current) :
                    IF Ends(next)
                    THEN /\ call' = [go EXCEPT !.at = "alloc", !.prev = f.current]
                         /\ files' = [files EXCEPT ![d] = g]
                    ELSE /\ call' = go
                         /\ files' = [files EXCEPT ![d] = [g EXCEPT !.current = next]]
      BY <1>4 DEF WriteChunk
    <3> HIDE DEF d, f, k, p, g, go
    <3> QED BY <3>1, Zenon DEF Return, FatEntry
  <2>2. p \in 0..MAX_SIZE /\ p + (call.left - k) <= MAX_SIZE /\ call.left - k \in 0..MAX_SIZE
    <3> HIDE DEF f, k
    <3> QED BY <1>1, <1>2
  <2>3. /\ g \in File /\ g.active /\ g.entry = f.entry /\ g.start = f.start
        /\ g.position = p /\ g.current = f.current
    <3> HIDE DEF f, p
    <3> QED BY <1>1, <2>2 DEF File
  <2>4. /\ go \in Call /\ go.at = "write" /\ go.fd = d /\ go.left = call.left - k
    <3> HIDE DEF k, f
    <3> QED BY <1>0, <1>1, <2>2 DEF Call
  <2>5. /\ grow \in Call /\ grow.at = "alloc" /\ grow.fd = d /\ grow.left = call.left - k
        /\ grow.prev = f.current
    <3> HIDE DEF go, f
    <3> QED BY <2>1, <2>4 DEF Call
  <2>6. NoCall \in Call /\ NoCall.at = "none"
    BY Fat16Assumption DEF NoCall, Call
  <2>7. f.start \in Clusters /\ fat[f.current] # FREE
    BY <1>1, <2>1, CurrentIsOwn DEF Inv
  <2> HIDE DEF g, go, grow, k
  <2>8. ASSUME NEW x \in File, x.active, x.entry = f.entry, x.start = f.start, x.position = p,
               OnChain(fat, x), files' = [files EXCEPT ![d] = x],
               \/ call' = NoCall
               \/ call' = go
               \/ call' = grow /\ x.current = f.current /\ fat[f.current] = EOC
        PROVE  Inv'
    <3>1. files'[d] = x
      BY <1>1, <2>8 DEF Inv, TypeOK
    <3>2. call' \in Call /\ call'.at # "link"
      BY <2>4, <2>5, <2>6, <2>8
    <3> HIDE DEF d, p, f
    <3>3. CallOK'
      <4>1. CASE call' = NoCall
        BY <2>6, <4>1 DEF CallOK
      <4>2. CASE call' = go
        BY <1>1, <2>2, <2>4, <2>8, <3>1, <4>2 DEF CallOK
      <4>3. CASE call' = grow /\ x.current = f.current /\ fat[f.current] = EOC
        BY <1>0, <1>1, <2>2, <2>5, <2>8, <3>1, <4>3 DEF CallOK
      <4> QED BY <2>8, <4>1, <4>2, <4>3
    <3>4. /\ files[d].active /\ x.entry = files[d].entry /\ x.start = files[d].start
          /\ x.size > 0 => x.start \in Clusters
      BY <1>1, <2>7, <2>8 DEF f
    <3> QED BY <1>0, <1>1, <2>8, <3>2, <3>3, <3>4, FileOnly
  <2>9. OnChain(fat, g)
    <3> HIDE DEF f
    <3> QED BY <1>1, <2>3 DEF OnChain
  <2>10. CASE call' = NoCall /\ files' = [files EXCEPT ![d] = [g EXCEPT !.modified = TRUE]]
    <3> DEFINE x == [g EXCEPT !.modified = TRUE]
    <3>1. /\ x \in File /\ x.active /\ x.entry = f.entry /\ x.start = f.start
          /\ x.position = p /\ x.current = f.current
      <4> HIDE DEF f, p
      <4> QED BY <2>3 DEF File
    <3> HIDE DEF x, f, d, p
    <3>2. OnChain(fat, x)
      BY <1>1, <3>1 DEF OnChain
    <3> QED BY <2>8, <2>10, <3>1, <3>2 DEF x
  <2>11. CASE call' = go /\ files' = [files EXCEPT ![d] = g]
    <3> HIDE DEF f, d, p
    <3> QED BY <2>3, <2>8, <2>9, <2>11
  <2>12. ASSUME NEW next \in {fat[f.current], BAD}, Ends(next), call' = grow,
                files' = [files EXCEPT ![d] = g]
         PROVE  Inv'
    <3>1. fat[f.current] = EOC
      <4>1. next # BAD
        BY <2>12, Marks, Fat16Assumption DEF Ends, BAD, MIN
      <4>2. fat[f.current] \in Clusters \cup {FREE, EOC}
        BY <1>1, <2>1 DEF FATs
      <4> HIDE DEF f
      <4>3. next = fat[f.current]
        BY <4>1
      <4> QED BY <2>7, <2>12, <4>2, <4>3, Marks DEF Ends, Clusters, MIN
    <3> HIDE DEF f, d, p
    <3> QED BY <2>3, <2>8, <2>9, <2>12, <3>1
  <2>13. ASSUME NEW next \in {fat[f.current], BAD}, ~Ends(next), call' = go,
                files' = [files EXCEPT ![d] = [g EXCEPT !.current = next]]
         PROVE  Inv'
    <3> DEFINE x == [g EXCEPT !.current = next]
    <3>1. next \in Clusters \cup {BAD}
      BY <1>1, <2>1, <2>13, Marks DEF FATs, Ends
    <3>2. /\ x \in File /\ x.active /\ x.entry = f.entry /\ x.start = f.start
          /\ x.position = p /\ x.current = next
      <4> HIDE DEF f, p
      <4> QED BY <2>3, <3>1 DEF File
    <3> HIDE DEF x, f, d, p
    <3>3. OnChain(fat, x)
      BY <1>1, <2>1, <2>13, <3>2, OnChainNext
    <3> QED BY <2>8, <2>13, <3>2, <3>3 DEF x
  <2> HIDE DEF d, f, p
  <2> QED BY <2>1, <2>10, <2>11, <2>12, <2>13
<1> QED BY <1>3, <1>4

(* Power fails: the disk is as it was, nothing is open.                    *)
LEMMA PowerFailureInv == Inv /\ PowerFailure => Inv'
<1> SUFFICES ASSUME Inv, PowerFailure PROVE Inv'
  OBVIOUS
<1>1. Closed \in File /\ ~Closed.active /\ NoCall \in Call /\ NoCall.at = "none"
  BY Fat16Assumption DEF Closed, File, NoCall, Call
<1>2. /\ UNCHANGED <<fat, dir>> /\ mounted' = FALSE /\ call' = NoCall
      /\ files' \in [Files -> File] /\ \A d \in Files : ~files'[d].active
  BY <1>1 DEF PowerFailure
<1>3. TypeOK'
  BY <1>1, <1>2 DEF Inv, TypeOK
<1>4. HomesOK'
  <2>1. PICK home \in [Clusters -> Entries] : AtHome(home)
    BY DEF Inv, HomesOK
  <2>2. AtHome(home)'
    BY <1>1, <1>2, <2>1 DEF AtHome
  <2> QED BY <2>1, <2>2 DEF HomesOK
<1>5. LinksOK(fat)' /\ DirOK'
  BY <1>2 DEF Inv, LinksOK, Forward, DirOK
<1>6. FilesOK' /\ StaysOnChain' /\ CallOK'
  BY <1>1, <1>2 DEF FilesOK, StaysOnChain, CallOK
<1> QED BY <1>3, <1>4, <1>5, <1>6 DEF Inv

(* What fat16_write_fat_entry makes of a FAT.                              *)
WithEntry(f, c, value) == [f EXCEPT ![c] = value]

(* A free cluster is marked as the end of a chain: no link leads to it.    *)
LEMMA MarkLinks ==
  ASSUME NEW f \in FATs, LinksOK(f), NEW c \in Clusters, f[c] = FREE,
         NEW g, g = WithEntry(f, c, EOC)
  PROVE  /\ g \in FATs /\ LinksOK(g) /\ Grows(f, g) /\ g[c] = EOC
         /\ \A x \in Clusters : f[x] # c /\ g[x] # c /\ (x # c => g[x] = f[x])
<1>1. g \in FATs /\ g[c] = EOC /\ \A x \in Clusters : x # c => g[x] = f[x]
  BY DEF FATs, WithEntry
<1>2. \A x \in Clusters : f[x] # c
  BY DEF LinksOK
<1>3. EOC \notin Clusters /\ FREE \notin Clusters /\ FREE # EOC
  BY Marks
<1>4. Grows(f, g)
  BY <1>1, <1>3 DEF Grows
<1>5. \A x \in Clusters : g[x] \in Clusters => x # c /\ g[x] = f[x] /\ f[x] # c
  BY <1>1, <1>2, <1>3
<1>6. LinksOK(g)
  <2>1. PICK rank \in [Clusters -> Nat] : Forward(f, rank)
    BY DEF LinksOK
  <2>2. Forward(g, rank)
    BY <1>5, <2>1 DEF Forward
  <2>3. ASSUME NEW x \in Clusters, g[x] \in Clusters
        PROVE  g[g[x]] # FREE /\ \A y \in Clusters \ {x} : g[y] # g[x]
    <3>1. g[x] = f[x] /\ f[x] \in Clusters /\ f[x] # c
      BY <1>5, <2>3
    <3>2. f[f[x]] # FREE /\ \A y \in Clusters \ {x} : f[y] # f[x]
      BY <3>1 DEF LinksOK
    <3> QED BY <1>1, <1>3, <3>1, <3>2
  <2> QED BY <2>1, <2>2, <2>3 DEF LinksOK
<1> QED BY <1>1, <1>2, <1>3, <1>4, <1>6

(* A new cluster is linked behind the end of a chain.                      *)
LEMMA LinkLinks ==
  ASSUME NEW f \in FATs, LinksOK(f), NEW prev \in Clusters, NEW new \in Clusters, new # prev,
         f[prev] = EOC, f[new] = EOC, \A x \in Clusters : f[x] # new,
         NEW g, g = WithEntry(f, prev, new)
  PROVE  /\ g \in FATs /\ LinksOK(g) /\ Grows(f, g) /\ g[prev] = new
         /\ \A x \in Clusters : x # prev => g[x] = f[x]
<1>1. g \in FATs /\ g[prev] = new /\ \A x \in Clusters : x # prev => g[x] = f[x]
  BY DEF FATs, WithEntry
<1>2. EOC \notin Clusters /\ FREE \notin Clusters /\ FREE # EOC
  BY Marks
<1>3. Grows(f, g)
  BY <1>1, <1>2 DEF Grows
<1>4. LinksOK(g)
  <2>1. PICK rank \in [Clusters -> Nat] : Forward(f, rank)
    BY DEF LinksOK
  <2> DEFINE later == [rank EXCEPT ![new] = rank[prev] + 1]
  <2>2. /\ later \in [Clusters -> Nat] /\ later[new] = rank[prev] + 1
        /\ \A x \in Clusters : x # new => later[x] = rank[x]
    OBVIOUS
  <2> HIDE DEF later
  <2>3. Forward(g, later)
    <3> SUFFICES ASSUME NEW x \in Clusters, g[x] \in Clusters PROVE later[x] < later[g[x]]
      BY DEF Forward
    <3>1. CASE x = prev
      <4>1. later[x] = rank[prev] /\ later[g[x]] = rank[prev] + 1 /\ rank[prev] \in Nat
        BY <1>1, <2>2, <3>1
      <4> QED BY <4>1
    <3>2. CASE x # prev
      <4>1. g[x] = f[x] /\ f[x] # new /\ x # new
        BY <1>1, <1>2, <3>2
      <4> QED BY <2>1, <2>2, <4>1 DEF Forward
    <3> QED BY <3>1, <3>2
  <2>4. ASSUME NEW x \in Clusters, g[x] \in Clusters
        PROVE  g[g[x]] # FREE /\ \A y \in Clusters \ {x} : g[y] # g[x]
    <3>1. CASE x = prev
      <4>1. g[x] = new /\ g[new] = EOC
        BY <1>1, <3>1
      <4> QED BY <1>1, <1>2, <3>1, <4>1
    <3>2. CASE x # prev
      <4>1. g[x] = f[x] /\ f[x] \in Clusters /\ f[x] # new
        BY <1>1, <2>4, <3>2
      <4>2. f[f[x]] # FREE /\ \A y \in Clusters \ {x} : f[y] # f[x]
        BY <4>1 DEF LinksOK
      <4> QED BY <1>1, <1>2, <4>1, <4>2
    <3> QED BY <3>1, <3>2
  <2> QED BY <2>2, <2>3, <2>4 DEF LinksOK
<1> QED BY <1>1, <1>3, <1>4

(* A step in which the FAT grows; at most one open file changes.           *)
LEMMA FatGrows ==
  ASSUME Inv, UNCHANGED <<dir, mounted>>, call' \in Call, CallOK', HomesOK',
         fat' \in FATs, LinksOK(fat'), Grows(fat, fat'),
         NEW d \in Files, files[d].active, NEW x \in File, files' = [files EXCEPT ![d] = x],
         x.active, x.entry = files[d].entry,
         x.size > 0 => x.start \in Clusters, OnChain(fat', x)
  PROVE  Inv'
<1>0. /\ files' \in [Files -> File] /\ files'[d] = x
      /\ \A o \in Files : o # d => files'[o] = files[o] /\ files[o] \in File
      /\ fat \in FATs
  BY DEF Inv, TypeOK, FATs
<1>1. TypeOK'
  BY <1>0 DEF Inv, TypeOK, FATs
<1>2. DirOK'
  BY DEF Inv, DirOK, Grows
<1>3. FilesOK'
  BY <1>0 DEF Inv, FilesOK
<1>4. StaysOnChain'
  <2>1. ASSUME NEW o \in Files, files'[o].active PROVE OnChain(fat', files'[o])
    <3>1. CASE o = d
      BY <1>0, <3>1
    <3>2. CASE o # d
      <4>1. files[o].active /\ files[o] \in File /\ files'[o] = files[o]
        BY <1>0, <2>1, <3>2
      <4>2. OnChain(fat, files[o])
        BY <4>1, StaysOnChainIs DEF Inv
      <4>3. OnChain(fat', files[o])
        BY <1>0, <4>1, <4>2, OnChainGrows
      <4> QED BY <4>1, <4>3
    <3> QED BY <3>1, <3>2
  <2> QED BY <2>1 DEF StaysOnChain, OnChain, Chain
<1> QED BY <1>1, <1>2, <1>3, <1>4 DEF Inv

(* fat16_allocate_cluster: the cluster it finds is nobody's.               *)
LEMMA AllocInv == Inv /\ Alloc => Inv' /\ Grows(fat, fat')
<1> SUFFICES ASSUME Inv, Alloc PROVE Inv' /\ Grows(fat, fat')
  OBVIOUS
<1> DEFINE d == call.fd
           f == files[d]
<1>0. call.at = "alloc" /\ UNCHANGED <<dir, mounted>>
  BY DEF Alloc
<1>1. /\ call \in Call /\ d \in Files /\ f \in File /\ f.active /\ fat \in FATs /\ LinksOK(fat)
      /\ f.size > 0 => f.start \in Clusters
      /\ OnChain(fat, f)
  BY <1>0, InRound
<1>2. /\ f.position + call.left <= MAX_SIZE
      /\ call.prev \in Clusters => f.current = call.prev /\ fat[call.prev] = EOC
      /\ f.entry \in Entries
  BY <1>0, <1>1 DEF Inv, CallOK, FilesOK
<1>3. CASE Return /\ UNCHANGED <<fat, files>>
  <2>1. Inv'
    BY <1>0, <1>3, ReturnInv
  <2> QED BY <1>3, <2>1 DEF Grows
<1>4. ASSUME NEW c \in Clusters, fat[c] = FREE, fat' = [fat EXCEPT ![c] = EOC],
             \/ Return /\ UNCHANGED files
             \/ /\ call.prev >= MIN
                /\ call' = [call EXCEPT !.at = "link", !.new = c] /\ UNCHANGED files
             \/ /\ call.prev < MIN
                /\ call' = [call EXCEPT !.at = "write"]
                /\ files' = [files EXCEPT ![d].start = c, ![d].current = c]
      PROVE  Inv' /\ Grows(fat, fat')
  <2>1. /\ fat' \in FATs /\ LinksOK(fat') /\ Grows(fat, fat') /\ fat'[c] = EOC
        /\ \A y \in Clusters : fat[y] # c /\ fat'[y] # c /\ (y # c => fat'[y] = fat[y])
    <3>1. fat[c] = FREE /\ fat' = WithEntry(fat, c, EOC)
      BY <1>4 DEF WithEntry
    <3>2. fat \in FATs /\ LinksOK(fat)
      BY <1>1
    <3> QED BY <3>1, <3>2, MarkLinks
  <2>2. c \in Places /\ c \in ChainIn(fat', c) /\ EOC \notin Clusters /\ EOC # FREE
    BY <2>1, ChainStart, Marks DEF Places
  <2> DEFINE first == [f EXCEPT !.start = c, !.current = c]
  <2>3. PICK x \in {f, first} :
          /\ files' = [files EXCEPT ![d] = x]
          /\ \/ call' = NoCall
             \/ /\ call.prev \in Clusters /\ x = f
                /\ call' = [call EXCEPT !.at = "link", !.new = c]
             \/ /\ call.prev = FREE /\ x = first
                /\ call' = [call EXCEPT !.at = "write"]
    <3>1. files = [files EXCEPT ![d] = f]
      BY <1>1 DEF Inv, TypeOK
    <3>2. [files EXCEPT ![d].start = c, ![d].current = c] = [files EXCEPT ![d] = first]
      BY <1>1 DEF Inv, TypeOK
    <3>3. call.prev \in Clusters \cup {FREE}
      BY <1>1 DEF Call
    <3>4. (call.prev >= MIN => call.prev \in Clusters) /\ (call.prev < MIN => call.prev = FREE)
      BY <3>3, Marks DEF Clusters, MIN
    <3>5. CASE Return /\ UNCHANGED files
      <4> HIDE DEF f, d, first
      <4> QED BY <3>1, <3>5 DEF Return
    <3>6. CASE /\ call.prev >= MIN
               /\ call' = [call EXCEPT !.at = "link", !.new = c] /\ UNCHANGED files
      <4> HIDE DEF f, d, first
      <4> QED BY <3>1, <3>4, <3>6
    <3>7. CASE /\ call.prev < MIN
               /\ call' = [call EXCEPT !.at = "write"]
               /\ files' = [files EXCEPT ![d].start = c, ![d].current = c]
      <4> HIDE DEF f, d, first
      <4> QED BY <3>2, <3>4, <3>7
    <3> HIDE DEF f, d, first
    <3> QED BY <1>4, <3>5, <3>6, <3>7
  <2>4. /\ first \in File /\ first.active /\ first.entry = f.entry /\ first.start = c
        /\ first.current = c /\ first.position = f.position
    <3> HIDE DEF f
    <3> QED BY <1>1 DEF File
  <2> HIDE DEF first, f
  <2>5. /\ x \in File /\ x.active /\ x.entry = f.entry /\ x.position = f.position
        /\ x.size > 0 => x.start \in Clusters
        /\ x.start = c \/ x.start = f.start
    BY <1>1, <2>3, <2>4
  <2>6. OnChain(fat', x)
    <3>1. CASE x = f
      BY <1>1, <2>1, <3>1, OnChainGrows
    <3>2. CASE x = first
      BY <2>1, <2>2, <2>4, <3>2 DEF OnChain
    <3> QED BY <2>3, <3>1, <3>2
  <2>7. files'[d] = x /\ \A o \in Files : o # d => files'[o] = files[o]
    BY <1>1, <2>3 DEF Inv, TypeOK
  <2>8. \A o \in Files : files[o].active => files[o].start # c
    <3> SUFFICES ASSUME NEW o \in Files, files[o].active, files[o].start = c PROVE FALSE
      OBVIOUS
    <3>1. OnChain(fat, files[o])
      BY StaysOnChainIs DEF Inv
    <3> QED BY <1>4, <3>1, Marks DEF OnChain
  <2>9. call' \in Call
    <3>1. NoCall \in Call
      BY Fat16Assumption DEF NoCall, Call
    <3>2. /\ [call EXCEPT !.at = "link", !.new = c] \in Call
          /\ [call EXCEPT !.at = "write"] \in Call
      BY <1>1 DEF Call
    <3> QED BY <2>3, <3>1, <3>2
  <2>10. call'.at = "link" => call'.new = c /\ call'.fd = d
    <3> DEFINE link == [call EXCEPT !.at = "link", !.new = c]
               go   == [call EXCEPT !.at = "write"]
    <3>1. link.new = c /\ link.fd = d /\ go.at # "link" /\ NoCall.at # "link"
      BY <1>1 DEF NoCall, Call
    <3> HIDE DEF link, go
    <3>2. call' = NoCall \/ call' = link \/ call' = go
      BY <2>3 DEF link, go
    <3> QED BY <3>1, <3>2
  <2>11. HomesOK'
    <3>1. PICK home \in [Clusters -> Entries] : AtHome(home)
      BY DEF Inv, HomesOK
    <3>2. PICK hm \in [Clusters -> Entries] :
            hm[c] = f.entry /\ \A y \in Clusters : y # c => hm[y] = home[y]
      <4> DEFINE h == [home EXCEPT ![c] = f.entry]
      <4>1. /\ h \in [Clusters -> Entries] /\ h[c] = f.entry
            /\ \A y \in Clusters : y # c => h[y] = home[y]
        BY <1>2
      <4> HIDE DEF h
      <4> QED BY <4>1
    <3>3. \A y \in Clusters : fat'[y] \in Clusters => hm[fat'[y]] = hm[y]
      <4> SUFFICES ASSUME NEW y \in Clusters, fat'[y] \in Clusters PROVE hm[fat'[y]] = hm[y]
        OBVIOUS
      <4>1. y # c /\ fat'[y] = fat[y] /\ fat[y] # c
        BY <2>1, <2>2
      <4>2. home[fat[y]] = home[y]
        BY <3>1, <4>1 DEF AtHome
      <4> QED BY <3>2, <4>1, <4>2
    <3>4. \A e \in Entries : dir'[e].start \in Clusters => hm[dir'[e].start] = e
      BY <1>0, <1>4, <3>1, <3>2 DEF Inv, DirOK, AtHome
    <3>5. \A o \in Files : files'[o].active =>
            (files'[o].start \in Clusters => hm[files'[o].start] = files'[o].entry)
      <4> SUFFICES ASSUME NEW o \in Files, files'[o].active, files'[o].start \in Clusters
                   PROVE  hm[files'[o].start] = files'[o].entry
        OBVIOUS
      <4>1. CASE files'[o].start = c
        <5>1. o = d
          BY <2>7, <2>8, <4>1
        <5> QED BY <2>5, <2>7, <3>2, <4>1, <5>1
      <4>2. CASE files'[o].start # c
        <5>1. /\ files[o].active /\ files'[o].start = files[o].start
              /\ files'[o].entry = files[o].entry
          BY <1>1, <2>5, <2>7, <4>2 DEF f
        <5> QED BY <3>1, <3>2, <4>2, <5>1 DEF AtHome
      <4> QED BY <4>1, <4>2
    <3>6. call'.at = "link" => hm[call'.new] = files'[call'.fd].entry
      BY <2>5, <2>7, <2>10, <3>2
    <3>7. AtHome(hm)'
      BY <3>3, <3>4, <3>5, <3>6 DEF AtHome
    <3> QED BY <3>2, <3>7 DEF HomesOK
  <2>12. CallOK'
    <3>1. CASE call' = NoCall
      BY <3>1 DEF CallOK, NoCall
    <3>2. CASE /\ call.prev \in Clusters /\ x = f
               /\ call' = [call EXCEPT !.at = "link", !.new = c]
      <4>1. /\ call'.at = "link" /\ call'.new = c /\ call'.fd = d /\ call'.prev = call.prev
            /\ call'.left = call.left
        BY <1>1, <3>2 DEF Call
      <4>2. c # call.prev /\ fat'[call.prev] = EOC /\ x.current = call.prev
        BY <1>2, <1>4, <2>1, <2>2, <3>2
      <4> HIDE DEF d
      <4> QED BY <1>1, <1>2, <1>4, <2>1, <2>5, <2>7, <3>2, <4>1, <4>2 DEF CallOK
    <3>3. CASE /\ call.prev = FREE /\ x = first
               /\ call' = [call EXCEPT !.at = "write"]
      <4>1. call'.at = "write" /\ call'.fd = d /\ call'.left = call.left
        BY <1>1, <3>3 DEF Call
      <4> HIDE DEF d
      <4> QED BY <1>1, <1>2, <2>5, <2>7, <4>1 DEF CallOK
    <3> QED BY <2>3, <3>1, <3>2, <3>3
  <2>13. files[d].active /\ x.entry = files[d].entry
    BY <1>1, <2>5 DEF f
  <2> HIDE DEF d
  <2>14. Inv'
    BY <1>0, <1>1, <2>1, <2>3, <2>5, <2>6, <2>9, <2>11, <2>12, <2>13, FatGrows
  <2> QED BY <2>1, <2>14
<1>5. CASE ~(Return /\ UNCHANGED <<fat, files>>)
  BY <1>4, <1>5, Zenon DEF Alloc
<1> QED BY <1>3, <1>5

(* ... and it is linked behind the end of the chain of the file.           *)
LEMMA LinkInv == Inv /\ Link => Inv' /\ Grows(fat, fat')
<1> SUFFICES ASSUME Inv, Link PROVE Inv' /\ Grows(fat, fat')
  OBVIOUS
<1> DEFINE d == call.fd
           f == files[d]
           prev == call.prev
           new == call.new
<1>0. call.at = "link" /\ UNCHANGED <<dir, mounted>>
  BY DEF Link
<1>1. /\ call \in Call /\ d \in Files /\ f \in File /\ f.active /\ fat \in FATs /\ LinksOK(fat)
      /\ f.size > 0 => f.start \in Clusters
      /\ OnChain(fat, f)
  BY <1>0, InRound
<1>2. /\ f.position + call.left <= MAX_SIZE
      /\ prev \in Clusters /\ new \in Clusters /\ new # prev /\ f.current = prev
      /\ fat[prev] = EOC /\ fat[new] = EOC /\ \A c \in Clusters : fat[c] # new
  BY <1>0 DEF Inv, CallOK
<1>3. CASE Return /\ UNCHANGED <<fat, files>>
  <2>1. Inv'
    BY <1>0, <1>3, ReturnInv
  <2> QED BY <1>3, <2>1 DEF Grows
<1>4. CASE ~(Return /\ UNCHANGED <<fat, files>>)
  <2> DEFINE last == [f EXCEPT !.current = new]
  <2>0. /\ fat' = [fat EXCEPT ![prev] = new]
        /\ \/ Return /\ UNCHANGED files
           \/ /\ call' = [call EXCEPT !.at = "write", !.prev = FREE, !.new = FREE]
              /\ files' = [files EXCEPT ![d].current = new]
    BY <1>4 DEF Link
  <2>1. /\ fat' \in FATs /\ LinksOK(fat') /\ Grows(fat, fat') /\ fat'[prev] = new
        /\ \A y \in Clusters : y # prev => fat'[y] = fat[y]
    <3>1. fat' = WithEntry(fat, prev, new)
      BY <2>0 DEF WithEntry
    <3>2. fat \in FATs /\ LinksOK(fat)
      BY <1>1
    <3> HIDE DEF prev, new
    <3> QED BY <1>2, <3>1, <3>2, LinkLinks
  <2>2. PICK x \in {f, last} :
          /\ files' = [files EXCEPT ![d] = x]
          /\ \/ call' = NoCall
             \/ call' = [call EXCEPT !.at = "write", !.prev = FREE, !.new = FREE]
    <3>1. files = [files EXCEPT ![d] = f]
      BY <1>1 DEF Inv, TypeOK
    <3>2. [files EXCEPT ![d].current = new] = [files EXCEPT ![d] = last]
      BY <1>1 DEF Inv, TypeOK
    <3> HIDE DEF f, d, last, new
    <3> QED BY <2>0, <3>1, <3>2 DEF Return
  <2>3. /\ last \in File /\ last.active /\ last.entry = f.entry /\ last.start = f.start
        /\ last.current = new /\ last.position = f.position /\ last.size = f.size
    <3> HIDE DEF f, new
    <3> QED BY <1>1, <1>2 DEF File
  <2> HIDE DEF last, f
  <2>4. /\ x \in File /\ x.active /\ x.entry = f.entry /\ x.position = f.position
        /\ x.size > 0 => x.start \in Clusters
        /\ x.start = f.start
    BY <1>1, <2>2, <2>3
  <2>5. OnChain(fat', f)
    BY <1>1, <2>1, OnChainGrows
  <2>6. OnChain(fat', x)
    <3>1. CASE x = f
      BY <2>5, <3>1
    <3>2. CASE x = last
      <4>1. f.start \in Clusters /\ fat'[f.start] # FREE /\ prev \in ChainIn(fat', f.start)
        BY <1>2, <2>5, Marks DEF OnChain
      <4>2. f.start \in Places
        BY <4>1 DEF Places
      <4>3. new \in ChainIn(fat', f.start)
        <5> HIDE DEF prev, new
        <5> QED BY <1>2, <2>1, <4>1, <4>2, ChainNext
      <4> QED BY <2>3, <3>2, <4>1, <4>3 DEF OnChain
    <3> QED BY <2>2, <3>1, <3>2
  <2>7. files'[d] = x /\ \A o \in Files : o # d => files'[o] = files[o]
    BY <1>1, <2>2 DEF Inv, TypeOK
  <2>8. /\ call' \in Call /\ call'.at \in {"none", "write"}
        /\ call'.at # "none" => call'.fd = d /\ call'.left = call.left
    <3>1. NoCall \in Call /\ NoCall.at = "none"
      BY Fat16Assumption DEF NoCall, Call
    <3> DEFINE go == [call EXCEPT !.at = "write", !.prev = FREE, !.new = FREE]
    <3>2. go \in Call /\ go.at = "write" /\ go.fd = d /\ go.left = call.left
      BY <1>1 DEF Call
    <3> HIDE DEF go
    <3> QED BY <2>2, <3>1, <3>2 DEF go
  <2>9. HomesOK'
    <3>1. PICK home \in [Clusters -> Entries] : AtHome(home)
      BY DEF Inv, HomesOK
    <3>2. home[prev] = f.entry
      BY <1>1, <1>2, <3>1, CurrentIsOwn DEF Inv, f
    <3>3. home[new] = f.entry
      BY <1>0, <3>1 DEF AtHome, f
    <3>4. \A y \in Clusters : fat'[y] \in Clusters => home[fat'[y]] = home[y]
      <4> SUFFICES ASSUME NEW y \in Clusters, fat'[y] \in Clusters PROVE home[fat'[y]] = home[y]
        OBVIOUS
      <4>1. CASE y = prev
        BY <2>1, <3>2, <3>3, <4>1
      <4>2. CASE y # prev
        BY <2>1, <3>1, <4>2 DEF AtHome
      <4> QED BY <4>1, <4>2
    <3>5. \A o \in Files : files'[o].active => files[o].active /\ files'[o].start = files[o].start
                                           /\ files'[o].entry = files[o].entry
      BY <1>1, <2>4, <2>7 DEF f
    <3>6. AtHome(home)'
      BY <1>0, <2>8, <3>1, <3>4, <3>5 DEF AtHome
    <3> QED BY <3>1, <3>6 DEF HomesOK
  <2>10. CallOK'
    <3> HIDE DEF d
    <3> QED BY <1>1, <1>2, <2>4, <2>7, <2>8 DEF CallOK
  <2>11. files[d].active /\ x.entry = files[d].entry
    BY <1>1, <2>4 DEF f
  <2> HIDE DEF d, prev, new
  <2>12. Inv'
    BY <1>0, <1>1, <2>1, <2>2, <2>4, <2>6, <2>8, <2>9, <2>10, <2>11, FatGrows
  <2> QED BY <2>1, <2>12
<1> QED BY <1>3, <1>4

-----------------------------------------------------------------------------
(* No step breaks the invariant or a chain.                                *)
LEMMA NextInv == Inv /\ [Next]_vars => Inv' /\ Grows(fat, fat')
<1> SUFFICES ASSUME Inv, [Next]_vars PROVE Inv' /\ Grows(fat, fat')
  OBVIOUS
<1>1. CASE Mount
  BY <1>1, MountInv DEF Mount, Grows
<1>2. ASSUME NEW n \in Names, NEW unread \in BOOLEAN, Create(n, unread)
      PROVE  Inv' /\ Grows(fat, fat')
  BY <1>2, CreateInv DEF Create, Grows
<1>3. ASSUME NEW n \in Names, Delete(n) PROVE Inv' /\ Grows(fat, fat')
  BY <1>3, DeleteInv DEF Delete, Grows
<1>4. ASSUME NEW n \in Names, Open(n) PROVE Inv' /\ Grows(fat, fat')
  BY <1>4, OpenInv DEF Open, Grows
<1>5. ASSUME NEW d \in Files, Close(d) PROVE Inv' /\ Grows(fat, fat')
  BY <1>5, CloseInv DEF Close, Grows
<1>6. ASSUME NEW d \in Files, NEW n \in Counts, Read(d, n) PROVE Inv' /\ Grows(fat, fat')
  BY <1>6, ReadInv DEF Read, Grows
<1>7. ASSUME NEW d \in Files, NEW n \in Counts, Write(d, n) PROVE Inv' /\ Grows(fat, fat')
  BY <1>7, WriteInv DEF Write, Grows
<1>8. CASE ReadChunk
  BY <1>8, ReadChunkInv DEF ReadChunk, Grows
<1>9. CASE WriteChunk
  BY <1>9, WriteChunkInv DEF WriteChunk, Grows
<1>10. CASE Alloc \/ Link
  BY <1>10, AllocInv, LinkInv
<1>11. CASE PowerFailure
  BY <1>11, PowerFailureInv DEF PowerFailure, Grows
<1>12. CASE UNCHANGED vars
  <2>1. HomesOK'
    <3>1. PICK home \in [Clusters -> Entries] : AtHome(home)
      BY DEF Inv, HomesOK
    <3>2. AtHome(home)'
      BY <1>12, <3>1 DEF AtHome, vars
    <3> QED BY <3>1, <3>2 DEF HomesOK
  <2>2. TypeOK' /\ LinksOK(fat)' /\ DirOK' /\ FilesOK' /\ StaysOnChain' /\ CallOK'
    BY <1>12 DEF Inv, vars, TypeOK, LinksOK, Forward, DirOK, FilesOK, StaysOnChain, Chain, CallOK
  <2>3. Inv'
    BY <2>1, <2>2 DEF Inv
  <2> QED BY <1>12, <2>3 DEF vars, Grows
<1> QED BY <1>1, <1>2, <1>3, <1>4, <1>5, <1>6, <1>7, <1>8, <1>9, <1>10, <1>11, <1>12
        DEF Next, Step

(* The volume and the descriptors stay consistent through every sequence   *)
(* of calls, failing sectors and power failures.                           *)
THEOREM Invariance == Spec => []Inv
BY InitInv, NextInv, PTL DEF Spec

(* Type correctness: cluster numbers, sizes and positions stay in range.   *)
THEOREM TypeCorrect == Spec => []TypeOK
<1>1. Inv => TypeOK
  BY DEF Inv
<1> QED BY <1>1, Invariance, PTL

(* fat16_write extends chains only at their end, with a cluster nobody     *)
(* else links to: chains never meet and never go round, for every size of  *)
(* the volume.                                                             *)
THEOREM ChainsStayDisjoint == Spec => []ChainsDisjoint
<1>1. Inv => ChainsDisjoint
  <2> SUFFICES ASSUME Inv, NEW c \in Clusters, fat[c] \in Clusters
               PROVE  /\ fat[fat[c]] # FREE
                      /\ c \notin Chain(fat[c])
                      /\ \A d \in Clusters \ {c} : fat[d] # fat[c]
    BY DEF ChainsDisjoint
  <2>1. fat[fat[c]] # FREE /\ \A d \in Clusters \ {c} : fat[d] # fat[c]
    BY DEF Inv, LinksOK
  <2>2. PICK rank \in [Clusters -> Nat] : Forward(fat, rank)
    BY DEF Inv, LinksOK
  <2> DEFINE T == {x \in Clusters : rank[c] < rank[x]}
  <2>3. fat \in FATs /\ fat[c] \in Places
    BY DEF Inv, TypeOK, FATs, Places
  <2>4. fat[c] \in T
    BY <2>2 DEF Forward
  <2>5. \A x \in Clusters : x \in T /\ fat[x] \in Clusters => fat[x] \in T
    <3> SUFFICES ASSUME NEW x \in Clusters, x \in T, fat[x] \in Clusters PROVE fat[x] \in T
      OBVIOUS
    <3>1. rank[c] \in Nat /\ rank[x] \in Nat /\ rank[fat[x]] \in Nat
      BY <2>2
    <3>2. rank[c] < rank[x] /\ rank[x] < rank[fat[x]]
      BY <2>2 DEF Forward
    <3>3. rank[c] < rank[fat[x]]
      BY <3>1, <3>2
    <3> QED BY <3>3
  <2>6. ~(rank[c] < rank[c])
    BY <2>2
  <2>7. c \notin T
    BY <2>6
  <2>8. ChainIn(fat, fat[c]) \subseteq T
    <3> HIDE DEF T
    <3> QED BY <2>3, <2>4, <2>5, ChainWithin
  <2> QED BY <2>1, <2>7, <2>8 DEF Chain
<1> QED BY <1>1, Invariance, PTL

(* No two files share a cluster, although fat16_delete leaves descriptors  *)
(* open and fat16_close writes their chain into whatever entry is there.   *)
THEOREM FilesStayDisjoint == Spec => []FilesDisjoint
<1>1. Inv => FilesDisjoint
  <2> SUFFICES ASSUME Inv, NEW e \in Entries
               PROVE  /\ dir[e].size > 0 => dir[e].start >= MIN
                      /\ dir[e].start >= MIN => fat[dir[e].start] # FREE
                      /\ \A g \in Entries \ {e} :
                           Chain(dir[e].start) \cap Chain(dir[g].start) = {}
    BY DEF FilesDisjoint
  <2>1. fat \in FATs /\ \A o \in Entries : dir[o].start \in Clusters \cup {FREE}
    BY DEF Inv, TypeOK, FATs, Entry
  <2>2. dir[e].start >= MIN <=> dir[e].start \in Clusters
    BY <2>1, Marks
  <2>3. /\ dir[e].size > 0 => dir[e].start >= MIN
        /\ dir[e].start >= MIN => fat[dir[e].start] # FREE
    BY <2>2 DEF Inv, DirOK
  <2>4. PICK home \in [Clusters -> Entries] : AtHome(home)
    BY DEF Inv, HomesOK
  <2>5. ASSUME NEW o \in Entries PROVE \A x \in ChainIn(fat, dir[o].start) : home[x] = o
    <3> DEFINE T == {x \in Clusters : home[x] = o}
    <3>1. dir[o].start \in Clusters => dir[o].start \in T
      BY <2>4 DEF AtHome
    <3>2. \A x \in Clusters : x \in T /\ fat[x] \in Clusters => fat[x] \in T
      BY <2>4 DEF AtHome
    <3>3. dir[o].start \in Places
      BY <2>1 DEF Places
    <3>4. ChainIn(fat, dir[o].start) \subseteq T
      <4> HIDE DEF T
      <4> QED BY <2>1, <3>1, <3>2, <3>3, ChainWithin
    <3> QED BY <3>4
  <2>6. ASSUME NEW g \in Entries \ {e}
        PROVE  ChainIn(fat, dir[e].start) \cap ChainIn(fat, dir[g].start) = {}
    BY <2>5, <2>6
  <2> QED BY <2>3, <2>6 DEF Chain
<1> QED BY <1>1, Invariance, PTL

(* An open file never reads or writes outside its own chain.               *)
THEOREM FilesStayOnChain == Spec => []StaysOnChain
<1>1. Inv => StaysOnChain
  BY DEF Inv
<1> QED BY <1>1, Invariance, PTL

(* What was linked stays linked and what was allocated stays allocated,    *)
(* whichever sector access fails and whenever the power does.              *)
THEOREM ChainsGrowAtTheEnd == Spec => ChainsOnlyGrow
<1>1. Inv /\ [Next]_vars =>
        [\A c \in Clusters : /\ fat[c] \in Clusters => fat'[c] = fat[c]
                             /\ fat[c] # FREE => fat'[c] # FREE]_vars
  BY NextInv DEF Grows
<1> QED BY <1>1, Invariance, PTL DEF Spec, ChainsOnlyGrow
=============================================================================
