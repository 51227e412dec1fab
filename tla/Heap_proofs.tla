----------------------------- MODULE Heap_proofs -----------------------------
(***************************************************************************)
(* Proofs about Heap, for every page size, region, number of frames and    *)
(* set of request sizes.                                                   *)
(***************************************************************************)
EXTENDS Heap, BoundedInduction, TLAPS

(* Addresses and NULL.                                                     *)
LEMMA AddrFacts ==
  /\ Addr \subseteq Nat /\ NULL \notin Nat /\ 0 \in Addr
  /\ \A x \in Nat, e \in Addr : x <= e => x \in Addr
<1>1. HEAP_PAGES * PAGE \in Nat
  BY HeapAssumption
<1> QED BY <1>1 DEF Addr, NULL

Link == Addr \cup {NULL}

(* The fields of a header.                                                 *)
LEMMA HeaderFacts ==
  ASSUME NEW r \in Header
  PROVE  r.size \in Nat /\ r.is_free \in BOOLEAN /\ r.next \in Link /\ r.prev \in Link
BY DEF Header, Link

(* A header with another prev link.                                        *)
LEMMA PrevSet ==
  ASSUME NEW r \in Header, NEW x \in Link
  PROVE  LET q == [r EXCEPT !.prev = x]
         IN  /\ q \in Header /\ q.size = r.size /\ q.is_free = r.is_free
             /\ q.next = r.next /\ q.prev = x
BY DEF Header, Link

-----------------------------------------------------------------------------
EndIn(h, c) == c + 1 + h[c].size

(* The headers h form one list in address order that tiles the addresses   *)
(* from 0 up to e: ListInOrder and BlocksInUse, of any set of headers.     *)
(* That some chunk is the last one is what makes it inductive: the loop of *)
(* kmalloc that looks for the end of the list finds it.                    *)
Linked(h, e, c) ==
  /\ \/ h[c].next = NULL /\ EndIn(h, c) = e
     \/ h[c].next = EndIn(h, c) /\ EndIn(h, c) \in DOMAIN h
  /\ \/ h[c].prev = NULL /\ c = 0
     \/ h[c].prev \in DOMAIN h /\ h[h[c].prev].next = c

Tiled(h, e) ==
  /\ DOMAIN h \subseteq Addr /\ h \in [DOMAIN h -> Header] /\ e \in Addr
  /\ DOMAIN h # {} => 0 \in DOMAIN h /\ \E c \in DOMAIN h : h[c].next = NULL
  /\ \A c \in DOMAIN h : Linked(h, e, c)
  /\ \A c \in DOMAIN h : EndIn(h, c) <= e
  /\ \A c, d \in DOMAIN h : c < d => EndIn(h, c) <= d

(* What the fields of the headers say when they tile.                      *)
LEMMA TiledFacts ==
  ASSUME NEW h, NEW e, Tiled(h, e)
  PROVE  /\ DOMAIN h \subseteq Nat /\ DOMAIN h \subseteq Link /\ e \in Nat /\ e \in Addr
         /\ \A a \in DOMAIN h :
              /\ h[a] \in Header /\ h[a].size \in Nat /\ h[a].is_free \in BOOLEAN
              /\ h[a].next \in Link /\ h[a].prev \in Link
              /\ EndIn(h, a) \in Nat /\ a < EndIn(h, a) /\ EndIn(h, a) <= e
              /\ EndIn(h, a) = a + 1 + h[a].size
         /\ \A a \in DOMAIN h : h[a].next = NULL => EndIn(h, a) = e
         /\ \A a \in DOMAIN h : h[a].next # NULL =>
              h[a].next \in DOMAIN h /\ h[a].next = EndIn(h, a)
         /\ \A a \in DOMAIN h : h[a].prev = NULL => a = 0
         /\ \A a \in DOMAIN h : h[a].prev # NULL =>
              h[a].prev \in DOMAIN h /\ h[h[a].prev].next = a
         /\ \A a, b \in DOMAIN h : a < b => EndIn(h, a) <= b
         /\ \A a, b \in DOMAIN h : h[a].next = h[b].next => a = b
         /\ DOMAIN h # {} => 0 \in DOMAIN h /\ \E c \in DOMAIN h : h[c].next = NULL
<1>1. /\ DOMAIN h \subseteq Addr /\ h \in [DOMAIN h -> Header] /\ e \in Addr
      /\ DOMAIN h # {} => 0 \in DOMAIN h /\ \E c \in DOMAIN h : h[c].next = NULL
      /\ \A c \in DOMAIN h : Linked(h, e, c)
      /\ \A c \in DOMAIN h : EndIn(h, c) <= e
      /\ \A c, d \in DOMAIN h : c < d => EndIn(h, c) <= d
  BY DEF Tiled
<1>2. DOMAIN h \subseteq Nat /\ DOMAIN h \subseteq Link /\ e \in Nat /\ NULL \notin Nat
  BY <1>1, AddrFacts DEF Link
<1>3. \A a \in DOMAIN h : /\ h[a] \in Header /\ h[a].size \in Nat /\ h[a].is_free \in BOOLEAN
                          /\ h[a].next \in Link /\ h[a].prev \in Link
  BY <1>1, HeaderFacts
<1>4. \A a \in DOMAIN h : /\ EndIn(h, a) \in Nat /\ a < EndIn(h, a)
                          /\ EndIn(h, a) = a + 1 + h[a].size
  BY <1>2, <1>3 DEF EndIn
<1>5. \A a \in DOMAIN h : /\ h[a].next = NULL => EndIn(h, a) = e
                          /\ h[a].next # NULL => h[a].next \in DOMAIN h /\ h[a].next = EndIn(h, a)
                          /\ h[a].prev = NULL => a = 0
                          /\ h[a].prev # NULL => h[a].prev \in DOMAIN h /\ h[h[a].prev].next = a
  <2> TAKE a \in DOMAIN h
  <2>1. Linked(h, e, a) /\ EndIn(h, a) \in Nat
    BY <1>1, <1>4
  <2>2. h[a].next = NULL => EndIn(h, a) = e
    BY <1>2, <2>1 DEF Linked
  <2>3. h[a].next # NULL => h[a].next \in DOMAIN h /\ h[a].next = EndIn(h, a)
    BY <2>1 DEF Linked
  <2>4. h[a].prev = NULL => a = 0
    BY <1>2, <2>1 DEF Linked
  <2>5. h[a].prev # NULL => h[a].prev \in DOMAIN h /\ h[h[a].prev].next = a
    BY <2>1 DEF Linked
  <2> QED BY <2>2, <2>3, <2>4, <2>5
<1>6. ASSUME NEW a \in DOMAIN h, NEW b \in DOMAIN h, h[a].next = h[b].next, a < b PROVE FALSE
  <2>1. EndIn(h, a) <= b /\ b < EndIn(h, b) /\ EndIn(h, b) <= e
    BY <1>1, <1>4, <1>6
  <2>2. EndIn(h, a) < EndIn(h, b) /\ EndIn(h, a) < e
    BY <1>1, <1>2, <1>4, <2>1
  <2> QED BY <1>5, <1>6, <2>2, <1>2, <1>4
<1>7. \A a, b \in DOMAIN h : h[a].next = h[b].next => a = b
  <2> TAKE a, b \in DOMAIN h
  <2>1. a < b \/ b < a \/ a = b
    BY <1>2
  <2> QED BY <1>6, <2>1
<1> HIDE DEF Link
<1> QED BY <1>1, <1>2, <1>3, <1>4, <1>5, <1>7

(* Only is_free of some headers differs.                                   *)
LEMMA SameShape ==
  ASSUME NEW h, NEW e, Tiled(h, e), NEW q, DOMAIN q = DOMAIN h, q \in [DOMAIN h -> Header],
         \A a \in DOMAIN h : /\ q[a].next = h[a].next /\ q[a].prev = h[a].prev
                             /\ q[a].size = h[a].size
  PROVE  Tiled(q, e)
<1>1. \A a \in DOMAIN h : EndIn(q, a) = EndIn(h, a)
  BY DEF EndIn
<1>2. \A a \in DOMAIN h : Linked(h, e, a) => Linked(q, e, a)
  BY <1>1 DEF Linked
<1> QED BY <1>1, <1>2 DEF Tiled

(* No free chunk is followed by a free one, except that it may be chunk x. *)
AlternateBut(h, x) ==
  \A a \in DOMAIN h : h[a].is_free /\ h[a].next # NULL /\ h[a].next # x => ~h[h[a].next].is_free

Alternate(h) ==
  \A a \in DOMAIN h : h[a].is_free /\ h[a].next # NULL => ~h[h[a].next].is_free

(* What it means that q is h with u units of chunk c in use.               *)
Placed(h, c, u, q) ==
  /\ DOMAIN h \subseteq DOMAIN q
  /\ q[c].is_free = FALSE /\ q[c].size >= u
  /\ \A a \in DOMAIN h \ {c} : q[a].is_free = h[a].is_free /\ q[a].size = h[a].size
  /\ \A a \in DOMAIN q \ DOMAIN h : q[a].is_free

(* kmalloc splits or uses up a chunk: the list still tiles the region, and *)
(* only that chunk and its remainder differ in is_free and size.           *)
LEMMA PlaceTiled ==
  ASSUME NEW h, NEW e, Tiled(h, e), NEW c \in DOMAIN h, NEW u \in Nat, h[c].size >= u
  PROVE  /\ Tiled(Place(h, c, u), e) /\ Placed(h, c, u, Place(h, c, u))
         /\ h[c].is_free /\ AlternateBut(h, c) => Alternate(Place(h, c, u))
<1> DEFINE q == Place(h, c, u)
           D == DOMAIN h
           s == c + 1 + u
<1>1. /\ D \subseteq Nat /\ D \subseteq Link /\ e \in Nat /\ e \in Addr
      /\ \A a \in D :
              /\ h[a] \in Header /\ h[a].size \in Nat /\ h[a].is_free \in BOOLEAN
              /\ h[a].next \in Link /\ h[a].prev \in Link
              /\ EndIn(h, a) \in Nat /\ a < EndIn(h, a) /\ EndIn(h, a) <= e
              /\ EndIn(h, a) = a + 1 + h[a].size
      /\ \A a \in D : h[a].next = NULL => EndIn(h, a) = e
      /\ \A a \in D : h[a].next # NULL => h[a].next \in D /\ h[a].next = EndIn(h, a)
      /\ \A a \in D : h[a].prev = NULL => a = 0
      /\ \A a \in D : h[a].prev # NULL => h[a].prev \in D /\ h[h[a].prev].next = a
      /\ \A a, b \in D : a < b => EndIn(h, a) <= b
      /\ \A a, b \in D : h[a].next = h[b].next => a = b
      /\ 0 \in D /\ \E a \in D : h[a].next = NULL
  BY TiledFacts
<1>2. CASE ~(h[c].size >= u + 2)
  <2> DEFINE hc == [h[c] EXCEPT !.is_free = FALSE]
  <2>1. q = [h EXCEPT ![c] = hc]
    BY <1>2 DEF Place
  <2>2. /\ hc \in Header /\ hc.is_free = FALSE /\ hc.size = h[c].size
        /\ hc.next = h[c].next /\ hc.prev = h[c].prev
    <3>1. h[c] \in Header
      BY <1>1
    <3> QED BY <3>1 DEF Header
  <2> HIDE DEF hc
  <2>3. h \in [D -> Header]
    BY DEF Tiled
  <2>4. /\ DOMAIN q = D /\ q \in [D -> Header]
        /\ q[c] = hc
        /\ \A a \in D \ {c} : q[a] = h[a]
    BY <2>1, <2>2, <2>3
  <2> HIDE DEF q
  <2>5. /\ \A a \in D : q[a].next = h[a].next /\ q[a].prev = h[a].prev /\ q[a].size = h[a].size
        /\ q[c].is_free = FALSE /\ \A a \in D \ {c} : q[a].is_free = h[a].is_free
    BY <2>2, <2>4
  <2>6. Tiled(q, e)
    BY <2>4, <2>5, SameShape
  <2>7. AlternateBut(h, c) => Alternate(q)
    <3> SUFFICES ASSUME AlternateBut(h, c), NEW a \in D, q[a].is_free, q[a].next # NULL
                 PROVE  ~q[q[a].next].is_free
      BY <2>4 DEF Alternate
    <3>1. a # c /\ h[a].is_free /\ h[a].next # NULL /\ q[a].next = h[a].next /\ h[a].next \in D
      BY <1>1, <2>5
    <3>2. CASE h[a].next = c
      BY <2>5, <3>1, <3>2
    <3>3. CASE h[a].next # c
      <4>1. ~h[h[a].next].is_free
        BY <3>1, <3>3 DEF AlternateBut
      <4> QED BY <2>5, <3>1, <3>3, <4>1
    <3> QED BY <3>2, <3>3
  <2>8. Placed(h, c, u, q)
    BY <2>4, <2>5 DEF Placed
  <2> QED BY <2>6, <2>7, <2>8 DEF q
<1>3. CASE h[c].size >= u + 2
  <2>1. s \in Nat /\ c < s /\ s < EndIn(h, c) /\ s < e
    BY <1>1, <1>3
  <2>2. s \notin D
    <3>1. ASSUME s \in D PROVE FALSE
      BY <1>1, <2>1, <3>1
    <3> QED BY <3>1
  <2>3. s \in Addr /\ s \in Link /\ s # NULL /\ c \in Link
    BY <1>1, <2>1, AddrFacts DEF Link
  <2> DEFINE hs == [size |-> h[c].size - u - 1, is_free |-> TRUE, next |-> h[c].next, prev |-> c]
             hc == [h[c] EXCEPT !.size = u, !.is_free = FALSE, !.next = s]
  <2>4. q = [a \in D \cup {s} |->
              IF a = s THEN hs
              ELSE IF a = c THEN hc
              ELSE IF a = h[c].next THEN [h[a] EXCEPT !.prev = s]
              ELSE h[a]]
    BY <1>3 DEF Place
  <2>5. /\ hs \in Header /\ hs.size = h[c].size - u - 1 /\ hs.next = h[c].next /\ hs.prev = c
        /\ hs.is_free = TRUE
    <3>1. h[c].size - u - 1 \in Nat
      BY <1>1, <1>3
    <3> QED BY <1>1, <2>3, <3>1 DEF Header, Link
  <2>6. /\ hc \in Header /\ hc.size = u /\ hc.next = s /\ hc.prev = h[c].prev
        /\ hc.is_free = FALSE
    <3>1. h[c] \in Header /\ u \in Nat /\ s \in Link
      BY <1>1, <2>3
    <3> HIDE DEF s
    <3> QED BY <3>1 DEF Header, Link
  <2>7. \A a \in D : LET r == [h[a] EXCEPT !.prev = s]
                     IN  /\ r \in Header /\ r.size = h[a].size /\ r.is_free = h[a].is_free
                         /\ r.next = h[a].next /\ r.prev = s
    <3> HIDE DEF s
    <3> QED BY <1>1, <2>3, PrevSet
  <2> HIDE DEF q, hs, hc, s
  <2>8. /\ DOMAIN q = D \cup {s}
        /\ q[s] = hs
        /\ q[c] = hc
        /\ \A a \in D \ {c} : q[a] = IF a = h[c].next THEN [h[a] EXCEPT !.prev = s] ELSE h[a]
    BY <2>1, <2>2, <2>4
  <2>9. \A a \in D \ {c} : /\ q[a] \in Header /\ q[a].size = h[a].size /\ q[a].next = h[a].next
                           /\ q[a].prev = (IF a = h[c].next THEN s ELSE h[a].prev)
                           /\ q[a].is_free = h[a].is_free
    <3> TAKE a \in D \ {c}
    <3>1. CASE a = h[c].next
      BY <2>7, <2>8, <3>1
    <3>2. CASE a # h[c].next
      BY <1>1, <2>8, <3>2
    <3> QED BY <3>1, <3>2
  <2>10. q \in [D \cup {s} -> Header]
    BY <2>4, <2>5, <2>6, <2>8, <2>9
  <2>11. /\ EndIn(q, s) = EndIn(h, c) /\ EndIn(q, c) = s
         /\ \A a \in D \ {c} : EndIn(q, a) = EndIn(h, a)
    <3>1. EndIn(q, s) = s + 1 + (h[c].size - u - 1) /\ EndIn(q, c) = c + 1 + u
      BY <2>5, <2>6, <2>8 DEF EndIn
    <3>2. EndIn(h, c) = c + 1 + h[c].size /\ c \in Nat /\ h[c].size \in Nat
      BY <1>1
    <3>3. \A a \in D \ {c} : EndIn(q, a) = EndIn(h, a)
      BY <2>9 DEF EndIn
    <3> QED BY <3>1, <3>2, <3>3 DEF s
  <2>12. \A a \in D \cup {s} : Linked(q, e, a)
    <3>1. Linked(q, e, s)
      BY <1>1, <2>5, <2>6, <2>8, <2>11 DEF Linked
    <3>2. Linked(q, e, c)
      <4>1. q[c].next = EndIn(q, c) /\ EndIn(q, c) \in DOMAIN q
        BY <2>6, <2>8, <2>11
      <4>2. q[c].prev = NULL => c = 0
        BY <1>1, <2>6, <2>8
      <4>3. ASSUME q[c].prev # NULL PROVE q[c].prev \in DOMAIN q /\ q[q[c].prev].next = c
        <5>1. q[c].prev = h[c].prev /\ h[c].prev \in D /\ h[h[c].prev].next = c
          BY <1>1, <2>6, <2>8, <4>3
        <5>2. h[c].prev # c
          BY <1>1, <5>1, AddrFacts
        <5> QED BY <2>8, <2>9, <5>1, <5>2
      <4> QED BY <4>1, <4>2, <4>3 DEF Linked
    <3>3. ASSUME NEW a \in D \ {c} PROVE Linked(q, e, a)
      <4>1. \/ q[a].next = NULL /\ EndIn(q, a) = e
            \/ q[a].next = EndIn(q, a) /\ EndIn(q, a) \in DOMAIN q
        BY <1>1, <2>8, <2>9, <2>11
      <4>2. CASE a = h[c].next
        BY <2>5, <2>8, <2>9, <4>1, <4>2 DEF Linked
      <4>3. CASE a # h[c].next
        <5>1. q[a].prev = h[a].prev
          BY <2>9, <4>3
        <5>2. ASSUME h[a].prev # NULL PROVE q[a].prev \in DOMAIN q /\ q[q[a].prev].next = a
          <6>1. h[a].prev \in D /\ h[h[a].prev].next = a
            BY <1>1, <5>2
          <6>2. h[a].prev # c
            BY <4>3, <6>1
          <6> QED BY <2>8, <2>9, <5>1, <6>1, <6>2
        <5>3. h[a].prev = NULL => a = 0
          BY <1>1
        <5> QED BY <4>1, <5>1, <5>2, <5>3 DEF Linked
      <4> QED BY <4>2, <4>3
    <3> QED BY <3>1, <3>2, <3>3
  <2>13. \A a \in D \cup {s} : EndIn(q, a) <= e
    <3>1. EndIn(q, s) <= e /\ EndIn(q, c) <= e
      BY <1>1, <2>1, <2>11
    <3>2. \A a \in D \ {c} : EndIn(q, a) <= e
      BY <1>1, <2>11
    <3> QED BY <3>1, <3>2
  <2>14. \A a, b \in D \cup {s} : a < b => EndIn(q, a) <= b
    <3> SUFFICES ASSUME NEW a \in D \cup {s}, NEW b \in D \cup {s}, a < b PROVE EndIn(q, a) <= b
      OBVIOUS
    <3>1. CASE a = s
      <4>1. b \in D /\ b \in Nat /\ c < b
        BY <1>1, <2>1, <3>1
      <4> QED BY <1>1, <2>11, <3>1, <4>1
    <3>2. CASE b = s /\ a # s
      <4>1. a \in D /\ a \in Nat
        BY <1>1, <3>2
      <4>2. CASE a = c
        BY <2>1, <2>11, <3>2, <4>2
      <4>3. CASE a # c
        <5>1. a < c
          <6>1. ASSUME c < a PROVE FALSE
            BY <1>1, <2>1, <3>2, <4>1, <6>1
          <6> QED BY <1>1, <4>1, <4>3, <6>1
        <5>2. EndIn(h, a) <= c
          BY <1>1, <4>1, <5>1
        <5>3. EndIn(q, a) = EndIn(h, a) /\ EndIn(h, a) \in Nat
          BY <1>1, <2>11, <4>1, <4>3
        <5> QED BY <1>1, <2>1, <3>2, <5>2, <5>3
      <4> QED BY <4>2, <4>3
    <3>3. CASE a # s /\ b # s
      <4>1. a \in D /\ b \in D /\ a \in Nat /\ b \in Nat /\ EndIn(h, a) <= b
        BY <1>1, <3>3
      <4>2. EndIn(q, a) = IF a = c THEN s ELSE EndIn(h, a)
        BY <2>11, <4>1
      <4> QED BY <1>1, <2>1, <4>1, <4>2
    <3> QED BY <3>1, <3>2, <3>3
  <2>15. 0 \in DOMAIN q /\ \E a \in DOMAIN q : q[a].next = NULL
    <3>1. PICK l \in D : h[l].next = NULL
      BY <1>1
    <3> QED BY <1>1, <2>5, <2>8, <2>9, <3>1
  <2>16. Tiled(q, e)
    <3>1. D \cup {s} \subseteq Addr
      BY <2>3 DEF Tiled
    <3> QED BY <1>1, <2>8, <2>10, <2>12, <2>13, <2>14, <2>15, <3>1 DEF Tiled
  <2>17. h[c].is_free /\ AlternateBut(h, c) => Alternate(q)
    <3> SUFFICES ASSUME h[c].is_free, AlternateBut(h, c), NEW a \in D \cup {s},
                        q[a].is_free, q[a].next # NULL
                 PROVE  ~q[q[a].next].is_free
      BY <2>8 DEF Alternate
    <3>1. a # c
      BY <2>6, <2>8
    <3>2. CASE a = s
      <4>1. q[a].next = h[c].next /\ h[c].next # NULL /\ h[c].next \in D
        BY <1>1, <2>5, <2>8, <3>2
      <4>2. h[c].next # c
        BY <1>1, <4>1
      <4>3. ~h[h[c].next].is_free
        BY <4>1, <4>2 DEF AlternateBut
      <4> QED BY <2>9, <4>1, <4>2, <4>3
    <3>3. CASE a # s
      <4>1. a \in D \ {c} /\ h[a].is_free /\ q[a].next = h[a].next /\ h[a].next # NULL
            /\ h[a].next \in D
        BY <1>1, <2>9, <3>1, <3>3
      <4>2. CASE h[a].next = c
        BY <2>6, <2>8, <4>1, <4>2
      <4>3. CASE h[a].next # c
        <5>1. ~h[h[a].next].is_free
          BY <4>1, <4>3 DEF AlternateBut
        <5> QED BY <2>9, <4>1, <4>3, <5>1
      <4> QED BY <4>2, <4>3
    <3> QED BY <3>2, <3>3
  <2>18. Placed(h, c, u, q)
    BY <2>1, <2>5, <2>6, <2>8, <2>9 DEF Placed
  <2> QED BY <2>16, <2>17, <2>18 DEF q
<1> QED BY <1>2, <1>3

-----------------------------------------------------------------------------
(* What it means that q is h with chunk x merged into its predecessor c.   *)
Merged(h, c, x, q) ==
  /\ x \in DOMAIN h /\ x # c /\ DOMAIN q = DOMAIN h \ {x}
  /\ \A a \in DOMAIN q : q[a].is_free = h[a].is_free
  /\ \A a \in DOMAIN q \ {c} : /\ q[a].size = h[a].size /\ q[a].next = h[a].next
                               /\ h[a].next # x
  /\ q[c].next = h[x].next
  /\ h[x].next # x /\ h[x].next # c

(* kfree merges the next chunk into c: the list still tiles the region.    *)
LEMMA MergeTiled ==
  ASSUME NEW h, NEW e, Tiled(h, e), NEW c \in DOMAIN h, h[c].next # NULL
  PROVE  Tiled(Merge(h, c), e) /\ Merged(h, c, h[c].next, Merge(h, c))
<1> DEFINE D == DOMAIN h
           x == h[c].next
           q == Merge(h, c)
           hc == [h[c] EXCEPT !.size = @ + 1 + h[x].size, !.next = h[x].next]
<1>1. /\ D \subseteq Nat /\ D \subseteq Link /\ e \in Nat /\ e \in Addr
      /\ \A a \in D :
              /\ h[a] \in Header /\ h[a].size \in Nat /\ h[a].is_free \in BOOLEAN
              /\ h[a].next \in Link /\ h[a].prev \in Link
              /\ EndIn(h, a) \in Nat /\ a < EndIn(h, a) /\ EndIn(h, a) <= e
              /\ EndIn(h, a) = a + 1 + h[a].size
      /\ \A a \in D : h[a].next = NULL => EndIn(h, a) = e
      /\ \A a \in D : h[a].next # NULL => h[a].next \in D /\ h[a].next = EndIn(h, a)
      /\ \A a \in D : h[a].prev = NULL => a = 0
      /\ \A a \in D : h[a].prev # NULL => h[a].prev \in D /\ h[h[a].prev].next = a
      /\ \A a, b \in D : a < b => EndIn(h, a) <= b
      /\ \A a, b \in D : h[a].next = h[b].next => a = b
      /\ 0 \in D /\ \E a \in D : h[a].next = NULL
  BY TiledFacts
<1>2. NULL \notin Nat
  BY AddrFacts
<1>3. x \in D /\ x = EndIn(h, c) /\ c < x /\ x # c /\ x \in Nat /\ c \in Nat /\ x # 0
  BY <1>1
<1>4. h[x].next # x /\ h[x].next # c
  <2>1. h[x].next # NULL => h[x].next = EndIn(h, x) /\ x < EndIn(h, x)
    BY <1>1, <1>3
  <2> QED BY <1>2, <1>3, <2>1
<1>5. q = [a \in D \ {x} |-> IF a = c THEN hc
                             ELSE IF a = h[x].next THEN [h[a] EXCEPT !.prev = c]
                             ELSE h[a]]
  BY DEF Merge
<1>6. /\ hc \in Header /\ hc.size = h[c].size + 1 + h[x].size /\ hc.next = h[x].next
      /\ hc.prev = h[c].prev /\ hc.is_free = h[c].is_free
  <2>1. h[c] \in Header /\ h[c].size \in Nat /\ h[x].size \in Nat /\ h[x].next \in Link
    BY <1>1, <1>3
  <2>2. h[c].size + 1 + h[x].size \in Nat
    BY <2>1
  <2> QED BY <2>1, <2>2 DEF Header, Link
<1>7. \A a \in D : LET r == [h[a] EXCEPT !.prev = c]
                   IN  /\ r \in Header /\ r.size = h[a].size /\ r.is_free = h[a].is_free
                       /\ r.next = h[a].next /\ r.prev = c
  BY <1>1, PrevSet
<1> HIDE DEF q, hc, x
<1>8. /\ DOMAIN q = D \ {x} /\ q[c] = hc
      /\ \A a \in D \ {x, c} : q[a] = IF a = h[x].next THEN [h[a] EXCEPT !.prev = c] ELSE h[a]
  BY <1>3, <1>5
<1>9. \A a \in D \ {x, c} : /\ q[a] \in Header /\ q[a].size = h[a].size /\ q[a].next = h[a].next
                            /\ q[a].prev = (IF a = h[x].next THEN c ELSE h[a].prev)
                            /\ q[a].is_free = h[a].is_free
  <2> TAKE a \in D \ {x, c}
  <2>1. CASE a = h[x].next
    BY <1>7, <1>8, <2>1
  <2>2. CASE a # h[x].next
    BY <1>1, <1>8, <2>2
  <2> QED BY <2>1, <2>2
<1>10. q \in [D \ {x} -> Header]
  BY <1>5, <1>6, <1>8, <1>9
<1>11. EndIn(q, c) = EndIn(h, x) /\ \A a \in D \ {x, c} : EndIn(q, a) = EndIn(h, a)
  <2>1. EndIn(q, c) = c + 1 + (h[c].size + 1 + h[x].size)
    BY <1>6, <1>8 DEF EndIn
  <2>2. EndIn(h, x) = x + 1 + h[x].size /\ x = c + 1 + h[c].size
        /\ h[c].size \in Nat /\ h[x].size \in Nat
    BY <1>1, <1>3
  <2>3. \A a \in D \ {x, c} : EndIn(q, a) = EndIn(h, a)
    BY <1>9 DEF EndIn
  <2> QED BY <1>3, <2>1, <2>2, <2>3
<1>12. \A a \in D \ {x, c} : h[a].next # x
  BY <1>1 DEF x
<1>13. \A a \in D \ {x} : Linked(q, e, a)
  <2>1. Linked(q, e, c)
    <3>1. \/ q[c].next = NULL /\ EndIn(q, c) = e
          \/ q[c].next = EndIn(q, c) /\ EndIn(q, c) \in DOMAIN q
      BY <1>1, <1>3, <1>4, <1>6, <1>8, <1>11
    <3>2. q[c].prev = h[c].prev /\ (h[c].prev = NULL => c = 0)
      BY <1>1, <1>6, <1>8
    <3>3. ASSUME h[c].prev # NULL PROVE h[c].prev \in DOMAIN q /\ q[h[c].prev].next = c
      <4>1. h[c].prev \in D /\ h[h[c].prev].next = c
        BY <1>1, <3>3
      <4>2. h[c].prev # c /\ h[c].prev # x
        BY <1>1, <1>3, <1>4, <4>1 DEF x
      <4> QED BY <1>8, <1>9, <4>1, <4>2
    <3> QED BY <3>1, <3>2, <3>3 DEF Linked
  <2>2. ASSUME NEW a \in D \ {x, c} PROVE Linked(q, e, a)
    <3>1. \/ q[a].next = NULL /\ EndIn(q, a) = e
          \/ q[a].next = EndIn(q, a) /\ EndIn(q, a) \in DOMAIN q
      BY <1>1, <1>8, <1>9, <1>11, <1>12
    <3>2. CASE a = h[x].next
      <4>1. q[a].prev = c /\ c \in DOMAIN q /\ q[c].next = a
        BY <1>3, <1>6, <1>8, <1>9, <3>2
      <4> QED BY <3>1, <4>1 DEF Linked
    <3>3. CASE a # h[x].next
      <4>1. q[a].prev = h[a].prev /\ (h[a].prev = NULL => a = 0)
        BY <1>1, <1>9, <3>3
      <4>2. ASSUME h[a].prev # NULL PROVE h[a].prev \in DOMAIN q /\ q[h[a].prev].next = a
        <5>1. h[a].prev \in D /\ h[h[a].prev].next = a
          BY <1>1, <4>2
        <5>2. h[a].prev # c /\ h[a].prev # x
          BY <3>3, <5>1 DEF x
        <5> QED BY <1>8, <1>9, <5>1, <5>2
      <4> QED BY <3>1, <4>1, <4>2 DEF Linked
    <3> QED BY <3>2, <3>3
  <2> QED BY <2>1, <2>2
<1>14. \A a \in D \ {x} : EndIn(q, a) <= e
  BY <1>1, <1>3, <1>11
<1>15. \A a, b \in D \ {x} : a < b => EndIn(q, a) <= b
  <2> SUFFICES ASSUME NEW a \in D \ {x}, NEW b \in D \ {x}, a < b PROVE EndIn(q, a) <= b
    OBVIOUS
  <2>1. CASE a = c
    <3>1. x <= b /\ x # b /\ b \in Nat
      BY <1>1, <1>3, <2>1
    <3>2. x < b
      BY <1>3, <3>1
    <3> QED BY <1>1, <1>3, <1>11, <2>1, <3>2
  <2>2. CASE a # c
    BY <1>1, <1>11, <2>2
  <2> QED BY <2>1, <2>2
<1>16. 0 \in DOMAIN q /\ \E a \in DOMAIN q : q[a].next = NULL
  <2>1. PICK l \in D : h[l].next = NULL
    BY <1>1
  <2>2. CASE l = x
    BY <1>1, <1>3, <1>6, <1>8, <2>1, <2>2
  <2>3. CASE l # x
    <3>1. l # c
      BY <2>1
    <3> QED BY <1>1, <1>3, <1>8, <1>9, <2>1, <2>3, <3>1
  <2> QED BY <2>2, <2>3
<1>17. Tiled(q, e)
  <2>1. D \ {x} \subseteq Addr
    BY DEF Tiled
  <2> QED BY <1>1, <1>8, <1>10, <1>13, <1>14, <1>15, <1>16, <2>1 DEF Tiled
<1>18. /\ \A a \in DOMAIN q : q[a].is_free = h[a].is_free
       /\ \A a \in DOMAIN q \ {c} : /\ q[a].size = h[a].size /\ q[a].next = h[a].next
                                    /\ h[a].next # x
       /\ q[c].next = h[x].next
  BY <1>6, <1>8, <1>9, <1>12
<1>19. Merged(h, c, x, q)
  BY <1>3, <1>4, <1>8, <1>18 DEF Merged
<1> QED BY <1>17, <1>19 DEF q, x

-----------------------------------------------------------------------------
(* The pages of a request have room for it, and end on a page boundary.    *)
LEMMA PageFacts ==
  /\ PAGE \in Nat /\ PAGE > 2 /\ FRAMES \in Nat /\ HEAP_PAGES \in Nat /\ SIZE_MOD \in Nat
  /\ \A n \in Sizes : Units(n) \in Nat
  /\ \A k \in Nat : k * PAGE \in Nat
  /\ \A k \in Nat \ {0} : k * PAGE - 1 \in Nat /\ k * PAGE > 2
  /\ \A u \in Nat : PagesFor(u) \in Nat \ {0}
  /\ \A k \in Nat : (k * PAGE) % PAGE = 0 /\ (k * PAGE) \div PAGE = k
<1>1. PAGE \in Nat /\ PAGE > 2 /\ FRAMES \in Nat /\ HEAP_PAGES \in Nat /\ SIZE_MOD \in Nat \ {0}
  BY HeapAssumption
<1>2. ASSUME NEW n \in Sizes PROVE Units(n) \in Nat
  <2>1. n \in Nat
    BY HeapAssumption
  <2>2. (n + 15) % SIZE_MOD \in Nat
    BY <1>1, <2>1
  <2> QED BY <2>2 DEF Units
<1>3. ASSUME NEW k \in Nat PROVE k * PAGE \in Nat
  BY <1>1
<1>4. ASSUME NEW k \in Nat \ {0} PROVE k * PAGE - 1 \in Nat /\ k * PAGE > 2
  <2>1. k * PAGE >= PAGE /\ k * PAGE \in Nat
    BY <1>1
  <2> QED BY <1>1, <2>1
<1>5. ASSUME NEW u \in Nat PROVE PagesFor(u) \in Nat \ {0}
  <2>1. (u + 1 + PAGE - 1) \div PAGE >= 1 /\ (u + 1 + PAGE - 1) \div PAGE \in Int
    BY <1>1
  <2> QED BY <2>1 DEF PagesFor
<1>6. ASSUME NEW k \in Nat PROVE (k * PAGE) % PAGE = 0 /\ (k * PAGE) \div PAGE = k
  <2>1. k * PAGE \in Nat /\ k * PAGE = PAGE * k + 0 /\ 0 \in 0 .. PAGE - 1
    BY <1>1
  <2>2. (k * PAGE) % PAGE = 0
    BY <1>1, <2>1
  <2>3. (k * PAGE) \div PAGE = k
    BY <1>1, <2>1
  <2> QED BY <2>2, <2>3
<1> QED BY <1>1, <1>2, <1>3, <1>4, <1>5, <1>6

(* Pages appended to the heap become one free chunk behind the last one.   *)
LEMMA ExtendedTiled ==
  ASSUME Tiled(hdr, heap_end), Chunks = {} => heap_end = 0, Alternate(hdr),
         NEW k \in Nat \ {0}, heap_end + k * PAGE \in Addr
  PROVE  LET q == Extended(k)
         IN  /\ Tiled(q, heap_end + k * PAGE)
             /\ DOMAIN q = Chunks \cup {heap_end} /\ heap_end \notin Chunks
             /\ q[heap_end].is_free = TRUE
             /\ \A a \in Chunks : q[a].is_free = hdr[a].is_free /\ q[a].size = hdr[a].size
             /\ AlternateBut(q, heap_end)
<1> DEFINE D == Chunks
           e == heap_end
           f == heap_end + k * PAGE
           q == Extended(k)
           l == CHOOSE c \in Chunks : hdr[c].next = NULL
           he == NewChunk(k, IF Chunks = {} THEN NULL ELSE l)
<1>1. /\ D \subseteq Nat /\ D \subseteq Link /\ e \in Nat /\ e \in Addr
      /\ \A a \in D :
              /\ hdr[a] \in Header /\ hdr[a].size \in Nat /\ hdr[a].is_free \in BOOLEAN
              /\ hdr[a].next \in Link /\ hdr[a].prev \in Link
              /\ EndIn(hdr, a) \in Nat /\ a < EndIn(hdr, a) /\ EndIn(hdr, a) <= e
              /\ EndIn(hdr, a) = a + 1 + hdr[a].size
      /\ \A a \in D : hdr[a].next = NULL => EndIn(hdr, a) = e
      /\ \A a \in D : hdr[a].next # NULL => hdr[a].next \in D /\ hdr[a].next = EndIn(hdr, a)
      /\ \A a \in D : hdr[a].prev = NULL => a = 0
      /\ \A a \in D : hdr[a].prev # NULL => hdr[a].prev \in D /\ hdr[hdr[a].prev].next = a
      /\ \A a, b \in D : a < b => EndIn(hdr, a) <= b
      /\ \A a, b \in D : hdr[a].next = hdr[b].next => a = b
      /\ D # {} => 0 \in D /\ \E a \in D : hdr[a].next = NULL
  BY TiledFacts DEF Chunks
<1>2. /\ NULL \notin Nat /\ k * PAGE \in Nat /\ k * PAGE - 1 \in Nat /\ k * PAGE > 2
      /\ f \in Nat /\ e < f /\ f = e + 1 + (k * PAGE - 1)
  <2>1. NULL \notin Nat /\ k * PAGE \in Nat /\ k * PAGE - 1 \in Nat /\ k * PAGE > 2
    BY AddrFacts, PageFacts
  <2> QED BY <1>1, <2>1
<1>3. e \notin D /\ e \in Link /\ NULL \in Link
  <2>1. ASSUME NEW a \in D PROVE a < e
    <3>1. /\ a \in Nat /\ e \in Nat /\ EndIn(hdr, a) \in Nat
          /\ a < EndIn(hdr, a) /\ EndIn(hdr, a) <= e
      BY <1>1
    <3> QED BY <3>1
  <2> QED BY <1>1, <2>1 DEF Link
<1>4. D # {} => l \in D /\ hdr[l].next = NULL
  BY <1>1
<1>5. \A a \in D : hdr[a].next = NULL => a = l
  BY <1>1, <1>4
<1> HIDE DEF l
<1>6. /\ he \in Header /\ he.size = k * PAGE - 1 /\ he.is_free = TRUE /\ he.next = NULL
      /\ he.prev = IF D = {} THEN NULL ELSE l
  <2>1. (IF D = {} THEN NULL ELSE l) \in Link /\ k * PAGE - 1 \in Nat /\ NULL \in Link
    BY <1>1, <1>2, <1>3, <1>4
  <2> QED BY <2>1 DEF NewChunk, Header, Link
<1>7. \A a \in D : LET r == [hdr[a] EXCEPT !.next = e]
                   IN  /\ r \in Header /\ r.size = hdr[a].size /\ r.is_free = hdr[a].is_free
                       /\ r.next = e /\ r.prev = hdr[a].prev
  <2> TAKE a \in D
  <2>1. hdr[a] \in Header /\ e \in Link
    BY <1>1, <1>3
  <2> QED BY <2>1 DEF Header, Link
<1>8. q = [a \in D \cup {e} |-> IF a = e THEN he
                                ELSE IF hdr[a].next = NULL THEN [hdr[a] EXCEPT !.next = e]
                                ELSE hdr[a]]
  BY DEF Extended, l
<1> HIDE DEF q, he
<1>9. /\ DOMAIN q = D \cup {e} /\ q[e] = he
      /\ \A a \in D : q[a] = IF hdr[a].next = NULL THEN [hdr[a] EXCEPT !.next = e] ELSE hdr[a]
  BY <1>3, <1>8
<1>10. \A a \in D : /\ q[a] \in Header /\ q[a].size = hdr[a].size
                    /\ q[a].is_free = hdr[a].is_free /\ q[a].prev = hdr[a].prev
                    /\ q[a].next = (IF hdr[a].next = NULL THEN e ELSE hdr[a].next)
  <2> TAKE a \in D
  <2>1. CASE hdr[a].next = NULL
    BY <1>7, <1>9, <2>1
  <2>2. CASE hdr[a].next # NULL
    BY <1>1, <1>9, <2>2
  <2> QED BY <2>1, <2>2
<1>11. q \in [D \cup {e} -> Header]
  BY <1>6, <1>8, <1>9, <1>10
<1>12. EndIn(q, e) = f /\ \A a \in D : EndIn(q, a) = EndIn(hdr, a)
  <2>1. EndIn(q, e) = e + 1 + (k * PAGE - 1)
    BY <1>6, <1>9 DEF EndIn
  <2>2. \A a \in D : EndIn(q, a) = EndIn(hdr, a)
    BY <1>10 DEF EndIn
  <2> QED BY <1>2, <2>1, <2>2
<1>13. \A a \in D : q[a].next = EndIn(q, a) /\ q[a].next \in D \cup {e}
  BY <1>1, <1>10, <1>12
<1>14. \A a \in D \cup {e} : Linked(q, f, a)
  <2>1. Linked(q, f, e)
    <3>1. q[e].next = NULL /\ EndIn(q, e) = f
      BY <1>6, <1>9, <1>12
    <3>2. CASE D = {}
      BY <1>6, <1>9, <3>1, <3>2 DEF Linked
    <3>3. CASE D # {}
      <4>1. q[e].prev = l /\ l \in DOMAIN q /\ q[l].next = e
        BY <1>4, <1>6, <1>9, <1>10, <3>3
      <4> QED BY <3>1, <4>1 DEF Linked
    <3> QED BY <3>2, <3>3
  <2>2. ASSUME NEW a \in D PROVE Linked(q, f, a)
    <3>1. q[a].next = EndIn(q, a) /\ EndIn(q, a) \in DOMAIN q
      BY <1>9, <1>13
    <3>2. q[a].prev = hdr[a].prev /\ (hdr[a].prev = NULL => a = 0)
      BY <1>1, <1>10
    <3>3. ASSUME hdr[a].prev # NULL PROVE hdr[a].prev \in DOMAIN q /\ q[hdr[a].prev].next = a
      <4>1. hdr[a].prev \in D /\ hdr[hdr[a].prev].next = a /\ a # NULL
        BY <1>1, <1>2, <3>3
      <4> QED BY <1>9, <1>10, <4>1
    <3> QED BY <3>1, <3>2, <3>3 DEF Linked
  <2> QED BY <2>1, <2>2
<1>15. \A a \in D \cup {e} : EndIn(q, a) <= f
  BY <1>1, <1>2, <1>12
<1>16. \A a, b \in D \cup {e} : a < b => EndIn(q, a) <= b
  <2> SUFFICES ASSUME NEW a \in D \cup {e}, NEW b \in D \cup {e}, a < b PROVE EndIn(q, a) <= b
    OBVIOUS
  <2>1. a # e
    <3>1. ASSUME a = e PROVE FALSE
      <4>1. b \in D /\ b < EndIn(hdr, b) /\ EndIn(hdr, b) <= e /\ e < b
            /\ b \in Nat /\ EndIn(hdr, b) \in Nat
        BY <1>1, <3>1
      <4> QED BY <1>1, <4>1
    <3> QED BY <3>1
  <2> QED BY <1>1, <1>12, <2>1
<1>17. 0 \in DOMAIN q /\ \E a \in DOMAIN q : q[a].next = NULL
  <2>1. CASE D = {}
    BY <1>6, <1>9, <2>1
  <2>2. CASE D # {}
    BY <1>1, <1>6, <1>9, <2>2
  <2> QED BY <2>1, <2>2
<1>18. Tiled(q, f)
  <2>1. D \cup {e} \subseteq Addr
    <3>1. D \subseteq Addr
      BY DEF Tiled, Chunks
    <3> QED BY <1>1, <3>1
  <2> QED BY <1>9, <1>11, <1>14, <1>15, <1>16, <1>17, <2>1 DEF Tiled
<1>19. AlternateBut(q, e)
  <2> SUFFICES ASSUME NEW a \in D \cup {e}, q[a].is_free, q[a].next # NULL, q[a].next # e
               PROVE  ~q[q[a].next].is_free
    BY <1>9 DEF AlternateBut
  <2>1. a \in D /\ hdr[a].is_free /\ q[a].next = hdr[a].next /\ hdr[a].next # NULL
        /\ hdr[a].next \in D
    BY <1>1, <1>6, <1>9, <1>10
  <2>2. ~hdr[hdr[a].next].is_free
    BY <2>1 DEF Alternate, Chunks
  <2> QED BY <1>10, <2>1, <2>2
<1> QED BY <1>3, <1>6, <1>9, <1>10, <1>18, <1>19 DEF q

-----------------------------------------------------------------------------
(* The headers after kfree of chunk c.                                     *)
Released(c) ==
  LET p == hdr[c].prev
  IN  IF p # NULL /\ hdr[p].is_free THEN Merge(FreedNext(c), p) ELSE FreedNext(c)

InUse(h) == {a \in DOMAIN h : ~h[a].is_free}

(* Marking c free and merging the next chunk: the one free neighbour c can *)
(* still have is the one before it.                                        *)
LEMMA FreedNextTiled ==
  ASSUME NEW e, Tiled(hdr, e), Alternate(hdr), NEW c \in Chunks, ~hdr[c].is_free
  PROVE  LET q == FreedNext(c)
         IN  /\ Tiled(q, e) /\ AlternateBut(q, c) /\ c \in DOMAIN q /\ q[c].is_free
             /\ InUse(q) = InUse(hdr) \ {c}
             /\ DOMAIN q \subseteq Chunks
             /\ \A a \in InUse(hdr) \ {c} : q[a].size = hdr[a].size
             /\ \A a \in Chunks : hdr[a].next = c =>
                  a \in DOMAIN q /\ q[a].next = c /\ q[a].is_free = hdr[a].is_free
             /\ \A a \in DOMAIN q : q[a].next = c => hdr[a].next = c
<1> DEFINE f == Freed(c)
           x == hdr[c].next
           hc == [hdr[c] EXCEPT !.is_free = TRUE]
<1>1. hdr \in [Chunks -> Header] /\ hdr[c] \in Header
  BY DEF Tiled, Chunks
<1>2. /\ hc \in Header /\ hc.is_free = TRUE /\ hc.size = hdr[c].size
      /\ hc.next = hdr[c].next /\ hc.prev = hdr[c].prev
  BY <1>1 DEF Header
<1>3. f = [hdr EXCEPT ![c] = hc]
  BY DEF Freed
<1> HIDE DEF hc, f
<1>4. /\ DOMAIN f = Chunks /\ f \in [Chunks -> Header] /\ f[c] = hc
      /\ \A a \in Chunks \ {c} : f[a] = hdr[a]
  BY <1>1, <1>2, <1>3
<1>5. \A a \in Chunks : /\ f[a].next = hdr[a].next /\ f[a].prev = hdr[a].prev
                        /\ f[a].size = hdr[a].size
                        /\ f[a].is_free <=> (a = c \/ hdr[a].is_free)
  BY <1>2, <1>4
<1>6. Tiled(f, e)
  BY <1>4, <1>5, SameShape DEF Chunks
<1>7. /\ \A a \in Chunks : hdr[a].next # NULL => hdr[a].next \in Chunks
      /\ \A a, b \in Chunks : hdr[a].next = hdr[b].next => a = b
      /\ c # NULL /\ hdr[c].next # c
  <2>1. /\ \A a \in Chunks : hdr[a].next # NULL => hdr[a].next \in Chunks
        /\ \A a, b \in Chunks : hdr[a].next = hdr[b].next => a = b
        /\ c \in Nat /\ (hdr[c].next # NULL => hdr[c].next = EndIn(hdr, c))
        /\ c < EndIn(hdr, c) /\ EndIn(hdr, c) \in Nat
    BY TiledFacts DEF Chunks
  <2> QED BY <2>1, AddrFacts
<1>8. CASE x # NULL /\ hdr[x].is_free
  <2> DEFINE q == Merge(f, c)
  <2>1. FreedNext(c) = q
    BY <1>8 DEF FreedNext, f
  <2>2. f[c].next = x /\ f[c].next # NULL /\ c \in DOMAIN f
    BY <1>4, <1>5, <1>8
  <2>3. /\ Tiled(q, e)
        /\ x \in Chunks /\ x # c /\ DOMAIN q = Chunks \ {x}
        /\ \A a \in DOMAIN q : q[a].is_free = f[a].is_free
        /\ \A a \in DOMAIN q \ {c} : /\ q[a].size = f[a].size /\ q[a].next = f[a].next
                                     /\ f[a].next # x
        /\ q[c].next = f[x].next
        /\ f[x].next # x /\ f[x].next # c
    <3>1. Tiled(q, e) /\ Merged(f, c, f[c].next, q)
      BY <1>6, <2>2, MergeTiled
    <3>2. Merged(f, c, x, q)
      BY <2>2, <3>1
    <3> HIDE DEF x, q
    <3> QED BY <1>4, <3>1, <3>2 DEF Merged
  <2> HIDE DEF q, x
  <2>4. \A a \in DOMAIN q : q[a].is_free <=> (a = c \/ hdr[a].is_free)
    BY <1>5, <2>3
  <2>5. AlternateBut(q, c)
    <3> SUFFICES ASSUME NEW a \in DOMAIN q, q[a].is_free, q[a].next # NULL, q[a].next # c
                 PROVE  ~q[q[a].next].is_free
      BY DEF AlternateBut
    <3>1. CASE a = c
      <4>1. q[a].next = hdr[x].next /\ hdr[x].next # x /\ hdr[x].next # NULL
        BY <1>5, <2>3, <3>1
      <4>2. hdr[x].next \in Chunks /\ ~hdr[hdr[x].next].is_free
        BY <1>7, <1>8, <2>3, <4>1 DEF Alternate, Chunks
      <4>3. hdr[x].next \in DOMAIN q /\ hdr[x].next # c
        BY <2>3, <4>1, <4>2
      <4> QED BY <2>4, <4>1, <4>2, <4>3
    <3>2. CASE a # c
      <4>1. a \in Chunks /\ q[a].next = hdr[a].next /\ hdr[a].next # x /\ hdr[a].is_free
        BY <1>5, <2>3, <2>4, <3>2
      <4>2. hdr[a].next \in Chunks /\ ~hdr[hdr[a].next].is_free
        BY <1>7, <4>1 DEF Alternate, Chunks
      <4> QED BY <2>3, <2>4, <4>1, <4>2
    <3> QED BY <3>1, <3>2
  <2>6. InUse(q) = InUse(hdr) \ {c}
    BY <1>8, <2>3, <2>4 DEF InUse, Chunks
  <2>7. \A a \in InUse(hdr) \ {c} : q[a].size = hdr[a].size
    BY <1>5, <1>8, <2>3 DEF InUse, Chunks
  <2>8. \A a \in Chunks : hdr[a].next = c =>
          a \in DOMAIN q /\ q[a].next = c /\ q[a].is_free = hdr[a].is_free
    <3> SUFFICES ASSUME NEW a \in Chunks, hdr[a].next = c
                 PROVE  a \in DOMAIN q /\ q[a].next = c /\ q[a].is_free = hdr[a].is_free
      OBVIOUS
    <3>1. a # c
      BY <1>7
    <3>2. a # x
      BY <1>5, <2>3
    <3>3. q[a].is_free = f[a].is_free /\ f[a] = hdr[a] /\ a \in DOMAIN q
      BY <1>4, <2>3, <3>1, <3>2
    <3> QED BY <1>5, <2>3, <3>1, <3>2, <3>3
  <2>9. \A a \in DOMAIN q : q[a].next = c => hdr[a].next = c
    BY <1>5, <2>3
  <2> QED BY <2>1, <2>3, <2>4, <2>5, <2>6, <2>7, <2>8, <2>9
<1>9. CASE ~(x # NULL /\ hdr[x].is_free)
  <2>1. FreedNext(c) = f
    BY <1>9 DEF FreedNext, f
  <2>2. AlternateBut(f, c)
    <3> SUFFICES ASSUME NEW a \in Chunks, f[a].is_free, f[a].next # NULL, f[a].next # c
                 PROVE  ~f[f[a].next].is_free
      BY <1>4 DEF AlternateBut
    <3>1. hdr[a].next \in Chunks /\ f[a].next = hdr[a].next
      BY <1>5, <1>7
    <3>2. ~hdr[hdr[a].next].is_free
      BY <1>5, <1>9, <3>1 DEF Alternate, Chunks
    <3> QED BY <1>5, <3>1, <3>2
  <2>3. InUse(f) = InUse(hdr) \ {c}
    BY <1>4, <1>5 DEF InUse, Chunks
  <2>4. \A a \in InUse(hdr) \ {c} : f[a].size = hdr[a].size
    BY <1>5 DEF InUse, Chunks
  <2>5. \A a \in Chunks : hdr[a].next = c =>
          a \in DOMAIN f /\ f[a].next = c /\ f[a].is_free = hdr[a].is_free
    <3> SUFFICES ASSUME NEW a \in Chunks, hdr[a].next = c
                 PROVE  a \in DOMAIN f /\ f[a].next = c /\ f[a].is_free = hdr[a].is_free
      OBVIOUS
    <3>1. a # c
      BY <1>7
    <3> QED BY <1>4, <3>1
  <2>6. c \in DOMAIN f /\ f[c].is_free
    BY <1>4, <1>5
  <2> QED BY <1>4, <1>5, <1>6, <2>1, <2>2, <2>3, <2>4, <2>5, <2>6
<1> QED BY <1>8, <1>9

(* kfree: the list still tiles the region, no two neighbours are free, and *)
(* the other chunks in use are as before.                                  *)
LEMMA ReleasedTiled ==
  ASSUME NEW e, Tiled(hdr, e), Alternate(hdr), NEW c \in Chunks, ~hdr[c].is_free
  PROVE  LET q == Released(c)
         IN  /\ Tiled(q, e) /\ Alternate(q) /\ DOMAIN q # {}
             /\ InUse(q) = InUse(hdr) \ {c}
             /\ \A a \in InUse(hdr) \ {c} : q[a].size = hdr[a].size
<1> DEFINE f == FreedNext(c)
           p == hdr[c].prev
<1>1. /\ Tiled(f, e) /\ AlternateBut(f, c) /\ c \in DOMAIN f /\ f[c].is_free
      /\ InUse(f) = InUse(hdr) \ {c}
      /\ DOMAIN f \subseteq Chunks
      /\ \A a \in InUse(hdr) \ {c} : f[a].size = hdr[a].size
      /\ \A a \in Chunks : hdr[a].next = c =>
           a \in DOMAIN f /\ f[a].next = c /\ f[a].is_free = hdr[a].is_free
      /\ \A a \in DOMAIN f : f[a].next = c => hdr[a].next = c
  BY FreedNextTiled
<1>2. /\ p = NULL => c = 0
      /\ p # NULL => p \in Chunks /\ hdr[p].next = c
      /\ \A a, b \in Chunks : hdr[a].next = hdr[b].next => a = b
      /\ c # NULL
      /\ \A a \in Chunks : hdr[a].next # 0
  <2>1. /\ p = NULL => c = 0
        /\ p # NULL => p \in Chunks /\ hdr[p].next = c
        /\ \A a, b \in Chunks : hdr[a].next = hdr[b].next => a = b
        /\ \A a \in Chunks : a \in Nat /\ EndIn(hdr, a) \in Nat /\ a < EndIn(hdr, a)
        /\ \A a \in Chunks : hdr[a].next # NULL => hdr[a].next = EndIn(hdr, a)
    BY TiledFacts DEF Chunks
  <2>2. NULL \notin Nat /\ 0 \in Nat
    BY AddrFacts
  <2> QED BY <2>1, <2>2
<1> HIDE DEF f, p
<1>3. CASE p # NULL /\ hdr[p].is_free
  <2> DEFINE q == Merge(f, p)
  <2>1. Released(c) = q
    BY <1>3 DEF Released, f, p
  <2>2. p \in DOMAIN f /\ f[p].next = c /\ f[p].next # NULL /\ f[p].is_free
    BY <1>1, <1>2, <1>3
  <2>3. /\ Tiled(q, e)
        /\ c # p /\ DOMAIN q = DOMAIN f \ {c}
        /\ \A a \in DOMAIN q : q[a].is_free = f[a].is_free
        /\ \A a \in DOMAIN q \ {p} : /\ q[a].size = f[a].size /\ q[a].next = f[a].next
                                     /\ f[a].next # c
        /\ q[p].next = f[c].next
        /\ f[c].next # c
    <3>1. Tiled(q, e) /\ Merged(f, p, f[p].next, q)
      BY <1>1, <2>2, MergeTiled
    <3>2. Merged(f, p, c, q)
      BY <2>2, <3>1
    <3> HIDE DEF q
    <3> QED BY <3>1, <3>2 DEF Merged
  <2> HIDE DEF q
  <2>4. \A a \in DOMAIN f : f[a].next # NULL => f[a].next \in DOMAIN f
    BY <1>1, TiledFacts
  <2>5. Alternate(q)
    <3> SUFFICES ASSUME NEW a \in DOMAIN q, q[a].is_free, q[a].next # NULL
                 PROVE  ~q[q[a].next].is_free
      BY DEF Alternate
    <3> DEFINE b == IF a = p THEN c ELSE a
    <3>1. b \in DOMAIN f /\ q[a].next = f[b].next /\ f[b].is_free /\ f[b].next # c
      BY <1>1, <2>3
    <3> HIDE DEF b
    <3>2. f[b].next \in DOMAIN f /\ ~f[f[b].next].is_free
      BY <1>1, <2>4, <3>1 DEF AlternateBut
    <3> QED BY <2>3, <3>1, <3>2
  <2>6. InUse(q) = InUse(hdr) \ {c}
    BY <1>1, <2>3 DEF InUse
  <2>7. \A a \in InUse(hdr) \ {c} : q[a].size = hdr[a].size
    <3> TAKE a \in InUse(hdr) \ {c}
    <3>1. a \in InUse(f) /\ a \in DOMAIN f /\ a # c /\ ~f[a].is_free
      BY <1>1 DEF InUse
    <3> QED BY <1>1, <2>2, <2>3, <3>1
  <2>8. DOMAIN q # {}
    BY <2>2, <2>3
  <2> QED BY <2>1, <2>3, <2>5, <2>6, <2>7, <2>8
<1>4. CASE ~(p # NULL /\ hdr[p].is_free)
  <2>1. Released(c) = f
    BY <1>4 DEF Released, f, p
  <2>2. Alternate(f)
    <3> SUFFICES ASSUME NEW a \in DOMAIN f, f[a].is_free, f[a].next # NULL
                 PROVE  ~f[f[a].next].is_free
      BY DEF Alternate
    <3>1. CASE f[a].next = c
      <4>1. a \in Chunks /\ hdr[a].next = c /\ hdr[a].is_free
        BY <1>1, <3>1
      <4>2. p # NULL
        BY <1>2, <4>1
      <4> QED BY <1>2, <1>4, <4>1, <4>2
    <3>2. CASE f[a].next # c
      BY <1>1, <3>2 DEF AlternateBut
    <3> QED BY <3>1, <3>2
  <2>3. DOMAIN f # {}
    BY <1>1
  <2> QED BY <1>1, <2>1, <2>2, <2>3
<1> QED BY <1>3, <1>4

-----------------------------------------------------------------------------
(* Where the frames are while b pages of the heap are mapped and T is held *)
(* by the rest of the kernel: FramesConserved, with the bound on b.        *)
Split(m, T, b) ==
  /\ m \in Memory /\ T \subseteq Frames /\ b \in 0..HEAP_PAGES
  /\ \A p \in HeapPages : m.map[p] # NONE <=> p < b
  /\ \A p, q \in HeapPages : m.map[p] = m.map[q] /\ m.map[p] # NONE => p = q
  /\ \A f \in Frames : \/ f \in m.pool \/ f \in T \/ f = m.table
                       \/ \E p \in HeapPages : f = m.map[p]
  /\ m.pool \cap T = {}
  /\ \A p \in HeapPages : m.map[p] \notin m.pool \cup T
  /\ \A p \in HeapPages : m.map[p] # NONE => m.map[p] # m.table
  /\ m.table \notin m.pool \cup T
  /\ m.table = NONE => Frames = {}

Loop == [m: Memory, page: 0..HEAP_PAGES, got: SUBSET Frames, failed: BOOLEAN]

(* What expand_heap has done to memory that was split at page b.           *)
Grown(s, T, b) ==
  /\ s \in Loop /\ b <= s.page /\ b \in Nat
  /\ Split(s.m, T, s.page)
  /\ \A f \in Frames : f \in s.got <=> \E p \in HeapPages : b <= p /\ f = s.m.map[p]

(* pmm_alloc_frame returns a free frame if there is one.                   *)
LEMMA LowestFree ==
  ASSUME NEW F \in SUBSET Frames, F # {}
  PROVE  Lowest(F) \in F /\ Lowest(F) \in Frames /\ Lowest(F) # NONE
<1>1. F \in SUBSET Nat
  BY DEF Frames
<1>2. \E f \in F : \A g \in F : f <= g
  BY <1>1, LeastMember
<1>3. Lowest(F) \in F
  BY <1>2 DEF Lowest
<1>4. NONE \notin Frames
  BY HeapAssumption DEF Frames, NONE
<1> QED BY <1>3, <1>4

(* A mapping that finds or makes the page table.                           *)
LEMMA MapKernelPageType ==
  ASSUME NEW m \in Memory, NEW p \in HeapPages, NEW f \in Frames
  PROVE  MapKernelPage(m, p, f) \in Memory
<1>1. m.pool # {} => Lowest(m.pool) \in Frames
  BY LowestFree DEF Memory
<1>2. [m.map EXCEPT ![p] = f] \in [HeapPages -> Frames \cup {NONE}]
  BY DEF Memory
<1>3. CASE m.table # NONE
  BY <1>2, <1>3 DEF MapKernelPage, Memory
<1>4. CASE m.table = NONE /\ m.pool = {}
  BY <1>4 DEF MapKernelPage
<1>5. CASE m.table = NONE /\ m.pool # {}
  <2>1. MapKernelPage(m, p, f) = [pool  |-> m.pool \ {Lowest(m.pool)},
                                  table |-> Lowest(m.pool),
                                  map   |-> [m.map EXCEPT ![p] = f]]
    BY <1>5 DEF MapKernelPage
  <2>2. m.pool \ {Lowest(m.pool)} \in SUBSET Frames
    BY DEF Memory
  <2> HIDE DEF MapKernelPage
  <2> QED BY <1>1, <1>2, <1>5, <2>1, <2>2 DEF Memory
<1> QED BY <1>3, <1>4, <1>5

(* One round of the loop: the page it maps.                                *)
LEMMA RoundType ==
  ASSUME NEW s \in Loop
  PROVE  Round(s) \in Loop
<1>1. CASE s.failed \/ s.page = HEAP_PAGES \/ s.m.pool = {}
  BY <1>1 DEF Round, Loop
<1>2. CASE ~(s.failed \/ s.page = HEAP_PAGES \/ s.m.pool = {})
  <2> DEFINE f == Lowest(s.m.pool)
             m == [s.m EXCEPT !.pool = @ \ {f}]
  <2>1. s.m \in Memory /\ s.m.pool \in SUBSET Frames /\ s.got \in SUBSET Frames
    BY DEF Loop, Memory
  <2>2. f \in Frames
    BY <1>2, <2>1, LowestFree
  <2>3. s.page \in HeapPages /\ s.page + 1 \in 0..HEAP_PAGES
    BY <1>2, PageFacts DEF Loop, HeapPages
  <2> HIDE DEF f
  <2>4. m \in Memory
    BY <2>1 DEF Memory
  <2>5. MapKernelPage(m, s.page, f) \in Memory
    <3> HIDE DEF m
    <3> QED BY <2>2, <2>3, <2>4, MapKernelPageType
  <2>6. Round(s) = [m |-> MapKernelPage(m, s.page, f), page |-> s.page + 1,
                    got |-> s.got \cup {f}, failed |-> FALSE]
    BY <1>2 DEF Round, f
  <2> HIDE DEF m
  <2> QED BY <2>1, <2>2, <2>3, <2>5, <2>6 DEF Loop
<1> QED BY <1>1, <1>2

(* The page it maps is the next one, and its frame was free.               *)
LEMMA RoundGrown ==
  ASSUME NEW s, NEW T, NEW b, Grown(s, T, b)
  PROVE  /\ Grown(Round(s), T, b)
         /\ ~Round(s).failed => ~s.failed /\ Round(s).page = s.page + 1
<1>1. CASE s.failed \/ s.page = HEAP_PAGES \/ s.m.pool = {}
  <2>1. Round(s) = [s EXCEPT !.failed = TRUE] /\ s \in Loop
    BY <1>1 DEF Round, Grown
  <2>2. /\ Round(s) \in Loop /\ Round(s).m = s.m /\ Round(s).page = s.page
        /\ Round(s).got = s.got /\ Round(s).failed = TRUE
    BY <2>1 DEF Loop
  <2> HIDE DEF Round
  <2> QED BY <2>2 DEF Grown
<1>2. CASE ~(s.failed \/ s.page = HEAP_PAGES \/ s.m.pool = {})
  <2> DEFINE f == Lowest(s.m.pool)
             k == s.page
             m == s.m
             r == Round(s)
             n == r.m
  <2>1. /\ s \in Loop /\ m \in Memory /\ m.pool \in SUBSET Frames /\ s.got \in SUBSET Frames
        /\ m.map \in [HeapPages -> Frames \cup {NONE}] /\ m.table \in Frames \cup {NONE}
    BY DEF Grown, Loop, Memory
  <2>2. f \in Frames /\ f \in m.pool /\ f # NONE
    BY <1>2, <2>1, LowestFree
  <2>3. k \in HeapPages /\ k + 1 \in 0..HEAP_PAGES /\ k \in Nat
    <3>1. k \in 0..HEAP_PAGES /\ k # HEAP_PAGES
      BY <1>2, <2>1 DEF Loop
    <3> HIDE DEF k
    <3> QED BY <3>1, HeapAssumption DEF HeapPages
  <2>4. m.table # NONE
    BY <2>2 DEF Grown, Split
  <2>5. /\ n = [[m EXCEPT !.pool = @ \ {f}] EXCEPT !.map[k] = f]
        /\ r.page = k + 1 /\ r.got = s.got \cup {f} /\ r.failed = FALSE
    <3>1. [m EXCEPT !.pool = @ \ {f}].table = m.table
      BY <2>1 DEF Memory
    <3> QED BY <1>2, <2>1, <2>4, <3>1 DEF Round, MapKernelPage
  <2>6. /\ n.pool = m.pool \ {f} /\ n.table = m.table
        /\ n.map = [m.map EXCEPT ![k] = f]
    BY <2>1, <2>5 DEF Memory
  <2>7. r \in Loop /\ n \in Memory
    <3>1. r \in Loop
      BY <2>1, RoundType
    <3> QED BY <3>1 DEF Loop
  <2> HIDE DEF f, k, m, r, n
  <2>8. /\ Split(m, T, k) /\ b <= k /\ b \in Nat
        /\ \A g \in Frames : g \in s.got <=> \E p \in HeapPages : b <= p /\ g = m.map[p]
    BY DEF Grown, m, k
  <2>9. \A p \in HeapPages : n.map[p] = IF p = k THEN f ELSE m.map[p]
    BY <2>1, <2>6
  <2>10. HeapPages \subseteq Nat /\ \A p \in HeapPages : p < k + 1 <=> p < k \/ p = k
    BY <2>3 DEF HeapPages
  <2>11. m.map[k] = NONE /\ \A p \in HeapPages : m.map[p] # f
    <3>1. ~(k < k)
      BY <2>3
    <3> QED BY <2>2, <2>3, <2>8, <3>1 DEF Split
  <2>12. Split(n, T, k + 1)
    <3>1. \A p \in HeapPages : n.map[p] # NONE <=> p < k + 1
      BY <2>2, <2>8, <2>9, <2>10 DEF Split
    <3>2. \A p, q \in HeapPages : n.map[p] = n.map[q] /\ n.map[p] # NONE => p = q
      BY <2>8, <2>9, <2>11 DEF Split
    <3>3. ASSUME NEW g \in Frames
          PROVE  \/ g \in n.pool \/ g \in T \/ g = n.table
                 \/ \E p \in HeapPages : g = n.map[p]
      <4>1. CASE g = f
        BY <2>3, <2>9, <4>1
      <4>2. CASE g # f
        <5>1. \A p \in HeapPages : g = m.map[p] => g = n.map[p]
          BY <2>9, <2>11, <4>2 DEF Frames, NONE
        <5> QED BY <2>6, <2>8, <4>2, <5>1 DEF Split
      <4> QED BY <4>1, <4>2
    <3>4. n.pool \cap T = {} /\ n.table \notin n.pool \cup T
      BY <2>6, <2>8 DEF Split
    <3>5. \A p \in HeapPages : n.map[p] \notin n.pool \cup T
      BY <2>2, <2>6, <2>8, <2>9 DEF Split
    <3>6. \A p \in HeapPages : n.map[p] # NONE => n.map[p] # n.table
      BY <2>2, <2>6, <2>8, <2>9 DEF Split
    <3> QED BY <2>3, <2>6, <2>7, <2>8, <3>1, <3>2, <3>3, <3>4, <3>5, <3>6 DEF Split
  <2>13. \A g \in Frames : g \in r.got <=> \E p \in HeapPages : b <= p /\ g = n.map[p]
    <3> SUFFICES ASSUME NEW g \in Frames
                 PROVE  g \in r.got <=> \E p \in HeapPages : b <= p /\ g = n.map[p]
      OBVIOUS
    <3>1. CASE g = f
      BY <2>3, <2>5, <2>8, <2>9, <3>1
    <3>2. CASE g # f
      <4>1. g # NONE
        BY DEF Frames, NONE
      <4>2. \A p \in HeapPages : g = m.map[p] <=> g = n.map[p]
        BY <2>9, <2>11, <3>2, <4>1
      <4>3. g \in r.got <=> g \in s.got
        BY <2>5, <3>2
      <4> QED BY <2>8, <4>2, <4>3
    <3> QED BY <3>1, <3>2
  <2>14. b <= k + 1
    BY <2>3, <2>8
  <2>15. Grown(r, T, b)
    BY <2>5, <2>7, <2>8, <2>12, <2>13, <2>14 DEF Grown, n
  <2> QED BY <1>2, <2>5, <2>15 DEF r, k
<1> QED BY <1>1, <1>2

(* The rollback undoes what the rounds before it have done.                *)
LEMMA RollbackSplit ==
  ASSUME NEW s, NEW T, NEW b, Grown(s, T, b)
  PROVE  Split(Rollback(s, b), T, b)
<1> DEFINE m == s.m
           n == Rollback(s, b)
<1>1. /\ s \in Loop /\ m \in Memory /\ m.pool \in SUBSET Frames /\ s.got \in SUBSET Frames
      /\ m.map \in [HeapPages -> Frames \cup {NONE}] /\ m.table \in Frames \cup {NONE}
      /\ s.page \in 0..HEAP_PAGES
  BY DEF Grown, Loop, Memory
<1>2. /\ Split(m, T, s.page) /\ b <= s.page /\ b \in Nat /\ s.page \in Nat
      /\ \A g \in Frames : g \in s.got <=> \E p \in HeapPages : b <= p /\ g = m.map[p]
  BY <1>1, PageFacts DEF Grown
<1>3. /\ n.pool = m.pool \cup s.got /\ n.table = m.table
      /\ n.map = [p \in HeapPages |-> IF p \in b .. s.page - 1 THEN NONE ELSE m.map[p]]
      /\ n \in Memory
  <2> DEFINE map == [p \in HeapPages |-> IF p \in b .. s.page - 1 THEN NONE ELSE m.map[p]]
  <2>1. map \in [HeapPages -> Frames \cup {NONE}]
    BY <1>1
  <2>2. n = [m EXCEPT !.map = map, !.pool = m.pool \cup s.got]
    BY <1>1 DEF Rollback
  <2> HIDE DEF map, n
  <2>3. n.pool = m.pool \cup s.got /\ n.table = m.table /\ n.map = map /\ n \in Memory
    BY <1>1, <2>1, <2>2 DEF Memory
  <2> QED BY <2>3 DEF map
<1> HIDE DEF m, n
<1>4. \A p \in HeapPages : n.map[p] = IF p < b THEN m.map[p] ELSE NONE
  <2> SUFFICES ASSUME NEW p \in HeapPages
               PROVE  n.map[p] = IF p < b THEN m.map[p] ELSE NONE
    OBVIOUS
  <2>1. p \in Nat
    BY DEF HeapPages
  <2>2. CASE p \in b .. s.page - 1
    BY <1>2, <1>3, <2>1, <2>2
  <2>3. CASE p \notin b .. s.page - 1
    <3>1. p < b \/ ~(p < s.page)
      BY <1>2, <2>1, <2>3
    <3>2. n.map[p] = m.map[p]
      BY <1>3, <2>3
    <3>3. ~(p < s.page) => m.map[p] = NONE
      BY <1>2 DEF Split
    <3> QED BY <3>1, <3>2, <3>3
  <2> QED BY <2>2, <2>3
<1>5. b \in 0..HEAP_PAGES
  BY <1>1, <1>2, HeapAssumption
<1>6. \A p \in HeapPages : p \in Nat /\ (b <= p <=> ~(p < b)) /\ (p < b => p < s.page)
  BY <1>2 DEF HeapPages
<1>7. \A p \in HeapPages : n.map[p] # NONE <=> p < b
  BY <1>2, <1>4, <1>6 DEF Split
<1>8. \A p, q \in HeapPages : n.map[p] = n.map[q] /\ n.map[p] # NONE => p = q
  BY <1>2, <1>4 DEF Split
<1>9. ASSUME NEW g \in Frames
      PROVE  \/ g \in n.pool \/ g \in T \/ g = n.table
             \/ \E p \in HeapPages : g = n.map[p]
  <2>1. \A p \in HeapPages : g = m.map[p] => g \in n.pool \/ g = n.map[p]
    BY <1>2, <1>3, <1>4, <1>6
  <2> QED BY <1>2, <1>3, <2>1 DEF Split
<1>10. \A g \in s.got : g \notin T /\ g # m.table /\ g # NONE
  <2> SUFFICES ASSUME NEW g \in s.got PROVE g \notin T /\ g # m.table /\ g # NONE
    OBVIOUS
  <2>1. g \in Frames /\ g # NONE
    BY <1>1 DEF Frames, NONE
  <2>2. PICK p \in HeapPages : g = m.map[p]
    BY <1>2, <2>1
  <2> QED BY <1>2, <2>1, <2>2 DEF Split
<1>11. n.pool \cap T = {} /\ n.table \notin n.pool \cup T
  BY <1>2, <1>3, <1>10 DEF Split
<1>12. ASSUME NEW p \in HeapPages PROVE n.map[p] \notin n.pool \cup T
  <2>1. NONE \notin n.pool \cup T
    BY <1>2, <1>3 DEF Split, Memory, Frames, NONE
  <2>2. CASE p < b
    <3>1. n.map[p] = m.map[p] /\ m.map[p] \in Frames /\ m.map[p] \notin m.pool \cup T
      BY <1>1, <1>2, <1>4, <1>6, <2>2 DEF Split
    <3>2. m.map[p] \notin s.got
      <4> SUFFICES ASSUME m.map[p] \in s.got PROVE FALSE
        OBVIOUS
      <4>1. PICK q \in HeapPages : b <= q /\ m.map[p] = m.map[q]
        BY <1>2, <3>1
      <4>2. m.map[p] # NONE
        BY <3>1 DEF Frames, NONE
      <4> QED BY <1>2, <1>6, <2>2, <4>1, <4>2 DEF Split
    <3> QED BY <1>3, <3>1, <3>2
  <2>3. CASE ~(p < b)
    BY <1>4, <2>1, <2>3
  <2> QED BY <2>2, <2>3
<1>13. \A p \in HeapPages : n.map[p] # NONE => n.map[p] # n.table
  BY <1>2, <1>3, <1>4 DEF Split
<1>14. n.table = NONE => Frames = {}
  BY <1>2, <1>3 DEF Split
<1>15. Split(n, T, b)
  BY <1>2, <1>3, <1>5, <1>7, <1>8, <1>9, <1>11, <1>12, <1>13, <1>14 DEF Split
<1> QED BY <1>15 DEF n

(* The loop of expand_heap has a run.                                      *)
LEMMA RoundsRun ==
  ASSUME NEW m \in Memory, NEW b \in 0..HEAP_PAGES, NEW n \in Nat
  PROVE  \E g \in [0..n -> Loop] : /\ g[0] = Begin(m, b)
                                   /\ \A i \in 1..n : g[i] = Round(g[i-1])
                                   /\ Rounds(m, b, n) = g[n]
<1> DEFINE step == [x \in (1..n) \X Loop |-> Round(x[2])]
           Rec(g) == [i \in 0..n |-> IF i = 0 THEN Begin(m, b) ELSE Round(g[i-1])]
<1>1. Begin(m, b) \in Loop
  BY DEF Begin, Loop
<1>2. step \in [(1..n) \X Loop -> Loop]
  <2>1. ASSUME NEW x \in (1..n) \X Loop PROVE Round(x[2]) \in Loop
    BY RoundType
  <2> HIDE DEF Round, Loop
  <2> QED BY <2>1
<1>3. PICK g : IsRun(g, n, Loop, Begin(m, b), step)
  <2> HIDE DEF step, Begin, Loop
  <2> QED BY <1>1, <1>2, LoopRuns
<1>4. \A i \in 1..n : g[i] = Round(g[i-1])
  <2> SUFFICES ASSUME NEW i \in 1..n PROVE g[i] = Round(g[i-1])
    OBVIOUS
  <2>1. i - 1 \in 0..n
    OBVIOUS
  <2>2. <<i, g[i-1]>> \in (1..n) \X Loop
    BY <1>3, <2>1 DEF IsRun
  <2> HIDE DEF Round, Loop
  <2> QED BY <1>3, <2>2 DEF IsRun
<1>5. g = Rec(g)
  <2>1. \A i \in 0..n : i # 0 => i \in 1..n
    OBVIOUS
  <2> HIDE DEF Round, Loop, Begin
  <2> QED BY <1>3, <1>4, <2>1 DEF IsRun
<1>6. Rounds(m, b, n) = (CHOOSE h : h = Rec(h))[n]
  BY DEF Rounds
<1>7. PICK h : h = Rec(h) /\ Rounds(m, b, n) = h[n]
  <2> HIDE DEF Rec
  <2> QED BY <1>5, <1>6
<1>8. ASSUME NEW i \in 0..n PROVE h[i] = IF i = 0 THEN Begin(m, b) ELSE Round(h[i-1])
  <2> DEFINE v == Rec(h)
  <2>1. h[i] = v[i]
    BY <1>7
  <2>2. v[i] = IF i = 0 THEN Begin(m, b) ELSE Round(h[i-1])
    <3> HIDE DEF Round, Begin
    <3> QED OBVIOUS
  <2> HIDE DEF v
  <2> QED BY <2>1, <2>2
<1>9. h[0] = Begin(m, b) /\ \A i \in 1..n : h[i] = Round(h[i-1])
  <2> HIDE DEF Round, Begin
  <2> QED BY <1>8
<1>10. h \in [0..n -> Loop]
  <2> DEFINE P == {i \in 0..n : h[i] \in Loop}
  <2>1. 0 \in P
    BY <1>1, <1>9
  <2>2. ASSUME NEW i \in 0 .. n - 1, i \in P PROVE i + 1 \in P
    <3>1. i + 1 \in 1..n /\ (i + 1) - 1 = i /\ i + 1 \in 0..n
      OBVIOUS
    <3>2. h[i + 1] = Round(h[i]) /\ h[i] \in Loop
      BY <1>9, <2>2, <3>1
    <3> HIDE DEF Loop
    <3> QED BY <3>1, <3>2, RoundType
  <2>3. \A i \in 0..n : i \in P
    <3> HIDE DEF P
    <3> QED BY <2>1, <2>2, LoopInduction
  <2>4. DOMAIN h = 0..n /\ h = [i \in 0..n |-> h[i]]
    <3> DEFINE v == Rec(h)
    <3>1. DOMAIN v = 0..n /\ v = [i \in 0..n |-> v[i]]
      <4> HIDE DEF Round, Begin
      <4> QED OBVIOUS
    <3> HIDE DEF v
    <3> QED BY <1>7, <3>1 DEF v
  <2> HIDE DEF Loop
  <2> QED BY <2>3, <2>4
<1> QED BY <1>7, <1>9, <1>10

(* expand_heap leaves the memory split at the new end of the heap, or as   *)
(* it was.                                                                 *)
LEMMA ExpandSplit ==
  ASSUME NEW m, NEW T, NEW b, Split(m, T, b), NEW n \in Nat
  PROVE  LET x == ExpandHeap(m, b, n)
         IN  /\ x.ok => b + n <= HEAP_PAGES /\ Split(x.mem, T, b + n)
             /\ ~x.ok => Split(x.mem, T, b)
<1> DEFINE s == Rounds(m, b, n)
           x == ExpandHeap(m, b, n)
<1>1. m \in Memory /\ b \in 0..HEAP_PAGES /\ b \in Nat
  BY PageFacts DEF Split
<1>2. PICK g \in [0..n -> Loop] : /\ g[0] = Begin(m, b)
                                  /\ \A i \in 1..n : g[i] = Round(g[i-1])
                                  /\ s = g[n]
  <2> HIDE DEF Loop
  <2> QED BY <1>1, RoundsRun
<1> DEFINE P == {i \in 0..n : Grown(g[i], T, b) /\ (~g[i].failed => g[i].page = b + i)}
<1>3. 0 \in P
  <2>1. /\ g[0].m = m /\ g[0].page = b /\ g[0].got = {} /\ g[0].failed = FALSE
        /\ g[0] \in Loop
    BY <1>1, <1>2 DEF Begin, Loop
  <2>2. ASSUME NEW f \in Frames, NEW p \in HeapPages, b <= p PROVE f # m.map[p]
    <3>1. p \in Nat /\ ~(p < b)
      BY <1>1, <2>2 DEF HeapPages
    <3>2. m.map[p] = NONE
      BY <3>1 DEF Split
    <3> QED BY <3>2 DEF Frames, NONE
  <2>3. Grown(g[0], T, b)
    BY <1>1, <2>1, <2>2 DEF Grown
  <2> QED BY <1>1, <2>1, <2>3
<1>4. ASSUME NEW i \in 0 .. n - 1, i \in P PROVE i + 1 \in P
  <2>1. i + 1 \in 1..n /\ (i + 1) - 1 = i /\ i + 1 \in 0..n
    OBVIOUS
  <2>2. g[i + 1] = Round(g[i]) /\ Grown(g[i], T, b) /\ (~g[i].failed => g[i].page = b + i)
    BY <1>2, <1>4, <2>1
  <2>3. /\ Grown(g[i + 1], T, b)
        /\ ~g[i + 1].failed => ~g[i].failed /\ g[i + 1].page = g[i].page + 1
    BY <2>2, RoundGrown
  <2>4. b + i + 1 = b + (i + 1)
    BY <1>1
  <2> QED BY <2>1, <2>2, <2>3, <2>4
<1>5. n \in P
  <2>1. n \in 0..n
    OBVIOUS
  <2> HIDE DEF P
  <2> QED BY <1>3, <1>4, <2>1, LoopInduction
<1>6. Grown(s, T, b) /\ (~s.failed => s.page = b + n)
  BY <1>2, <1>5
<1> HIDE DEF s
<1>7. x.ok = ~s.failed /\ x.mem = IF s.failed THEN Rollback(s, b) ELSE s.m
  BY DEF ExpandHeap, s
<1>8. s.failed \in BOOLEAN /\ s.page \in 0..HEAP_PAGES
  BY <1>6 DEF Grown, Loop
<1> HIDE DEF x
<1>9. CASE s.failed
  <2>1. ~x.ok /\ x.mem = Rollback(s, b)
    BY <1>7, <1>9
  <2>2. Split(Rollback(s, b), T, b)
    BY <1>6, RollbackSplit
  <2> QED BY <2>1, <2>2 DEF x
<1>10. CASE ~s.failed
  <2>1. x.ok /\ x.mem = s.m
    BY <1>7, <1>10
  <2>2. s.page <= HEAP_PAGES /\ s.page = b + n
    BY <1>6, <1>8, <1>10, HeapAssumption
  <2>3. Split(s.m, T, b + n)
    BY <1>6, <2>2 DEF Grown
  <2> QED BY <2>1, <2>2, <2>3 DEF x
<1> QED BY <1>9, <1>10 DEF x

(* heap_init maps one page and its page table, if there are frames.        *)
LEMMA BootSplit ==
  LET m0 == [pool |-> Frames, table |-> NONE, map |-> [p \in HeapPages |-> NONE]]
      x  == ExpandHeap(m0, 0, PagesFor(0))
  IN  /\ PagesFor(0) = 1 /\ x.ok \in BOOLEAN
      /\ x.ok => Split(x.mem, {}, 1)
      /\ ~x.ok => Split(x.mem, {}, 0)
<1> DEFINE m0 == [pool |-> Frames, table |-> NONE, map |-> [p \in HeapPages |-> NONE]]
           s == Rounds(m0, 0, 1)
           x == ExpandHeap(m0, 0, 1)
<1>1. PagesFor(0) = 1
  <2>1. 0 + 1 + PAGE - 1 = 1 * PAGE /\ (1 * PAGE) \div PAGE = 1
    BY PageFacts
  <2> QED BY <2>1 DEF PagesFor
<1>2. /\ m0 \in Memory /\ m0.pool = Frames /\ m0.table = NONE
      /\ m0.map = [p \in HeapPages |-> NONE] /\ 0 \in 0..HEAP_PAGES
  BY PageFacts DEF Memory
<1> HIDE DEF m0
<1>3. s = Round(Begin(m0, 0))
  <2>1. 1 \in Nat /\ 1 \in 1..1 /\ 1 - 1 = 0
    OBVIOUS
  <2>2. PICK g \in [0..1 -> Loop] : /\ g[0] = Begin(m0, 0)
                                    /\ \A i \in 1..1 : g[i] = Round(g[i-1])
                                    /\ s = g[1]
    <3> HIDE DEF Loop
    <3> QED BY <1>2, <2>1, RoundsRun
  <2> QED BY <2>1, <2>2
<1>4. Begin(m0, 0) = [m |-> m0, page |-> 0, got |-> {}, failed |-> FALSE] /\ HEAP_PAGES # 0
  BY HeapAssumption DEF Begin
<1>5. x.ok = ~s.failed /\ x.mem = IF s.failed THEN Rollback(s, 0) ELSE s.m
  BY DEF ExpandHeap
<1> HIDE DEF s, x
<1>6. CASE Frames = {}
  <2>1. s.m = m0 /\ s.page = 0 /\ s.got = {} /\ s.failed = TRUE
    <3> DEFINE s0 == Begin(m0, 0)
    <3>1. s0.failed = FALSE /\ s0.m = m0 /\ s0.page = 0 /\ s0.got = {}
      BY <1>4
    <3>2. s0.m.pool = {}
      BY <1>2, <1>6, <3>1
    <3>3. s = [s0 EXCEPT !.failed = TRUE]
      <4>1. s0.failed \/ s0.page = HEAP_PAGES \/ s0.m.pool = {}
        BY <3>2
      <4>2. s = Round(s0)
        BY <1>3
      <4> HIDE DEF s0
      <4> QED BY <4>1, <4>2 DEF Round
    <3>4. s0 = [m |-> m0, page |-> 0, got |-> {}, failed |-> FALSE]
      BY <1>4
    <3> HIDE DEF s0
    <3> QED BY <3>3, <3>4
  <2>2. x.mem = Rollback(s, 0) /\ x.ok = FALSE
    BY <1>5, <2>1
  <2>3. Split(m0, {}, 0)
    BY <1>2, <1>6 DEF Split, HeapPages
  <2>4. s \in Loop
    <3>1. Begin(m0, 0) \in Loop
      BY <1>2 DEF Begin, Loop
    <3> QED BY <1>3, <3>1, RoundType
  <2>5. Grown(s, {}, 0)
    BY <1>6, <2>1, <2>3, <2>4 DEF Grown
  <2>6. Split(Rollback(s, 0), {}, 0)
    BY <2>5, RollbackSplit
  <2> QED BY <1>1, <2>2, <2>6 DEF x, m0
<1>7. CASE Frames # {}
  <2> DEFINE f == Lowest(Frames)
             F == Frames \ {f}
             t == Lowest(F)
             m1 == [m0 EXCEPT !.pool = F]
             m2 == [pool |-> F \ {t}, table |-> t, map |-> [m0.map EXCEPT ![0] = f]]
  <2>1. f \in Frames /\ f # NONE
    BY <1>7, LowestFree
  <2>2. F # {}
    <3>1. FRAMES # 0 /\ FRAMES # 1 /\ FRAMES \in Nat
      BY <1>7, HeapAssumption DEF Frames
    <3>2. 1 \in Frames /\ 2 \in Frames
      BY <3>1 DEF Frames
    <3> QED BY <3>2
  <2>3. t \in F /\ t \in Frames /\ t # NONE
    BY <2>2, LowestFree
  <2>4. 0 \in HeapPages
    BY <1>4, PageFacts DEF HeapPages
  <2>5. m1.pool = F /\ m1.table = NONE /\ m1.map = m0.map
    BY <1>2 DEF Memory
  <2>6. MapKernelPage(m1, 0, f) = m2
    BY <2>2, <2>5 DEF MapKernelPage
  <2>7. s = [m |-> m2, page |-> 0 + 1, got |-> {} \cup {f}, failed |-> FALSE]
    <3>1. [m0 EXCEPT !.pool = @ \ {f}] = m1
      BY <1>2
    <3> DEFINE s0 == Begin(m0, 0)
    <3>2. s0.failed = FALSE /\ s0.m = m0 /\ s0.page = 0 /\ s0.got = {}
      BY <1>4
    <3>3. ~(s0.failed \/ s0.page = HEAP_PAGES \/ s0.m.pool = {}) /\ Lowest(s0.m.pool) = f
      BY <1>2, <1>4, <1>7, <3>2
    <3> HIDE DEF m1, m2, f, s0
    <3>4. s = [m |-> MapKernelPage([s0.m EXCEPT !.pool = @ \ {f}], s0.page, f),
               page |-> s0.page + 1, got |-> s0.got \cup {f}, failed |-> FALSE]
      BY <1>3, <3>3 DEF Round, s0
    <3> QED BY <2>6, <3>1, <3>2, <3>4
  <2>8. x.ok = TRUE /\ x.mem = m2
    <3> HIDE DEF m2
    <3> QED BY <1>5, <2>7
  <2>9. /\ m2.pool = F \ {t} /\ m2.table = t
        /\ \A p \in HeapPages : m2.map[p] = IF p = 0 THEN f ELSE NONE
    BY <1>2, <2>4
  <2>10. m2 \in Memory
    <3>1. [m0.map EXCEPT ![0] = f] \in [HeapPages -> Frames \cup {NONE}]
      BY <1>2, <2>1
    <3>2. F \ {t} \in SUBSET Frames
      OBVIOUS
    <3> HIDE DEF F, t, f
    <3> QED BY <2>3, <3>1, <3>2 DEF Memory
  <2>11. NONE \notin Frames /\ 1 \in 0..HEAP_PAGES /\ \A p \in HeapPages : p < 1 <=> p = 0
    <3>1. 1 \in 0..HEAP_PAGES
      BY <1>4, PageFacts
    <3> QED BY <3>1 DEF Frames, NONE, HeapPages
  <2>12. f \notin F /\ F \cup {f} = Frames
    BY <2>1
  <2> HIDE DEF m2, F, t, f
  <2>13. Split(m2, {}, 1)
    <3>1. \A p \in HeapPages : m2.map[p] # NONE <=> p < 1
      BY <2>1, <2>9, <2>11
    <3>2. \A p, q \in HeapPages : m2.map[p] = m2.map[q] /\ m2.map[p] # NONE => p = q
      BY <2>1, <2>9
    <3>3. \A g \in Frames : \/ g \in m2.pool \/ g \in {} \/ g = m2.table
                            \/ \E p \in HeapPages : g = m2.map[p]
      BY <2>4, <2>9, <2>12
    <3>4. m2.pool \cap {} = {} /\ m2.table \notin m2.pool \cup {} /\ m2.table # NONE
      BY <2>3, <2>9
    <3>5. \A p \in HeapPages : m2.map[p] \notin m2.pool \cup {}
      BY <2>9, <2>11, <2>12
    <3>6. \A p \in HeapPages : m2.map[p] # NONE => m2.map[p] # m2.table
      BY <2>3, <2>9, <2>12
    <3> QED BY <2>10, <2>11, <3>1, <3>2, <3>3, <3>4, <3>5, <3>6 DEF Split
  <2> QED BY <1>1, <2>8, <2>13 DEF x, m0
<1> QED BY <1>6, <1>7

-----------------------------------------------------------------------------
(* The inductive invariant.  To the invariants of Heap it adds that some   *)
(* chunk is the last one (in Tiled), that a chunk in use has the units its *)
(* request was rounded to (this bounds the blocks, also for a request      *)
(* whose rounding wraps around), and that the heap does not outgrow its    *)
(* region (in Split).                                                      *)
ListOK ==
  /\ Tiled(hdr, heap_end)
  /\ Chunks = {} => heap_end = 0 /\ free_list_start = NULL
  /\ Chunks # {} => free_list_start = 0

OwnedOK ==
  /\ owned \in [InUse(hdr) -> Sizes]
  /\ \A c \in InUse(hdr) : Units(owned[c]) <= hdr[c].size

FramesOK == \E b \in Nat : heap_end = b * PAGE /\ Split(mem, held, b)

Inv == ListOK /\ Alternate(hdr) /\ OwnedOK /\ FramesOK

(* The first chunk of heap_init, or none.                                  *)
LEMMA InitInv == Init => Inv
<1> SUFFICES ASSUME Init PROVE Inv
  OBVIOUS
<1> DEFINE m0 == [pool |-> Frames, table |-> NONE, map |-> [p \in HeapPages |-> NONE]]
           x == ExpandHeap(m0, 0, PagesFor(0))
           k == PagesFor(0)
<1>1. /\ hdr = [a \in {c \in {0} : x.ok} |-> NewChunk(k, NULL)]
      /\ free_list_start = IF x.ok THEN 0 ELSE NULL
      /\ heap_end = IF x.ok THEN k * PAGE ELSE 0
      /\ mem = x.mem /\ held = {} /\ owned = [a \in {} |-> 0]
  BY DEF Init
<1>2. /\ k = 1 /\ x.ok \in BOOLEAN
      /\ x.ok => Split(x.mem, {}, 1)
      /\ ~x.ok => Split(x.mem, {}, 0)
  BY BootSplit
<1>3. /\ k \in Nat \ {0} /\ k * PAGE \in Nat /\ k * PAGE - 1 \in Nat
      /\ HEAP_PAGES \in Nat /\ PAGE \in Nat /\ 0 * PAGE = 0
  BY PageFacts
<1>4. 0 \in Addr /\ NULL \notin Nat /\ NULL \in Link
  BY AddrFacts DEF Link
<1> HIDE DEF k, x
<1>5. CASE x.ok
  <2>1. /\ hdr = [a \in {0} |-> NewChunk(k, NULL)]
        /\ free_list_start = 0 /\ heap_end = k * PAGE
    BY <1>1, <1>5
  <2>2. /\ NewChunk(k, NULL) \in Header /\ NewChunk(k, NULL).size = k * PAGE - 1
        /\ NewChunk(k, NULL).next = NULL /\ NewChunk(k, NULL).prev = NULL
        /\ NewChunk(k, NULL).is_free = TRUE
    BY <1>3, <1>4 DEF NewChunk, Header, Link
  <2>3. k * PAGE \in Addr
    <3>1. k <= HEAP_PAGES
      BY <1>2, <1>3, <1>5 DEF Split
    <3>2. k * PAGE <= HEAP_PAGES * PAGE
      BY <1>3, <3>1
    <3> QED BY <1>3, <3>2 DEF Addr
  <2>4. DOMAIN hdr = {0} /\ hdr[0] = NewChunk(k, NULL) /\ hdr \in [{0} -> Header]
    BY <2>1, <2>2
  <2>5. EndIn(hdr, 0) = k * PAGE
    BY <1>3, <2>2, <2>4 DEF EndIn
  <2>6. Tiled(hdr, heap_end)
    <3>1. Linked(hdr, heap_end, 0)
      BY <2>1, <2>2, <2>4, <2>5 DEF Linked
    <3> QED BY <1>3, <1>4, <2>1, <2>2, <2>3, <2>4, <2>5, <3>1 DEF Tiled
  <2>7. ListOK /\ Alternate(hdr)
    BY <2>1, <2>2, <2>4, <2>6 DEF ListOK, Alternate, Chunks
  <2>8. InUse(hdr) = {}
    BY <2>2, <2>4 DEF InUse
  <2>9. OwnedOK
    BY <1>1, <2>8 DEF OwnedOK
  <2>10. FramesOK
    BY <1>1, <1>2, <1>3, <1>5, <2>1 DEF FramesOK
  <2> QED BY <2>7, <2>9, <2>10 DEF Inv
<1>6. CASE ~x.ok
  <2>1. /\ DOMAIN hdr = {} /\ hdr \in [{} -> Header]
        /\ free_list_start = NULL /\ heap_end = 0
    BY <1>1, <1>6
  <2>2. ListOK /\ Alternate(hdr)
    BY <1>4, <2>1 DEF ListOK, Tiled, Alternate, Chunks
  <2>3. OwnedOK
    BY <1>1, <2>1 DEF OwnedOK, InUse
  <2>4. FramesOK
    BY <1>1, <1>2, <1>3, <1>6, <2>1 DEF FramesOK
  <2> QED BY <2>2, <2>3, <2>4 DEF Inv
<1> QED BY <1>5, <1>6

(* A request of n bytes placed in a chunk of h that was free: only that    *)
(* chunk becomes used, and owned records it.                               *)
LEMMA PlacedOwned ==
  ASSUME NEW h, NEW e, Tiled(h, e), NEW n \in Sizes, NEW c \in DOMAIN h,
         Fits(h, c, Units(n)), hdr' = Place(h, c, Units(n)), Own(c, n),
         OwnedOK, InUse(h) = InUse(hdr), \A a \in InUse(h) : h[a].size = hdr[a].size,
         AlternateBut(h, c)
  PROVE  /\ Tiled(hdr', e) /\ Alternate(hdr)' /\ OwnedOK'
         /\ DOMAIN hdr' # {}
         /\ c \notin DOMAIN owned /\ c \in DOMAIN h
<1> DEFINE u == Units(n)
<1>1. u \in Nat /\ h[c].is_free /\ h[c].size >= u
  BY PageFacts DEF Fits
<1>2. /\ Tiled(hdr', e)
      /\ DOMAIN h \subseteq DOMAIN hdr'
      /\ hdr'[c].is_free = FALSE /\ hdr'[c].size >= u
      /\ \A a \in DOMAIN h \ {c} : /\ hdr'[a].is_free = h[a].is_free
                                   /\ hdr'[a].size = h[a].size
      /\ \A a \in DOMAIN hdr' \ DOMAIN h : hdr'[a].is_free
      /\ Alternate(hdr')
  <2>1. Tiled(hdr', e) /\ Placed(h, c, u, hdr') /\ Alternate(hdr')
    <3>1. Tiled(Place(h, c, u), e) /\ Placed(h, c, u, Place(h, c, u)) /\ Alternate(Place(h, c, u))
      <4> HIDE DEF u
      <4> QED BY <1>1, PlaceTiled
    <3> QED BY <3>1
  <2> QED BY <2>1 DEF Placed
<1>3. c \notin InUse(hdr) /\ InUse(hdr') = InUse(hdr) \cup {c} /\ InUse(hdr) \subseteq DOMAIN h
  <2>1. c \notin InUse(h)
    BY <1>1 DEF InUse
  <2>2. InUse(hdr') = InUse(h) \cup {c}
    BY <1>2 DEF InUse
  <2> QED BY <2>1, <2>2 DEF InUse
<1>4. owned' = [a \in InUse(hdr) \cup {c} |-> IF a = c THEN n ELSE owned[a]]
      /\ DOMAIN owned = InUse(hdr)
  BY DEF Own, OwnedOK
<1>5. owned' \in [InUse(hdr') -> Sizes]
  BY <1>3, <1>4 DEF OwnedOK
<1>6. ASSUME NEW a \in InUse(hdr') PROVE Units(owned'[a]) <= hdr'[a].size
  <2>1. CASE a = c
    <3>1. Units(owned'[a]) = u /\ hdr'[a].size \in Nat
      BY <1>2, <1>3, <1>4, <2>1, TiledFacts
    <3> QED BY <1>1, <1>2, <2>1, <3>1
  <2>2. CASE a # c
    <3>1. a \in InUse(hdr) /\ owned'[a] = owned[a] /\ hdr'[a].size = hdr[a].size
      BY <1>2, <1>3, <1>4, <2>2
    <3>2. Units(owned[a]) <= hdr[a].size
      BY <3>1 DEF OwnedOK
    <3> QED BY <3>1, <3>2
  <2> QED BY <2>1, <2>2
<1>7. OwnedOK'
  BY <1>5, <1>6 DEF OwnedOK, InUse
<1>8. Alternate(hdr)'
  BY <1>2 DEF Alternate
<1> QED BY <1>2, <1>3, <1>4, <1>7, <1>8

(* Each step keeps the invariant.  kmalloc:                                *)
LEMMA KmallocFitInv ==
  ASSUME Inv, NEW n \in Sizes, KmallocFit(n)
  PROVE  Inv'
<1>1. PICK c \in Chunks : FirstFit(hdr, c, Units(n)) /\ hdr' = Place(hdr, c, Units(n)) /\ Own(c, n)
  BY DEF KmallocFit
<1>2. AlternateBut(hdr, c)
  BY DEF Inv, Alternate, AlternateBut
<1>3. Tiled(hdr', heap_end) /\ Alternate(hdr)' /\ OwnedOK' /\ DOMAIN hdr' # {}
  BY <1>1, <1>2, PlacedOwned DEF Inv, ListOK, FirstFit, Chunks
<1>4. ListOK'
  <2>1. Chunks # {}
    BY <1>1
  <2> QED BY <1>3, <2>1 DEF Inv, ListOK, KmallocFit, Chunks
<1>5. FramesOK'
  BY DEF Inv, FramesOK, KmallocFit
<1> QED BY <1>3, <1>4, <1>5 DEF Inv

(* The pages an expansion adds.                                            *)
LEMMA ExpansionFrames ==
  ASSUME Inv, NEW k \in Nat
  PROVE  LET x == Expansion(k)
         IN  /\ x.ok => /\ heap_end + k * PAGE \in Addr
                        /\ \E b \in Nat : heap_end + k * PAGE = b * PAGE /\ Split(x.mem, held, b)
             /\ ~x.ok => \E b \in Nat : heap_end = b * PAGE /\ Split(x.mem, held, b)
<1> DEFINE x == Expansion(k)
<1>1. PICK b \in Nat : heap_end = b * PAGE /\ Split(mem, held, b)
  BY DEF Inv, FramesOK
<1>2. PAGE \in Nat /\ HEAP_PAGES \in Nat /\ heap_end \div PAGE = b
  BY <1>1, PageFacts
<1>3. x = ExpandHeap(mem, b, k)
  BY <1>2 DEF Expansion
<1>4. /\ x.ok => b + k <= HEAP_PAGES /\ Split(x.mem, held, b + k)
      /\ ~x.ok => Split(x.mem, held, b)
  BY <1>1, <1>3, ExpandSplit
<1> HIDE DEF x
<1>5. heap_end + k * PAGE = (b + k) * PAGE /\ b + k \in Nat
  BY <1>1, <1>2
<1>6. b + k <= HEAP_PAGES => (b + k) * PAGE \in Addr
  <2>1. b + k <= HEAP_PAGES => (b + k) * PAGE <= HEAP_PAGES * PAGE
    BY <1>2, <1>5
  <2>2. (b + k) * PAGE \in Nat /\ HEAP_PAGES * PAGE \in Nat
    BY <1>2, <1>5
  <2> QED BY <2>1, <2>2 DEF Addr
<1> QED BY <1>1, <1>4, <1>5, <1>6 DEF x

(* A request that no chunk fits is placed in the new pages, and nowhere    *)
(* else.                                                                   *)
LEMMA ExpandPlace ==
  ASSUME Inv, NEW n \in Sizes, KmallocExpand(n)
  PROVE  LET k == PagesFor(Units(n))
         IN  /\ k \in Nat \ {0} /\ k * PAGE \in Nat
             /\ heap_end' = heap_end + k * PAGE
             /\ heap_end \notin Chunks
             /\ Tiled(Extended(k), heap_end') /\ AlternateBut(Extended(k), heap_end)
             /\ heap_end \in DOMAIN Extended(k)
             /\ InUse(Extended(k)) = InUse(hdr)
             /\ \A a \in InUse(Extended(k)) : Extended(k)[a].size = hdr[a].size
             /\ \/ /\ Units(n) = 0 /\ hdr' = Extended(k) /\ owned' = owned
                   /\ Alternate(Extended(k))
                \/ /\ Own(heap_end, n)
                   /\ Fits(Extended(k), heap_end, Units(n))
                   /\ hdr' = Place(Extended(k), heap_end, Units(n))
<1> DEFINE k == PagesFor(Units(n))
           q == Extended(k)
<1>1. k \in Nat \ {0} /\ k * PAGE \in Nat /\ Units(n) \in Nat
  BY PageFacts
<1> HIDE DEF k, q
<1>2. /\ \A c \in Chunks : ~Fits(hdr, c, Units(n))
      /\ Expansion(k).ok
      /\ heap_end' = heap_end + k * PAGE
      /\ \/ Units(n) = 0 /\ hdr' = q /\ owned' = owned
         \/ \E c \in Chunks \cup {heap_end} : /\ FirstFit(q, c, Units(n))
                                              /\ hdr' = Place(q, c, Units(n))
                                              /\ Own(c, n)
  BY DEF KmallocExpand, k, q
<1>3. heap_end + k * PAGE \in Addr
  BY <1>1, <1>2, ExpansionFrames
<1>4. /\ Tiled(q, heap_end + k * PAGE)
      /\ DOMAIN q = Chunks \cup {heap_end} /\ heap_end \notin Chunks
      /\ q[heap_end].is_free = TRUE
      /\ \A a \in Chunks : q[a].is_free = hdr[a].is_free /\ q[a].size = hdr[a].size
      /\ AlternateBut(q, heap_end)
  BY <1>1, <1>3, ExtendedTiled DEF Inv, ListOK, q
<1>5. InUse(q) = InUse(hdr) /\ \A a \in InUse(q) : q[a].size = hdr[a].size
  BY <1>4 DEF InUse, Chunks
<1>6. CASE Units(n) = 0 /\ hdr' = q /\ owned' = owned
  <2>1. ASSUME NEW a \in Chunks PROVE ~q[a].is_free
    <3>1. hdr[a].size \in Nat
      BY TiledFacts DEF Inv, ListOK, Chunks
    <3>2. ~Fits(hdr, a, Units(n))
      BY <1>2
    <3> QED BY <1>4, <1>6, <3>1, <3>2 DEF Fits
  <2>2. q[heap_end].next = NULL
    BY <1>4 DEF Extended, NewChunk, q
  <2>3. Alternate(q)
    BY <1>4, <2>1, <2>2 DEF Alternate
  <2> QED BY <1>1, <1>2, <1>4, <1>5, <1>6, <2>3 DEF q, k
<1>7. ASSUME NEW c \in Chunks \cup {heap_end}, FirstFit(q, c, Units(n)),
             hdr' = Place(q, c, Units(n)), Own(c, n)
      PROVE  /\ Own(heap_end, n) /\ Fits(q, heap_end, Units(n))
             /\ hdr' = Place(q, heap_end, Units(n))
  <2>1. ASSUME c \in Chunks PROVE FALSE
    BY <1>2, <1>4, <1>7, <2>1 DEF FirstFit, Fits
  <2> QED BY <1>7, <2>1 DEF FirstFit
<1> QED BY <1>1, <1>2, <1>4, <1>5, <1>6, <1>7 DEF q, k

(* kmalloc with new pages:                                                 *)
LEMMA KmallocExpandInv ==
  ASSUME Inv, NEW n \in Sizes, KmallocExpand(n)
  PROVE  Inv'
<1> DEFINE k == PagesFor(Units(n))
           q == Extended(k)
<1>1. /\ k \in Nat \ {0} /\ k * PAGE \in Nat
      /\ heap_end' = heap_end + k * PAGE
      /\ heap_end \notin Chunks
      /\ Tiled(q, heap_end') /\ AlternateBut(q, heap_end)
      /\ heap_end \in DOMAIN q
      /\ InUse(q) = InUse(hdr)
      /\ \A a \in InUse(q) : q[a].size = hdr[a].size
      /\ \/ Units(n) = 0 /\ hdr' = q /\ owned' = owned /\ Alternate(q)
         \/ /\ Own(heap_end, n) /\ Fits(q, heap_end, Units(n))
            /\ hdr' = Place(q, heap_end, Units(n))
  BY ExpandPlace
<1> HIDE DEF q
<1>2. Tiled(hdr', heap_end') /\ Alternate(hdr)' /\ OwnedOK' /\ DOMAIN hdr' # {}
  <2>1. CASE hdr' = q /\ owned' = owned /\ Alternate(q)
    <3>1. Alternate(hdr)'
      BY <2>1 DEF Alternate
    <3>2. OwnedOK'
      BY <1>1, <2>1 DEF Inv, OwnedOK, InUse
    <3> QED BY <1>1, <2>1, <3>1, <3>2
  <2>2. CASE /\ Own(heap_end, n) /\ Fits(q, heap_end, Units(n))
             /\ hdr' = Place(q, heap_end, Units(n))
    BY <1>1, <2>2, PlacedOwned DEF Inv
  <2> QED BY <1>1, <2>1, <2>2
<1>3. free_list_start' = 0
  <2>1. free_list_start' = IF free_list_start = NULL THEN heap_end ELSE free_list_start
    BY DEF KmallocExpand
  <2>2. NULL # 0
    BY AddrFacts
  <2> QED BY <2>1, <2>2 DEF Inv, ListOK
<1>4. ListOK'
  BY <1>2, <1>3 DEF ListOK, Chunks
<1>5. FramesOK'
  <2>1. Expansion(k).ok /\ mem' = Expansion(k).mem /\ held' = held
    BY DEF KmallocExpand
  <2> HIDE DEF k
  <2>2. PICK b \in Nat : heap_end + k * PAGE = b * PAGE /\ Split(Expansion(k).mem, held, b)
    BY <1>1, <2>1, ExpansionFrames
  <2> QED BY <1>1, <2>1, <2>2 DEF FramesOK
<1> QED BY <1>2, <1>4, <1>5 DEF Inv

(* kmalloc without them:                                                   *)
LEMMA KmallocFailFrames ==
  ASSUME Inv, NEW n \in Sizes, KmallocFail(n)
  PROVE  FramesOK'
<1> DEFINE k == PagesFor(Units(n))
<1>1. /\ ~Expansion(k).ok /\ mem' = Expansion(k).mem /\ held' = held /\ heap_end' = heap_end
      /\ k \in Nat
  BY PageFacts DEF KmallocFail
<1> HIDE DEF k
<1>2. PICK b \in Nat : heap_end = b * PAGE /\ Split(Expansion(k).mem, held, b)
  BY <1>1, ExpansionFrames
<1> QED BY <1>1, <1>2 DEF FramesOK

(* A frame taken by the rest of the kernel, or given back:                 *)
LEMMA FrameMoves ==
  ASSUME Inv, NEW f \in Frames, FrameTaken \/ FrameGiven(f)
  PROVE  FramesOK'
<1>1. PICK b \in Nat : heap_end = b * PAGE /\ Split(mem, held, b)
  BY DEF Inv, FramesOK
<1>2. mem \in Memory /\ mem.pool \in SUBSET Frames /\ held \in SUBSET Frames /\ heap_end' = heap_end
  BY <1>1 DEF Split, Memory, FrameTaken, FrameGiven
<1>3. ASSUME NEW g \in Frames, NEW p, NEW T, p \in SUBSET Frames, T \in SUBSET Frames,
             mem' = [mem EXCEPT !.pool = p], held' = T,
             p \cup T = mem.pool \cup held, p \cap T = {}
      PROVE  Split(mem', held', b)
  <2>1. mem' \in Memory /\ mem'.pool = p /\ mem'.table = mem.table /\ mem'.map = mem.map
    BY <1>2, <1>3 DEF Memory
  <2> QED BY <1>1, <1>3, <2>1 DEF Split
<1>4. CASE FrameTaken
  <2> DEFINE g == Lowest(mem.pool)
  <2>1. g \in mem.pool /\ g \in Frames
    BY <1>2, <1>4, LowestFree DEF FrameTaken
  <2> HIDE DEF g
  <2>2. mem' = [mem EXCEPT !.pool = mem.pool \ {g}] /\ held' = held \cup {g}
    BY <1>2, <1>4 DEF FrameTaken, g
  <2>3. /\ (mem.pool \ {g}) \cup (held \cup {g}) = mem.pool \cup held
        /\ (mem.pool \ {g}) \cap (held \cup {g}) = {}
    BY <1>1, <2>1 DEF Split
  <2>4. Split(mem', held', b)
    BY <1>2, <1>3, <2>1, <2>2, <2>3
  <2> QED BY <1>1, <1>2, <2>4 DEF FramesOK
<1>5. CASE FrameGiven(f)
  <2>1. mem' = [mem EXCEPT !.pool = mem.pool \cup {f}] /\ held' = held \ {f} /\ f \in held
    BY <1>2, <1>5 DEF FrameGiven
  <2>2. /\ (mem.pool \cup {f}) \cup (held \ {f}) = mem.pool \cup held
        /\ (mem.pool \cup {f}) \cap (held \ {f}) = {}
    BY <1>1, <2>1 DEF Split
  <2>3. Split(mem', held', b)
    BY <1>2, <1>3, <2>1, <2>2
  <2> QED BY <1>1, <1>2, <2>3 DEF FramesOK
<1> QED BY <1>4, <1>5

(* kfree:                                                                  *)
LEMMA KfreeInv ==
  ASSUME Inv, NEW c \in Addr, Kfree(c)
  PROVE  Inv'
<1>1. hdr' = Released(c)
  BY DEF Kfree, Released
<1>2. c \in InUse(hdr) /\ c \in Chunks /\ ~hdr[c].is_free /\ DOMAIN owned = InUse(hdr)
  BY DEF Kfree, Inv, OwnedOK, InUse, Chunks
<1>3. /\ Tiled(hdr', heap_end) /\ Alternate(hdr') /\ DOMAIN hdr' # {}
      /\ InUse(hdr') = InUse(hdr) \ {c}
      /\ \A a \in InUse(hdr) \ {c} : hdr'[a].size = hdr[a].size
  BY <1>1, <1>2, ReleasedTiled DEF Inv, ListOK
<1>4. ListOK'
  <2>1. Chunks # {}
    BY <1>2
  <2> QED BY <1>3, <2>1 DEF Inv, ListOK, Kfree, Chunks
<1>5. OwnedOK'
  <2>1. owned' = [a \in InUse(hdr) \ {c} |-> owned[a]]
    BY <1>2 DEF Kfree
  <2>2. owned' \in [InUse(hdr') -> Sizes]
    BY <1>3, <2>1 DEF Inv, OwnedOK
  <2>3. \A a \in InUse(hdr') : Units(owned'[a]) <= hdr'[a].size
    BY <1>3, <2>1 DEF Inv, OwnedOK
  <2> QED BY <2>2, <2>3 DEF OwnedOK, InUse
<1>6. FramesOK'
  BY DEF Inv, FramesOK, Kfree
<1>7. Alternate(hdr)'
  BY <1>3 DEF Alternate
<1> QED BY <1>4, <1>5, <1>6, <1>7 DEF Inv

(* Every step, the ones of the rest of the kernel included:                *)
LEMMA NextInv == Inv /\ [Next]_vars => Inv'
<1> SUFFICES ASSUME Inv, [Next]_vars PROVE Inv'
  OBVIOUS
<1>1. ASSUME UNCHANGED vars PROVE Inv'
  BY <1>1 DEF vars, Inv, ListOK, Alternate, OwnedOK, FramesOK, InUse, Chunks
<1>2. ASSUME UNCHANGED <<hdr, free_list_start, heap_end, owned>>, FramesOK' PROVE Inv'
  BY <1>2 DEF Inv, ListOK, Alternate, OwnedOK, InUse, Chunks
<1>3. ASSUME FrameTaken PROVE Inv'
  <2>1. mem \in Memory /\ mem.pool # {}
    BY <1>3 DEF FrameTaken, Inv, FramesOK, Split
  <2>2. PICK f \in Frames : f \in mem.pool
    BY <2>1 DEF Memory
  <2>3. FramesOK'
    BY <1>3, FrameMoves
  <2> QED BY <1>2, <1>3, <2>3 DEF FrameTaken
<1>4. ASSUME NEW f \in Frames, FrameGiven(f) PROVE Inv'
  <2>1. FramesOK'
    BY <1>4, FrameMoves
  <2> QED BY <1>2, <1>4, <2>1 DEF FrameGiven
<1>5. ASSUME NEW n \in Sizes, KmallocFail(n) PROVE Inv'
  <2>1. FramesOK'
    BY <1>5, KmallocFailFrames
  <2> QED BY <1>2, <1>5, <2>1 DEF KmallocFail
<1> QED BY <1>1, <1>3, <1>4, <1>5, KmallocFitInv, KmallocExpandInv, KfreeInv DEF Next

(* The headers, the requests and the frames keep the invariant.            *)
THEOREM Invariance == Spec => []Inv
BY InitInv, NextInv, PTL DEF Spec

-----------------------------------------------------------------------------
(* Type correctness.                                                       *)
THEOREM TypeCorrect == Spec => []TypeOK
<1>1. Inv => TypeOK
  <2> SUFFICES ASSUME Inv PROVE TypeOK
    OBVIOUS
  <2>1. /\ Chunks \subseteq Addr /\ hdr \in [Chunks -> Header] /\ heap_end \in Addr
        /\ DOMAIN owned \subseteq Chunks /\ owned \in [DOMAIN owned -> Sizes]
    BY DEF Inv, ListOK, Tiled, OwnedOK, InUse, Chunks
  <2>2. free_list_start \in Addr \cup {NULL}
    BY AddrFacts DEF Inv, ListOK
  <2>3. mem \in Memory /\ held \subseteq Frames
    BY DEF Inv, FramesOK, Split
  <2> QED BY <2>1, <2>2, <2>3 DEF TypeOK
<1> QED BY <1>1, Invariance, PTL

(* Any sequence of kmalloc and kfree leaves a list that visits the chunks  *)
(* in address order and tiles the mapped region.                           *)
THEOREM ListStaysInOrder == Spec => []ListInOrder
<1>1. Inv => ListInOrder
  <2> SUFFICES ASSUME Inv PROVE ListInOrder
    OBVIOUS
  <2>1. \A c \in Chunks : Linked(hdr, heap_end, c) /\ End(c) = EndIn(hdr, c)
    BY DEF Inv, ListOK, Tiled, Chunks, End, EndIn
  <2>2. Chunks # {} => 0 \in Chunks
    BY DEF Inv, ListOK, Tiled, Chunks
  <2> QED BY <2>1, <2>2 DEF Inv, ListOK, ListInOrder, Linked, Chunks
<1> QED BY <1>1, Invariance, PTL

(* kfree coalesces on both sides: no two neighbours are ever both free.    *)
THEOREM CoalescingIsComplete == Spec => []NoFreeNeighbours
<1>1. Inv => NoFreeNeighbours
  BY DEF Inv, Alternate, NoFreeNeighbours, Chunks
<1> QED BY <1>1, Invariance, PTL

(* The blocks handed out are the chunks in use; no chunk reaches into      *)
(* another or beyond the mapped pages.                                     *)
THEOREM BlocksAreInUse == Spec => []BlocksInUse
<1>1. Inv => BlocksInUse
  <2> SUFFICES ASSUME Inv PROVE BlocksInUse
    OBVIOUS
  <2>1. \A c \in Chunks : End(c) = EndIn(hdr, c)
    BY DEF End, EndIn
  <2>2. /\ \A c \in Chunks : EndIn(hdr, c) <= heap_end
        /\ \A c, d \in Chunks : c < d => EndIn(hdr, c) <= d
    BY DEF Inv, ListOK, Tiled, Chunks
  <2>3. DOMAIN owned = {c \in Chunks : ~hdr[c].is_free}
    BY DEF Inv, OwnedOK, InUse, Chunks
  <2> QED BY <2>1, <2>2, <2>3 DEF BlocksInUse
<1> QED BY <1>1, Invariance, PTL

(* Rounded up, a request is at least itself, unless the sum wraps around.  *)
LEMMA RoundedUp ==
  ASSUME NEW n \in Sizes, n + 15 < SIZE_MOD
  PROVE  n <= 16 * Units(n)
<1>1. n \in Nat /\ n + 15 < SIZE_MOD /\ SIZE_MOD \in Nat \ {0}
  BY HeapAssumption
<1>2. (n + 15) % SIZE_MOD = n + 15
  BY <1>1
<1>3. Units(n) = (n + 15) \div 16
  BY <1>2 DEF Units
<1> QED BY <1>1, <1>3

(* A block has at least the bytes asked for, unless the request is so      *)
(* large that rounding it up wraps around; other blocks keep the claim     *)
(* when such requests occur.                                               *)
THEOREM BlocksAreLargeEnough == Spec => []BlocksLargeEnough
<1>1. Inv => BlocksLargeEnough
  <2> SUFFICES ASSUME Inv, NEW c \in DOMAIN owned, owned[c] + 15 < SIZE_MOD
               PROVE  owned[c] <= 16 * hdr[c].size
    BY DEF BlocksLargeEnough
  <2>1. /\ owned[c] \in Sizes /\ Units(owned[c]) <= hdr[c].size
        /\ hdr[c].size \in Nat
    <3>1. c \in InUse(hdr) /\ c \in DOMAIN hdr /\ owned \in [InUse(hdr) -> Sizes]
      BY DEF Inv, OwnedOK, InUse
    <3>2. hdr[c].size \in Nat
      BY <3>1, TiledFacts DEF Inv, ListOK
    <3> QED BY <3>1, <3>2 DEF Inv, OwnedOK
  <2>2. owned[c] <= 16 * Units(owned[c])
    BY <2>1, RoundedUp
  <2>3. Units(owned[c]) \in Nat /\ owned[c] \in Nat
    BY <2>1, PageFacts, HeapAssumption
  <2> QED BY <2>1, <2>2, <2>3
<1> QED BY <1>1, Invariance, PTL

(* No frame is lost or has two uses, however far an expansion gets before  *)
(* it is rolled back.                                                      *)
THEOREM FramesAreConserved == Spec => []FramesConserved
<1>1. Inv => FramesConserved
  <2> SUFFICES ASSUME Inv PROVE FramesConserved
    OBVIOUS
  <2>1. PICK b \in Nat : heap_end = b * PAGE /\ Split(mem, held, b)
    BY DEF Inv, FramesOK
  <2>2. heap_end % PAGE = 0 /\ heap_end \div PAGE = b
    BY <2>1, PageFacts
  <2>3. /\ b \in 0..HEAP_PAGES /\ HEAP_PAGES \in Nat
        /\ mem \in Memory /\ mem.map \in [HeapPages -> Frames \cup {NONE}]
        /\ mem.pool \subseteq Frames /\ held \subseteq Frames
    BY <2>1, PageFacts DEF Split, Memory
  <2>4. \A p : p \in 0 .. b - 1 <=> p \in HeapPages /\ p < b
    BY <2>3 DEF HeapPages
  <2>5. Backing = {mem.map[p] : p \in 0 .. b - 1}
    BY <2>2 DEF Backing
  <2>6. \A g : g \in Backing <=> g # NONE /\ \E p \in HeapPages : g = mem.map[p]
    BY <2>1, <2>4, <2>5 DEF Split
  <2>7. NONE \notin Frames /\ Backing \subseteq Frames
    <3>1. NONE \notin Frames
      BY DEF Frames, NONE
    <3> QED BY <2>3, <2>6, <3>1
  <2>8. mem.pool \cup held \cup Backing \cup {mem.table} = Frames \cup {mem.table}
    BY <2>1, <2>3, <2>6, <2>7 DEF Split
  <2>9. /\ mem.pool \cap held = {} /\ Backing \cap (mem.pool \cup held) = {}
        /\ mem.table \notin mem.pool \cup held \cup Backing
    BY <2>1, <2>6 DEF Split
  <2>10. /\ \A p \in HeapPages : mem.map[p] # NONE <=> p < b
         /\ \A p, q \in HeapPages : mem.map[p] = mem.map[q] /\ mem.map[p] # NONE => p = q
         /\ mem.table = NONE => Frames = {}
    BY <2>1 DEF Split
  <2> QED BY <2>2, <2>8, <2>9, <2>10 DEF FramesConserved
<1> QED BY <1>1, Invariance, PTL

-----------------------------------------------------------------------------
(* The refinement of Allocator.  Handing out chunk c:                      *)
LEMMA OwnRefines ==
  ASSUME Inv, Inv', NEW n \in Sizes, NEW c \in Nat, c \notin DOMAIN owned, Own(c, n)
  PROVE  A!ANext
<1> DEFINE B == Blocks
           a == c + 1
           u == Units(n)
<1>1. /\ DOMAIN owned = InUse(hdr) /\ DOMAIN owned' = InUse(hdr') /\ c \in InUse(hdr')
      /\ DOMAIN owned' = DOMAIN owned \cup {c}
      /\ owned'[c] = n /\ \A d \in DOMAIN owned : owned'[d] = owned[d]
  BY DEF Inv, OwnedOK, Own
<1>2. DOMAIN owned \subseteq Nat /\ DOMAIN owned \subseteq DOMAIN hdr'
      /\ DOMAIN owned' \subseteq DOMAIN hdr'
  <2>1. InUse(hdr) \subseteq DOMAIN hdr /\ InUse(hdr') \subseteq DOMAIN hdr'
    BY DEF InUse
  <2>2. DOMAIN hdr \subseteq Nat
    BY TiledFacts DEF Inv, ListOK
  <2> QED BY <1>1, <2>1, <2>2
<1>3. Tiled(hdr', heap_end')
  BY DEF Inv, ListOK
<1>4. /\ DOMAIN B = {d + 1 : d \in DOMAIN owned}
      /\ \A d \in DOMAIN owned : d + 1 \in DOMAIN B /\ B[d + 1] = Units(owned[d])
  <2>1. \A d \in DOMAIN owned : (d + 1) - 1 = d
    BY <1>2
  <2> QED BY <2>1 DEF Blocks
<1>5. a \notin DOMAIN B
  <2>1. ASSUME NEW d \in DOMAIN owned, a = d + 1 PROVE FALSE
    BY <1>2, <2>1
  <2> QED BY <1>4, <2>1
<1>6. ASSUME NEW b \in DOMAIN B PROVE ~A!Overlap(a, u, b, B[b])
  <2>1. PICK d \in DOMAIN owned : b = d + 1
    BY <1>4
  <2>2. B[b] = Units(owned'[d]) /\ d # c /\ c \in DOMAIN hdr' /\ d \in DOMAIN hdr'
    BY <1>1, <1>2, <1>4, <2>1
  <2>3. Units(owned'[d]) <= hdr'[d].size /\ u <= hdr'[c].size
    BY <1>1, <2>1 DEF Inv, OwnedOK
  <2>4. /\ c \in Nat /\ d \in Nat /\ hdr'[c].size \in Nat /\ hdr'[d].size \in Nat
        /\ EndIn(hdr', c) = c + 1 + hdr'[c].size /\ EndIn(hdr', d) = d + 1 + hdr'[d].size
        /\ c < d => EndIn(hdr', c) <= d
        /\ d < c => EndIn(hdr', d) <= c
    BY <1>3, <2>2, TiledFacts
  <2>5. u \in Nat /\ Units(owned'[d]) \in Nat
    <3>1. owned'[d] \in Sizes
      BY <1>1, <2>1 DEF Inv, OwnedOK
    <3> QED BY <3>1, PageFacts
  <2>6. c < d \/ d < c
    BY <2>2, <2>4
  <2> HIDE DEF B, u
  <2> QED BY <2>1, <2>2, <2>3, <2>4, <2>5, <2>6 DEF A!Overlap
<1>7. B' = [b \in DOMAIN B \cup {a} |-> IF b = a THEN u ELSE B[b]]
  <2>1. {d + 1 : d \in DOMAIN owned'} = DOMAIN B \cup {a}
    BY <1>1, <1>4
  <2>2. Blocks' = [b \in DOMAIN B \cup {a} |-> Units(owned'[b - 1])]
    BY <2>1 DEF Blocks
  <2>3. ASSUME NEW b \in DOMAIN B \cup {a}
        PROVE  Units(owned'[b - 1]) = IF b = a THEN u ELSE B[b]
    <3>1. CASE b = a
      <4>1. b - 1 = c
        BY <3>1
      <4> QED BY <1>1, <3>1, <4>1
    <3>2. CASE b # a
      <4>1. PICK d \in DOMAIN owned : b = d + 1
        BY <1>4, <3>2
      <4>2. b - 1 = d
        BY <1>2, <4>1
      <4> QED BY <1>1, <1>4, <3>2, <4>1, <4>2
    <3> QED BY <3>1, <3>2
  <2> HIDE DEF B, a, u
  <2> QED BY <2>2, <2>3 DEF B
<1>8. a \in DOMAIN B' \ DOMAIN B /\ B'[a] = u
  BY <1>5, <1>7
<1>9. A!Alloc(a, B'[a])
  <2> HIDE DEF a, u
  <2> QED BY <1>5, <1>6, <1>7, <1>8 DEF A!Alloc
<1> QED BY <1>8, <1>9 DEF A!ANext

(* Taking it back:                                                         *)
LEMMA KfreeRefines ==
  ASSUME Inv, NEW c \in Addr, Kfree(c)
  PROVE  A!ANext
<1>1. DOMAIN owned \subseteq Nat /\ c \in DOMAIN owned
  <2>1. DOMAIN owned \subseteq DOMAIN hdr
    BY DEF Inv, OwnedOK, InUse
  <2>2. DOMAIN hdr \subseteq Nat
    BY TiledFacts DEF Inv, ListOK
  <2> QED BY <2>1, <2>2 DEF Kfree
<1>2. owned' = [a \in DOMAIN owned \ {c} |-> owned[a]]
  BY DEF Kfree
<1>3. /\ DOMAIN Blocks = {d + 1 : d \in DOMAIN owned}
      /\ Blocks' = [b \in {d + 1 : d \in DOMAIN owned \ {c}} |-> Units(owned'[b - 1])]
  BY <1>2 DEF Blocks
<1>4. {d + 1 : d \in DOMAIN owned \ {c}} = DOMAIN Blocks \ {c + 1}
  <2>1. \A d \in DOMAIN owned : d + 1 = c + 1 => d = c
    BY <1>1
  <2> QED BY <1>3, <2>1
<1>5. ASSUME NEW b \in DOMAIN Blocks \ {c + 1} PROVE Units(owned'[b - 1]) = Blocks[b]
  <2>1. PICK d \in DOMAIN owned \ {c} : b = d + 1
    BY <1>3
  <2>2. b - 1 = d
    BY <1>1, <2>1
  <2>3. owned'[d] = owned[d]
    BY <1>2, <2>1
  <2> QED BY <1>3, <2>1, <2>2, <2>3 DEF Blocks
<1>6. Blocks' = [b \in DOMAIN Blocks \ {c + 1} |-> Blocks[b]]
  BY <1>3, <1>4, <1>5
<1>7. c + 1 \in DOMAIN Blocks
  BY <1>1, <1>3
<1> QED BY <1>6, <1>7 DEF A!ANext, A!Free

(* No block is handed out at boot.                                         *)
LEMMA InitRefines == Init => A!AInit
BY DEF Init, A!AInit, Blocks

(* Every step is a step of the allocator or changes no block.              *)
LEMMA StepRefines == Inv /\ Inv' /\ [Next]_vars => [A!ANext]_Blocks
<1> SUFFICES ASSUME Inv, Inv', [Next]_vars PROVE A!ANext \/ UNCHANGED Blocks
  OBVIOUS
<1>1. ASSUME NEW n \in Sizes, KmallocFit(n) PROVE A!ANext
  <2>1. PICK c \in Chunks : FirstFit(hdr, c, Units(n)) /\ Own(c, n)
    BY <1>1 DEF KmallocFit
  <2>2. c \notin DOMAIN owned
    BY <2>1 DEF FirstFit, Fits, Inv, OwnedOK, InUse
  <2>3. c \in Nat
    BY TiledFacts DEF Inv, ListOK, Chunks
  <2> QED BY <2>1, <2>2, <2>3, OwnRefines
<1>2. ASSUME NEW n \in Sizes, KmallocExpand(n) PROVE A!ANext \/ UNCHANGED owned
  <2>1. heap_end \notin Chunks /\ (owned' = owned \/ Own(heap_end, n))
    BY <1>2, ExpandPlace
  <2>2. heap_end \notin DOMAIN owned
    BY <2>1 DEF Inv, OwnedOK, InUse, Chunks
  <2>3. heap_end \in Nat
    BY TiledFacts DEF Inv, ListOK
  <2> QED BY <2>1, <2>2, <2>3, OwnRefines
<1>3. ASSUME UNCHANGED owned PROVE UNCHANGED Blocks
  BY <1>3 DEF Blocks
<1> QED BY <1>1, <1>2, <1>3, KfreeRefines DEF Next, vars, KmallocFail, FrameTaken, FrameGiven

(* What a caller relies on: a block handed out overlaps none that is in    *)
(* use, and freeing one leaves the others as they are; for every page      *)
(* size, region and choice of requests.                                    *)
THEOREM HeapImplementsAllocator == Spec => Implements
BY InitRefines, StepRefines, Invariance, PTL DEF Spec, Implements, A!ASpec
=============================================================================
