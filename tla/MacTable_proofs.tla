---------------------------- MODULE MacTable_proofs ----------------------------
(***************************************************************************)
(* The MAC table of winvde_hash.c for any number of addresses, ports,      *)
(* entries and buckets: its chains are well linked through every insertion *)
(* and deletion, an address has one entry, which the walk of               *)
(* find_in_hash_update finds, and the table implements MacMap.             *)
(***************************************************************************)
EXTENDS MacTable, ListsAndLoops, FiniteSetTheorems, TLAPS

(***************************************************************************)
(* The sizes of the table.                                                 *)
(***************************************************************************)
LEMMA HashSizeGrows ==
  /\ \A i \in 0 .. MaxBits : HashSize[i] \in Nat \ {0}
  /\ \A i \in 0 .. MaxBits : HashSize[i] <= HashSize[MaxBits]
<1>1. MaxBits \in Nat
  BY MacTableAssumption
<1>2. \A i \in 0 .. MaxBits : HashSize[i] = IF i = 0 THEN 1 ELSE 2 * HashSize[i - 1]
  <2> DEFINE N == Nat
             twice == [x \in N |-> 2 * x]
             one == 1
  <2>1. PICK f \in [0 .. MaxBits -> N] :
          f = [i \in 0 .. MaxBits |-> IF i = 0 THEN one ELSE twice[f[i - 1]]]
    <3>1. twice \in [N -> N] /\ one \in N
      OBVIOUS
    <3> HIDE DEF N, twice, one
    <3> QED BY <1>1, <3>1, LoopExists
  <2>2. f = [i \in 0 .. MaxBits |-> IF i = 0 THEN 1 ELSE 2 * f[i - 1]]
    <3>1. \A i \in 0 .. MaxBits : f[i] = IF i = 0 THEN 1 ELSE 2 * f[i - 1]
      <4> TAKE i \in 0 .. MaxBits
      <4>1. i # 0 => f[i - 1] \in Nat
        BY <1>1
      <4> QED BY <2>1, <4>1
    <3> QED BY <3>1
  <2>3. HashSize = [i \in 0 .. MaxBits |-> IF i = 0 THEN 1 ELSE 2 * HashSize[i - 1]]
    BY <2>2 DEF HashSize
  <2> QED BY <2>3
<1> DEFINE P == {i \in 0 .. MaxBits : HashSize[i] \in Nat \ {0}}
           G == {i \in 0 .. MaxBits : \A j \in 0 .. i : HashSize[j] <= HashSize[i]}
<1>3. \A i \in 0 .. MaxBits : HashSize[i] \in Nat \ {0}
  <2>1. 0 \in P
    BY <1>1, <1>2
  <2>2. ASSUME NEW i \in 1 .. MaxBits, i - 1 \in P PROVE i \in P
    <3>1. HashSize[i] = 2 * HashSize[i - 1] /\ HashSize[i - 1] \in Nat \ {0}
      BY <1>2, <2>2
    <3> QED BY <3>1
  <2> HIDE DEF P
  <2>3. \A i \in 0 .. MaxBits : i \in P
    BY <1>1, <2>1, <2>2, UpTo
  <2> QED BY <2>3 DEF P
<1>4. \A i \in 0 .. MaxBits : i \in G
  <2>1. 0 \in G
    BY <1>1, <1>3
  <2>2. ASSUME NEW i \in 1 .. MaxBits, i - 1 \in G PROVE i \in G
    <3>range. i \in 0 .. MaxBits /\ i - 1 \in 0 .. MaxBits /\ i # 0
      BY <1>1
    <3>1. HashSize[i] = 2 * HashSize[i - 1] /\ HashSize[i - 1] \in Nat /\ HashSize[i] \in Nat
      BY <1>2, <1>3, <3>range
    <3>2. \A j \in 0 .. i - 1 : HashSize[j] <= HashSize[i - 1] /\ HashSize[j] \in Nat
      <4> TAKE j \in 0 .. i - 1
      <4>1. j \in 0 .. MaxBits
        BY <1>1, <3>range
      <4> QED BY <1>3, <2>2, <4>1
    <3>3. \A j \in 0 .. i - 1 : HashSize[j] <= HashSize[i]
      BY <3>1, <3>2
    <3>4. \A j \in 0 .. i : j = i \/ j \in 0 .. i - 1
      OBVIOUS
    <3>5. HashSize[i] <= HashSize[i]
      BY <3>1
    <3> QED BY <3>3, <3>4, <3>5
  <2> HIDE DEF G
  <2> QED BY <1>1, <2>1, <2>2, UpTo
<1> QED BY <1>1, <1>3, <1>4

-----------------------------------------------------------------------------
(***************************************************************************)
(* The inductive invariant: each entry has a place in the chain of its     *)
(* bucket, and the pointers agree with the places.  The places are what    *)
(* the next pointers alone do not give: that they lead from the head to    *)
(* every entry, and never round in a circle.                               *)
(***************************************************************************)
Alloc(g) == {c \in Cells : g.cell[c] # NULL}

Home(g, c) == Bucket(g.cell[c].dst)

\* Entry c is number i of the chain of bucket b.
At(g, pos, c, b, i) == c \in Alloc(g) /\ Home(g, c) = b /\ pos[c] = i

Tables == [head : [Buckets(hash_bits) -> Cells \cup {NULL}],
           cell : [Cells -> Entry \cup {NULL}]]

HeadsFirst(g, pos) ==
  \A b \in Buckets(hash_bits) : g.head[b] # NULL => At(g, pos, g.head[b], b, 0)

NextsFollow(g, pos) ==
  \A c \in Alloc(g) :
    g.cell[c].next # NULL => At(g, pos, g.cell[c].next, Home(g, c), pos[c] + 1)

FirstsPointed(g, pos) ==
  \A c \in Alloc(g) : pos[c] = 0 =>
    g.head[Home(g, c)] = c /\ g.cell[c].prev = <<"head", Home(g, c)>>

OthersPointed(g, pos) ==
  \A c \in Alloc(g) : pos[c] # 0 =>
    \E d \in Cells : /\ At(g, pos, d, Home(g, c), pos[c] - 1)
                     /\ g.cell[d].next = c
                     /\ g.cell[c].prev = <<"next", d>>

OnePerPlace(g, pos) ==
  \A c, d \in Alloc(g) : Home(g, c) = Home(g, d) /\ pos[c] = pos[d] => c = d

NoGaps(g, pos) ==
  \A c \in Alloc(g) : \A i \in 0 .. pos[c] : \E d \in Cells : At(g, pos, d, Home(g, c), i)

OneEntry(g) == \A c, d \in Alloc(g) : g.cell[c].dst = g.cell[d].dst => c = d

Chained(g, pos) ==
  /\ g \in Tables /\ pos \in [Cells -> Nat]
  /\ HeadsFirst(g, pos) /\ NextsFollow(g, pos)
  /\ FirstsPointed(g, pos) /\ OthersPointed(g, pos)
  /\ OnePerPlace(g, pos) /\ NoGaps(g, pos)
  /\ OneEntry(g)

IInv ==
  /\ up \in BOOLEAN
  /\ hash_bits \in 0 .. MaxBits
  /\ min_persistence \in Persistences
  /\ \E pos \in [Cells -> Nat] : Chained(h, pos)

LEMMA BucketType ==
  ASSUME hash_bits \in 0 .. MaxBits, NEW k \in Keys
  PROVE  Bucket(k) \in Buckets(hash_bits)
<1>1. HashSize[hash_bits] \in Nat \ {0}
  BY HashSizeGrows
<1>2. HashOf[k] \in Nat
  BY MacTableAssumption
<1> DEFINE x == HashOf[k]
           y == HashSize[hash_bits]
<1>3. x % y \in 0 .. y - 1
  <2>1. x \in Nat /\ y \in Nat \ {0}
    BY <1>1, <1>2
  <2> HIDE DEF x, y
  <2> QED BY <2>1
<1> QED BY <1>3 DEF Bucket, Buckets

\* An address of a pointer in the array is one for every size.
LEMMA HeadAddress ==
  ASSUME hash_bits \in 0 .. MaxBits, NEW b \in Buckets(hash_bits)
  PROVE  b \in Buckets(MaxBits)
<1>1. HashSize[hash_bits] \in Nat \ {0} /\ HashSize[MaxBits] \in Nat
  BY HashSizeGrows, MacTableAssumption
<1>2. HashSize[hash_bits] <= HashSize[MaxBits]
  BY HashSizeGrows
<1> QED BY <1>1, <1>2 DEF Buckets

LEMMA AllocatedEntry ==
  ASSUME NEW g \in Tables, NEW c \in Alloc(g)
  PROVE  /\ c \in Cells /\ g.cell[c] \in Entry
         /\ g.cell[c].dst \in Keys /\ g.cell[c].port \in Ports /\ g.cell[c].age \in 0 .. MaxAge
         /\ g.cell[c].next \in Cells \cup {NULL}
         /\ g.cell[c].prev \in ({"head"} \X Buckets(MaxBits)) \cup ({"next"} \X Cells)
<1>1. c \in Cells /\ g.cell[c] \in Entry
  BY DEF Alloc, Tables
<1> QED BY <1>1 DEF Entry

(***************************************************************************)
(* delete_hash_entry of any entry of a well linked table: the entries      *)
(* behind it in its chain move up one place, and no other changes.         *)
(***************************************************************************)
MovedUp(g, pos, c) ==
  [d \in Cells |-> IF /\ d \in Alloc(g) /\ Home(g, d) = Home(g, c)
                      /\ pos[c] < pos[d]
                   THEN pos[d] - 1 ELSE pos[d]]

\* What is known of an entry, besides its pointers.
Same(g, r, d) ==
  /\ r.cell[d].dst = g.cell[d].dst
  /\ r.cell[d].port = g.cell[d].port
  /\ r.cell[d].age = g.cell[d].age

LEMMA UnlinkedFields ==
  ASSUME NEW g \in Tables, NEW c \in Alloc(g),
         g.cell[c].next \in Alloc(g) \cup {NULL},
         \A d \in Cells : g.cell[c].prev = <<"next", d>> => d \in Alloc(g)
  PROVE  LET r == Unlinked(g, c) IN
         /\ r = [head |-> r.head, cell |-> r.cell]
         /\ \A b \in Buckets(hash_bits) :
              r.head[b] = IF g.cell[c].prev = <<"head", b>> THEN g.cell[c].next ELSE g.head[b]
         /\ r \in Tables
         /\ Alloc(r) = Alloc(g) \ {c}
         /\ \A d \in Alloc(r) :
              /\ Same(g, r, d)
              /\ r.cell[d].next = IF g.cell[c].prev = <<"next", d>>
                                  THEN g.cell[c].next ELSE g.cell[d].next
              /\ d # g.cell[c].next => r.cell[d].prev = g.cell[d].prev
              /\ d = g.cell[c].next /\ g.cell[c].prev # <<"next", d>> =>
                   r.cell[d].prev = g.cell[c].prev
<1> DEFINE r == Unlinked(g, c)
           n == g.cell[c].next
           p == g.cell[c].prev
<1>1. /\ c \in Cells /\ n \in Cells \cup {NULL}
      /\ p \in ({"head"} \X Buckets(MaxBits)) \cup ({"next"} \X Cells)
  BY AllocatedEntry
<1>2. /\ DOMAIN g.head = Buckets(hash_bits)
      /\ g.head \in [Buckets(hash_bits) -> Cells \cup {NULL}]
      /\ g.cell \in [Cells -> Entry \cup {NULL}]
  BY DEF Tables
<1>3. /\ r = [head |-> r.head, cell |-> r.cell]
      /\ r.head = [b \in Buckets(hash_bits) |-> IF p = <<"head", b>> THEN n ELSE g.head[b]]
      /\ r.cell = [d \in Cells |->
                     IF d = c THEN NULL
                     ELSE IF p = <<"next", d>> THEN [g.cell[d] EXCEPT !.next = n]
                     ELSE IF d = n THEN [g.cell[d] EXCEPT !.prev = p]
                     ELSE g.cell[d]]
  BY <1>2 DEF Unlinked
<1> HIDE DEF r, n, p
<1>4. \A b \in Buckets(hash_bits) : r.head[b] = IF p = <<"head", b>> THEN n ELSE g.head[b]
  BY <1>3
\* The fields of an entry that is not deleted.
<1>5. \A d \in Cells : d # c => r.cell[d] = IF p = <<"next", d>> THEN [g.cell[d] EXCEPT !.next = n]
                                           ELSE IF d = n THEN [g.cell[d] EXCEPT !.prev = p]
                                           ELSE g.cell[d]
  BY <1>3
<1>6. r.cell[c] = NULL
  BY <1>1, <1>3
<1>7. \A x \in Entry : /\ [x EXCEPT !.next = n] \in Entry
                      /\ [x EXCEPT !.next = n].next = n
                      /\ [x EXCEPT !.next = n].prev = x.prev
                      /\ [x EXCEPT !.next = n].dst = x.dst
                      /\ [x EXCEPT !.next = n].port = x.port
                      /\ [x EXCEPT !.next = n].age = x.age
  BY <1>1 DEF Entry
<1>8. \A x \in Entry : /\ [x EXCEPT !.prev = p] \in Entry
                      /\ [x EXCEPT !.prev = p].next = x.next
                      /\ [x EXCEPT !.prev = p].prev = p
                      /\ [x EXCEPT !.prev = p].dst = x.dst
                      /\ [x EXCEPT !.prev = p].port = x.port
                      /\ [x EXCEPT !.prev = p].age = x.age
  BY <1>1 DEF Entry
\* The pointers of the entry lead to entries, not to free memory.
<1>9. ASSUME NEW d \in Cells, d # c, d \in Alloc(g)
      PROVE  /\ r.cell[d] \in Entry
             /\ Same(g, r, d)
             /\ r.cell[d].next = IF p = <<"next", d>> THEN n ELSE g.cell[d].next
             /\ d # n => r.cell[d].prev = g.cell[d].prev
             /\ d = n /\ p # <<"next", d>> => r.cell[d].prev = p
  <2>1. g.cell[d] \in Entry
    BY <1>9, AllocatedEntry
  <2>2. CASE p = <<"next", d>>
    <3>1. r.cell[d] = [g.cell[d] EXCEPT !.next = n]
      BY <1>5, <1>9, <2>2
    <3> QED BY <1>7, <2>1, <2>2, <3>1 DEF Same
  <2>3. CASE p # <<"next", d>> /\ d = n
    <3>1. r.cell[d] = [g.cell[d] EXCEPT !.prev = p]
      BY <1>5, <1>9, <2>3
    <3> QED BY <1>8, <2>1, <2>3, <3>1 DEF Same
  <2>4. CASE p # <<"next", d>> /\ d # n
    <3>1. r.cell[d] = g.cell[d]
      BY <1>5, <1>9, <2>4
    <3> QED BY <2>1, <2>4, <3>1 DEF Same
  <2> QED BY <2>2, <2>3, <2>4
<1>10. ASSUME NEW d \in Cells, d # c, d \notin Alloc(g), d # n, p # <<"next", d>>
       PROVE  r.cell[d] = NULL
  BY <1>5, <1>10 DEF Alloc
<1>11. n \in Alloc(g) \cup {NULL} /\ \A d \in Cells : p = <<"next", d>> => d \in Alloc(g)
  BY DEF n, p
<1>12. Alloc(r) = Alloc(g) \ {c}
  BY <1>6, <1>9, <1>10, <1>11, NoEntryAssumption, MacTableAssumption DEF Alloc
<1>13. r \in Tables
  <2>1. r.head \in [Buckets(hash_bits) -> Cells \cup {NULL}]
    BY <1>1, <1>2, <1>3
  <2>2. r.cell \in [Cells -> Entry \cup {NULL}]
    <3>1. \A d \in Cells : r.cell[d] \in Entry \cup {NULL}
      BY <1>6, <1>9, <1>10, <1>11, MacTableAssumption
    <3>2. r.cell = [d \in Cells |-> r.cell[d]]
      BY <1>3
    <3> QED BY <3>1, <3>2
  <2> QED BY <1>3, <2>1, <2>2 DEF Tables
<1>14. \A d \in Alloc(r) :
         /\ Same(g, r, d)
         /\ r.cell[d].next = IF p = <<"next", d>> THEN n ELSE g.cell[d].next
         /\ d # n => r.cell[d].prev = g.cell[d].prev
         /\ d = n /\ p # <<"next", d>> => r.cell[d].prev = p
  <2> TAKE d \in Alloc(r)
  <2>1. d \in Cells /\ d # c /\ d \in Alloc(g)
    BY <1>12 DEF Alloc
  <2> QED BY <1>9, <2>1
<1>15. r = [head |-> r.head, cell |-> r.cell]
  BY <1>3
<1> QED BY <1>4, <1>12, <1>13, <1>14, <1>15 DEF r, n, p

LEMMA UnlinkedChained ==
  ASSUME hash_bits \in 0 .. MaxBits,
         NEW g, NEW pos, Chained(g, pos), NEW c \in Alloc(g)
  PROVE  LET r == Unlinked(g, c) IN
         /\ Chained(r, MovedUp(g, pos, c))
         /\ Alloc(r) = Alloc(g) \ {c}
         /\ \A d \in Alloc(r) : Same(g, r, d)
<1> DEFINE r == Unlinked(g, c)
           q == MovedUp(g, pos, c)
           n == g.cell[c].next
           p == g.cell[c].prev
           b0 == Home(g, c)
<1>g. /\ g \in Tables /\ pos \in [Cells -> Nat]
      /\ \A d \in Alloc(g) : d \in Cells /\ pos[d] \in Nat /\ Home(g, d) \in Buckets(hash_bits)
  <2>1. \A d \in Alloc(g) : d \in Cells /\ pos[d] \in Nat
    BY DEF Alloc, Chained
  <2>2. \A d \in Alloc(g) : Home(g, d) \in Buckets(hash_bits)
    BY AllocatedEntry, BucketType DEF Chained, Home
  <2> QED BY <2>1, <2>2 DEF Chained
<1>heads. \A b \in Buckets(hash_bits) : g.head[b] # NULL =>
            g.head[b] \in Alloc(g) /\ Home(g, g.head[b]) = b /\ pos[g.head[b]] = 0
  BY DEF Chained, HeadsFirst, At
<1>nexts. \A d \in Alloc(g) : g.cell[d].next # NULL =>
            /\ g.cell[d].next \in Alloc(g)
            /\ Home(g, g.cell[d].next) = Home(g, d) /\ pos[g.cell[d].next] = pos[d] + 1
  BY DEF Chained, NextsFollow, At
<1>firsts. \A d \in Alloc(g) : pos[d] = 0 =>
             g.head[Home(g, d)] = d /\ g.cell[d].prev = <<"head", Home(g, d)>>
  BY DEF Chained, FirstsPointed
<1>others. \A d \in Alloc(g) : pos[d] # 0 =>
             \E e \in Alloc(g) : /\ Home(g, e) = Home(g, d) /\ pos[e] = pos[d] - 1
                                 /\ g.cell[e].next = d /\ g.cell[d].prev = <<"next", e>>
  BY DEF Chained, OthersPointed, At
<1>one. \A d, e \in Alloc(g) : Home(g, d) = Home(g, e) /\ pos[d] = pos[e] => d = e
  BY DEF Chained, OnePerPlace
<1>gaps. \A d \in Alloc(g) : \A i \in 0 .. pos[d] :
           \E e \in Alloc(g) : Home(g, e) = Home(g, d) /\ pos[e] = i
  BY DEF Chained, NoGaps, At
\* Where the entry is, and what points at it.
<1>c. /\ c \in Cells /\ pos[c] \in Nat /\ b0 \in Buckets(hash_bits)
      /\ n # NULL => n \in Alloc(g) /\ Home(g, n) = b0 /\ pos[n] = pos[c] + 1
  BY <1>g, <1>nexts
<1>first. pos[c] = 0 => p = <<"head", b0>>
  BY <1>firsts
<1>other. pos[c] # 0 => \E e \in Alloc(g) : /\ Home(g, e) = b0 /\ pos[e] = pos[c] - 1
                                            /\ g.cell[e].next = c /\ p = <<"next", e>>
  BY <1>others
<1>tag. \A b, e : <<"head", b>> # <<"next", e>>
  OBVIOUS
<1>pair. \A s, x, y : <<s, x>> = <<s, y>> => x = y
  OBVIOUS
<1>head. \A b : p = <<"head", b>> <=> pos[c] = 0 /\ b = b0
  BY <1>first, <1>other, <1>tag, <1>pair
<1>prev. \A e \in Cells : p = <<"next", e>> =>
           /\ pos[c] # 0 /\ e \in Alloc(g) /\ Home(g, e) = b0 /\ pos[e] = pos[c] - 1
           /\ g.cell[e].next = c
  BY <1>first, <1>other, <1>tag, <1>pair
<1>before. \A e \in Alloc(g) : g.cell[e].next = c => p = <<"next", e>>
  <2> TAKE e \in Alloc(g)
  <2> HAVE g.cell[e].next = c
  <2>1. c # NULL
    BY <1>c, MacTableAssumption
  <2>2. Home(g, e) = b0 /\ pos[c] = pos[e] + 1
    BY <1>nexts, <2>1
  <2>3. PICK f \in Alloc(g) : Home(g, f) = b0 /\ pos[f] = pos[c] - 1 /\ p = <<"next", f>>
    BY <1>g, <1>other, <2>2
  <2>4. e = f
    BY <1>g, <1>one, <2>2, <2>3
  <2> QED BY <2>3, <2>4
<1> HIDE DEF n, p, b0
<1>fields. /\ r = [head |-> r.head, cell |-> r.cell]
           /\ \A b \in Buckets(hash_bits) :
                r.head[b] = IF p = <<"head", b>> THEN n ELSE g.head[b]
           /\ r \in Tables
           /\ Alloc(r) = Alloc(g) \ {c}
           /\ \A d \in Alloc(r) :
                /\ Same(g, r, d)
                /\ r.cell[d].next = IF p = <<"next", d>> THEN n ELSE g.cell[d].next
                /\ d # n => r.cell[d].prev = g.cell[d].prev
                /\ d = n /\ p # <<"next", d>> => r.cell[d].prev = p
  <2>1. n \in Alloc(g) \cup {NULL}
    BY <1>c
  <2>2. \A d \in Cells : p = <<"next", d>> => d \in Alloc(g)
    BY <1>prev
  <2> QED BY <1>g, <2>1, <2>2, UnlinkedFields DEF n, p
<1> HIDE DEF r
<1>alloc. \A d \in Alloc(r) : /\ d \in Alloc(g) /\ d # c /\ d \in Cells
                              /\ Home(r, d) = Home(g, d)
                              /\ pos[d] \in Nat /\ Home(g, d) \in Buckets(hash_bits)
  BY <1>g, <1>fields DEF Home, Same
<1>back. \A d \in Alloc(g) : d # c => d \in Alloc(r)
  BY <1>fields
<1>q. /\ q \in [Cells -> Nat]
      /\ \A d \in Alloc(r) : q[d] = IF Home(g, d) = b0 /\ pos[c] < pos[d]
                                    THEN pos[d] - 1 ELSE pos[d]
  <2>1. \A d \in Cells : q[d] = IF /\ d \in Alloc(g) /\ Home(g, d) = b0
                                   /\ pos[c] < pos[d]
                                THEN pos[d] - 1 ELSE pos[d]
    BY DEF MovedUp, b0
  <2>2. q = [d \in Cells |-> q[d]]
    BY DEF MovedUp
  <2> HIDE DEF q
  <2>3. \A d \in Cells : q[d] \in Nat
    BY <1>g, <1>c, <2>1
  <2> QED BY <1>alloc, <2>1, <2>2, <2>3
<1> HIDE DEF q
\* Beside the entry in its chain nobody has its place.
<1>apart. \A d \in Alloc(r) : Home(g, d) = b0 => pos[d] # pos[c]
  BY <1>one, <1>alloc DEF b0
<1>1. HeadsFirst(r, q)
  <2> SUFFICES ASSUME NEW b \in Buckets(hash_bits), r.head[b] # NULL
               PROVE  At(r, q, r.head[b], b, 0)
    BY DEF HeadsFirst
  <2>1. CASE p = <<"head", b>>
    <3>1. r.head[b] = n /\ pos[c] = 0 /\ b = b0
      BY <1>fields, <1>head, <2>1
    <3>2. n \in Alloc(g) /\ Home(g, n) = b /\ pos[n] = 1
      BY <1>c, <3>1
    <3>3. n \in Alloc(r)
      BY <1>back, <3>1, <3>2
    <3> QED BY <1>alloc, <1>q, <3>1, <3>2, <3>3 DEF At
  <2>2. CASE p # <<"head", b>>
    <3>1. r.head[b] = g.head[b]
      BY <1>fields, <2>2
    <3>2. g.head[b] \in Alloc(g) /\ Home(g, g.head[b]) = b /\ pos[g.head[b]] = 0
      BY <1>heads, <3>1
    <3>3. g.head[b] # c
      BY <1>head, <2>2, <3>2 DEF b0
    <3>4. g.head[b] \in Alloc(r)
      BY <1>back, <3>2, <3>3
    <3> QED BY <1>c, <1>alloc, <1>q, <3>1, <3>2, <3>4 DEF At
  <2> QED BY <2>1, <2>2
<1>2. NextsFollow(r, q)
  <2> SUFFICES ASSUME NEW d \in Alloc(r), r.cell[d].next # NULL
               PROVE  At(r, q, r.cell[d].next, Home(r, d), q[d] + 1)
    BY DEF NextsFollow
  <2>1. CASE p = <<"next", d>>
    <3>1. r.cell[d].next = n /\ Home(g, d) = b0 /\ pos[d] = pos[c] - 1
      BY <1>fields, <1>prev, <1>alloc, <2>1
    <3>2. n \in Alloc(g) /\ Home(g, n) = b0 /\ pos[n] = pos[c] + 1
      BY <1>c, <3>1
    <3>3. n \in Alloc(r)
      BY <1>c, <1>back, <3>2
    <3> QED BY <1>c, <1>alloc, <1>q, <3>1, <3>2, <3>3 DEF At
  <2>2. CASE p # <<"next", d>>
    <3> DEFINE e == g.cell[d].next
    <3>1. r.cell[d].next = e
      BY <1>fields, <2>2
    <3>2. e \in Alloc(g) /\ Home(g, e) = Home(g, d) /\ pos[e] = pos[d] + 1 /\ e # c
      BY <1>nexts, <1>alloc, <1>before, <2>2, <3>1
    <3> HIDE DEF e
    <3>3. e \in Alloc(r)
      BY <1>back, <3>2
    <3>4. q[e] = q[d] + 1
      BY <1>c, <1>alloc, <1>q, <1>apart, <3>2, <3>3
    <3> QED BY <1>alloc, <3>1, <3>2, <3>3, <3>4 DEF At
  <2> QED BY <2>1, <2>2
<1>3. FirstsPointed(r, q)
  <2> SUFFICES ASSUME NEW d \in Alloc(r), q[d] = 0
               PROVE  r.head[Home(r, d)] = d /\ r.cell[d].prev = <<"head", Home(r, d)>>
    BY DEF FirstsPointed
  <2>1. CASE pos[d] = 0
    <3>1. g.head[Home(g, d)] = d /\ g.cell[d].prev = <<"head", Home(g, d)>>
      BY <1>firsts, <1>alloc, <2>1
    <3>2. p # <<"head", Home(g, d)>>
      BY <1>head, <1>apart, <2>1
    <3>3. d # n
      BY <1>c, <1>alloc, <2>1, MacTableAssumption
    <3> QED BY <1>fields, <1>alloc, <3>1, <3>2, <3>3
  <2>2. CASE pos[d] # 0
    <3>1. Home(g, d) = b0 /\ pos[c] = 0 /\ pos[d] = 1
      BY <1>c, <1>alloc, <1>q, <2>2
    <3>2. PICK e \in Alloc(g) : Home(g, e) = b0 /\ pos[e] = 0 /\ g.cell[e].next = d
      BY <1>others, <1>alloc, <3>1
    <3>3. e = c
      BY <1>one, <3>1, <3>2 DEF b0
    <3>4. n = d /\ p = <<"head", b0>>
      BY <1>head, <3>1, <3>2, <3>3 DEF n
    <3>5. p # <<"next", d>>
      BY <1>tag, <3>4
    <3> QED BY <1>fields, <1>alloc, <1>c, <3>1, <3>4, <3>5
  <2> QED BY <2>1, <2>2
<1>4. OthersPointed(r, q)
  <2> SUFFICES ASSUME NEW d \in Alloc(r), q[d] # 0
               PROVE  \E e \in Cells : /\ At(r, q, e, Home(r, d), q[d] - 1)
                                       /\ r.cell[e].next = d
                                       /\ r.cell[d].prev = <<"next", e>>
    BY DEF OthersPointed
  <2>1. pos[d] # 0
    BY <1>alloc, <1>q
  <2>2. PICK e \in Alloc(g) : /\ Home(g, e) = Home(g, d) /\ pos[e] = pos[d] - 1
                              /\ g.cell[e].next = d /\ g.cell[d].prev = <<"next", e>>
    BY <1>others, <1>alloc, <2>1
  <2>3. CASE e = c
    <3>1. n = d /\ Home(g, d) = b0 /\ pos[d] = pos[c] + 1
      BY <1>c, <1>alloc, <2>2, <2>3 DEF n, b0
    <3>2. q[d] = pos[c]
      BY <1>c, <1>alloc, <1>q, <3>1
    <3>3. PICK f \in Alloc(g) : Home(g, f) = b0 /\ pos[f] = pos[c] - 1 /\ p = <<"next", f>>
      BY <1>other, <3>2 DEF p, b0
    <3>4. f # c /\ f # d
      BY <1>c, <3>1, <3>3
    <3>5. f \in Alloc(r) /\ f \in Cells
      BY <1>g, <1>back, <3>3, <3>4
    <3>6. At(r, q, f, Home(r, d), q[d] - 1)
      BY <1>c, <1>alloc, <1>q, <3>1, <3>2, <3>3, <3>5 DEF At
    <3>7. p # <<"next", d>>
      BY <1>pair, <3>3, <3>4
    <3>8. r.cell[f].next = d /\ r.cell[d].prev = <<"next", f>>
      BY <1>fields, <3>1, <3>3, <3>5, <3>7
    <3> QED BY <3>5, <3>6, <3>8
  <2>4. CASE e # c
    <3>1. e \in Alloc(r) /\ e \in Cells
      BY <1>g, <1>back, <2>2, <2>4
    <3>2. p # <<"next", e>>
      BY <1>prev, <1>alloc, <2>2, <3>1
    <3>3. d # n
      <4> SUFFICES ASSUME d = n PROVE FALSE
        OBVIOUS
      <4>1. Home(g, d) = b0 /\ pos[d] = pos[c] + 1
        BY <1>c, <1>alloc, MacTableAssumption
      <4>2. pos[e] = pos[c] /\ Home(g, e) = b0
        BY <1>c, <2>2, <4>1
      <4> QED BY <1>apart, <3>1, <4>2
    <3>4. r.cell[e].next = d /\ r.cell[d].prev = <<"next", e>>
      BY <1>fields, <2>2, <3>1, <3>2, <3>3
    <3>5. q[e] = q[d] - 1
      BY <1>c, <1>alloc, <1>q, <1>apart, <2>1, <2>2, <3>1
    <3>6. At(r, q, e, Home(r, d), q[d] - 1)
      BY <1>alloc, <2>2, <3>1, <3>5 DEF At
    <3> QED BY <3>1, <3>4, <3>6
  <2> QED BY <2>3, <2>4
<1>5. OnePerPlace(r, q)
  <2> SUFFICES ASSUME NEW d \in Alloc(r), NEW e \in Alloc(r),
                      Home(r, d) = Home(r, e), q[d] = q[e]
               PROVE  d = e
    BY DEF OnePerPlace
  <2>1. pos[d] = pos[e] /\ Home(g, d) = Home(g, e)
    BY <1>c, <1>alloc, <1>q, <1>apart
  <2> QED BY <1>one, <1>alloc, <2>1
<1>6. NoGaps(r, q)
  <2> SUFFICES ASSUME NEW d \in Alloc(r), NEW i \in 0 .. q[d]
               PROVE  \E e \in Cells : At(r, q, e, Home(r, d), i)
    BY DEF NoGaps
  <2>1. i \in Nat /\ pos[d] \in Nat /\ i <= q[d] /\ i <= pos[d]
    BY <1>alloc, <1>q
  <2>2. CASE Home(g, d) = b0 /\ pos[c] <= i
    <3>1. pos[c] < pos[d] /\ i + 1 \in 0 .. pos[d]
      BY <1>c, <1>alloc, <1>q, <1>apart, <2>1, <2>2
    <3>2. PICK e \in Alloc(g) : Home(g, e) = b0 /\ pos[e] = i + 1
      BY <1>alloc, <1>gaps, <2>2, <3>1
    <3>3. e # c
      BY <1>c, <2>1, <2>2, <3>2
    <3>4. e \in Alloc(r) /\ e \in Cells
      BY <1>g, <1>back, <3>2, <3>3
    <3>5. q[e] = i
      BY <1>c, <1>q, <2>1, <2>2, <3>2, <3>4
    <3> QED BY <1>alloc, <2>2, <3>2, <3>4, <3>5 DEF At
  <2>3. CASE ~(Home(g, d) = b0 /\ pos[c] <= i)
    <3>1. i \in 0 .. pos[d]
      BY <1>alloc, <2>1
    <3>2. PICK e \in Alloc(g) : Home(g, e) = Home(g, d) /\ pos[e] = i
      BY <1>alloc, <1>gaps, <3>1
    <3>3. e # c
      BY <1>c, <2>1, <2>3, <3>2 DEF b0
    <3>4. e \in Alloc(r) /\ e \in Cells
      BY <1>g, <1>back, <3>2, <3>3
    <3>5. q[e] = i
      BY <1>c, <1>q, <2>1, <2>3, <3>2, <3>4
    <3> QED BY <1>alloc, <3>2, <3>4, <3>5 DEF At
  <2> QED BY <2>2, <2>3
<1>7. OneEntry(r)
  BY <1>fields, <1>alloc DEF Chained, OneEntry, Same
<1> QED BY <1>1, <1>2, <1>3, <1>4, <1>5, <1>6, <1>7, <1>q, <1>fields DEF Chained, r, q

(***************************************************************************)
(* A new entry at the head of its chain: the others there move down.       *)
(***************************************************************************)
MovedDown(g, pos, c, b) ==
  [d \in Cells |-> IF d = c THEN 0
                   ELSE IF d \in Alloc(g) /\ Home(g, d) = b THEN pos[d] + 1 ELSE pos[d]]

LEMMA LinkedChained ==
  ASSUME hash_bits \in 0 .. MaxBits,
         NEW pos, Chained(h, pos), NEW c \in Cells \ Allocated,
         NEW k \in Keys, \A d \in Alloc(h) : h.cell[d].dst # k, NEW port \in Ports
  PROVE  LET r == Linked(c, k, port) IN
         /\ Chained(r, MovedDown(h, pos, c, Bucket(k)))
         /\ Alloc(r) = Alloc(h) \cup {c}
         /\ r.cell[c].dst = k /\ r.cell[c].port = port /\ r.cell[c].age = 0
         /\ \A d \in Alloc(h) : Same(h, r, d)
<1> DEFINE r == Linked(c, k, port)
           b == Bucket(k)
           f == h.head[b]
           q == MovedDown(h, pos, c, b)
           new == [dst |-> k, port |-> port, age |-> 0, next |-> f, prev |-> <<"head", b>>]
<1>g. /\ h \in Tables /\ pos \in [Cells -> Nat]
      /\ b \in Buckets(hash_bits) /\ b \in Buckets(MaxBits)
      /\ c \in Cells /\ c \notin Alloc(h)
      /\ \A d \in Alloc(h) : d \in Cells /\ d # c /\ pos[d] \in Nat /\ h.cell[d] \in Entry
  <2>1. h \in Tables /\ pos \in [Cells -> Nat]
    BY DEF Chained
  <2>2. b \in Buckets(hash_bits) /\ b \in Buckets(MaxBits)
    BY BucketType, HeadAddress
  <2>3. c \in Cells /\ c \notin Alloc(h)
    BY DEF Alloc, Allocated
  <2>4. \A d \in Alloc(h) : d \in Cells /\ d # c /\ pos[d] \in Nat /\ h.cell[d] \in Entry
    BY <2>1, <2>3, AllocatedEntry DEF Alloc
  <2> QED BY <2>1, <2>2, <2>3, <2>4
<1>homes. \A d \in Alloc(h) : Home(h, d) \in Buckets(hash_bits)
  BY <1>g, AllocatedEntry, BucketType DEF Home
<1>t. /\ h.head \in [Buckets(hash_bits) -> Cells \cup {NULL}]
      /\ h.cell \in [Cells -> Entry \cup {NULL}]
      /\ f \in Cells \cup {NULL}
  BY <1>g DEF Tables
<1>heads. \A a \in Buckets(hash_bits) : h.head[a] # NULL =>
            h.head[a] \in Alloc(h) /\ Home(h, h.head[a]) = a /\ pos[h.head[a]] = 0
  BY DEF Chained, HeadsFirst, At
<1>nexts. \A d \in Alloc(h) : h.cell[d].next # NULL =>
            /\ h.cell[d].next \in Alloc(h)
            /\ Home(h, h.cell[d].next) = Home(h, d) /\ pos[h.cell[d].next] = pos[d] + 1
  BY DEF Chained, NextsFollow, At
<1>firsts. \A d \in Alloc(h) : pos[d] = 0 =>
             h.head[Home(h, d)] = d /\ h.cell[d].prev = <<"head", Home(h, d)>>
  BY DEF Chained, FirstsPointed
<1>others. \A d \in Alloc(h) : pos[d] # 0 =>
             \E e \in Alloc(h) : /\ Home(h, e) = Home(h, d) /\ pos[e] = pos[d] - 1
                                 /\ h.cell[e].next = d /\ h.cell[d].prev = <<"next", e>>
  BY DEF Chained, OthersPointed, At
<1>one. \A d, e \in Alloc(h) : Home(h, d) = Home(h, e) /\ pos[d] = pos[e] => d = e
  BY DEF Chained, OnePerPlace
<1>gaps. \A d \in Alloc(h) : \A i \in 0 .. pos[d] :
           \E e \in Alloc(h) : Home(h, e) = Home(h, d) /\ pos[e] = i
  BY DEF Chained, NoGaps, At
<1>f. f # NULL => f \in Alloc(h) /\ Home(h, f) = b /\ pos[f] = 0
  BY <1>g, <1>heads
<1>new. /\ new \in Entry
        /\ new.dst = k /\ new.port = port /\ new.age = 0
        /\ new.next = f /\ new.prev = <<"head", b>>
  <2>1. 0 \in 0 .. MaxAge
    BY MacTableAssumption
  <2>2. <<"head", b>> \in {"head"} \X Buckets(MaxBits)
    BY <1>g
  <2> QED BY <1>t, <2>1, <2>2 DEF Entry
<1>r. /\ r = [head |-> r.head, cell |-> r.cell]
      /\ r.head = [h.head EXCEPT ![b] = c]
      /\ r.cell = [d \in Cells |-> IF d = c THEN new
                                   ELSE IF d = f THEN [h.cell[d] EXCEPT !.prev = <<"next", c>>]
                                   ELSE h.cell[d]]
  BY DEF Linked
<1> HIDE DEF b, f, new
<1>qq. \A d \in Cells : q[d] = IF d = c THEN 0
                               ELSE IF d \in Alloc(h) /\ Home(h, d) = b THEN pos[d] + 1 ELSE pos[d]
  BY DEF MovedDown
<1>qf. q = [d \in Cells |-> q[d]]
  BY DEF MovedDown
<1> HIDE DEF r, q
<1>push. \A x \in Entry : LET y == [x EXCEPT !.prev = <<"next", c>>] IN
           /\ y \in Entry /\ y.prev = <<"next", c>> /\ y.next = x.next
           /\ y.dst = x.dst /\ y.port = x.port /\ y.age = x.age
  <2>1. <<"next", c>> \in {"next"} \X Cells
    BY <1>g
  <2> QED BY <2>1 DEF Entry
<1>head. \A a \in Buckets(hash_bits) : r.head[a] = IF a = b THEN c ELSE h.head[a]
  BY <1>g, <1>t, <1>r
<1>old. ASSUME NEW d \in Alloc(h)
        PROVE  /\ r.cell[d] \in Entry /\ Same(h, r, d)
               /\ r.cell[d].next = h.cell[d].next
               /\ d = f => r.cell[d].prev = <<"next", c>>
               /\ d # f => r.cell[d].prev = h.cell[d].prev
  <2>1. CASE d = f
    <3>1. r.cell[d] = [h.cell[d] EXCEPT !.prev = <<"next", c>>]
      BY <1>g, <1>r, <2>1
    <3> QED BY <1>g, <1>push, <2>1, <3>1 DEF Same
  <2>2. CASE d # f
    <3>1. r.cell[d] = h.cell[d]
      BY <1>g, <1>r, <2>2
    <3> QED BY <1>g, <2>2, <3>1 DEF Same
  <2> QED BY <2>1, <2>2
<1>c. r.cell[c] = new
  BY <1>g, <1>r
<1>free. ASSUME NEW d \in Cells, d # c, d \notin Alloc(h) PROVE r.cell[d] = NULL
  <2>1. h.cell[d] = NULL
    BY <1>free DEF Alloc
  <2>2. d # f
    BY <1>f, <1>free, MacTableAssumption
  <2> QED BY <1>r, <1>free, <2>1, <2>2
<1>alloc. Alloc(r) = Alloc(h) \cup {c}
  BY <1>g, <1>old, <1>c, <1>new, <1>free, NoEntryAssumption DEF Alloc
<1>type. r \in Tables
  <2>1. r.head \in [Buckets(hash_bits) -> Cells \cup {NULL}]
    BY <1>g, <1>t, <1>r
  <2>2. \A d \in Cells : r.cell[d] \in Entry \cup {NULL}
    BY <1>old, <1>c, <1>new, <1>free
  <2>3. r.cell = [d \in Cells |-> r.cell[d]]
    BY <1>r
  <2> QED BY <1>r, <2>1, <2>2, <2>3 DEF Tables
<1>home. Home(r, c) = b /\ \A d \in Alloc(h) : Home(r, d) = Home(h, d)
  BY <1>old, <1>c, <1>new DEF Home, Same, b
<1>q. /\ q \in [Cells -> Nat] /\ q[c] = 0
      /\ \A d \in Alloc(h) : q[d] = IF Home(h, d) = b THEN pos[d] + 1 ELSE pos[d]
  <2>1. \A d \in Cells : q[d] \in Nat
    BY <1>g, <1>qq
  <2> QED BY <1>g, <1>qq, <1>qf, <2>1
<1>1. HeadsFirst(r, q)
  BY <1>head, <1>heads, <1>g, <1>alloc, <1>home, <1>q DEF HeadsFirst, At
<1>2. NextsFollow(r, q)
  <2> SUFFICES ASSUME NEW d \in Alloc(r), r.cell[d].next # NULL
               PROVE  At(r, q, r.cell[d].next, Home(r, d), q[d] + 1)
    BY DEF NextsFollow
  <2>1. CASE d = c
    <3>1. r.cell[d].next = f /\ f # NULL
      BY <1>c, <1>new, <2>1
    <3>2. q[f] = 1
      BY <1>f, <1>q, <3>1
    <3> QED BY <1>f, <1>alloc, <1>home, <1>q, <2>1, <3>1, <3>2 DEF At
  <2>2. CASE d \in Alloc(h)
    <3> DEFINE e == h.cell[d].next
    <3>1. r.cell[d].next = e /\ e # NULL
      BY <1>old, <2>2
    <3>2. e \in Alloc(h) /\ Home(h, e) = Home(h, d) /\ pos[e] = pos[d] + 1
      BY <1>nexts, <2>2, <3>1
    <3> HIDE DEF e
    <3>3. q[e] = q[d] + 1
      BY <1>g, <1>q, <2>2, <3>2
    <3> QED BY <1>alloc, <1>home, <2>2, <3>1, <3>2, <3>3 DEF At
  <2> QED BY <1>alloc, <2>1, <2>2
<1>3. FirstsPointed(r, q)
  <2> SUFFICES ASSUME NEW d \in Alloc(r), q[d] = 0
               PROVE  r.head[Home(r, d)] = d /\ r.cell[d].prev = <<"head", Home(r, d)>>
    BY DEF FirstsPointed
  <2>1. CASE d = c
    BY <1>g, <1>head, <1>home, <1>c, <1>new, <2>1
  <2>2. CASE d \in Alloc(h)
    <3>1. Home(h, d) # b /\ pos[d] = 0
      BY <1>g, <1>q, <2>2
    <3>2. d # f
      BY <1>f, <1>g, <2>2, <3>1, MacTableAssumption
    <3> QED BY <1>head, <1>home, <1>homes, <1>old, <1>firsts, <2>2, <3>1, <3>2
  <2> QED BY <1>alloc, <2>1, <2>2
<1>4. OthersPointed(r, q)
  <2> SUFFICES ASSUME NEW d \in Alloc(r), q[d] # 0
               PROVE  \E e \in Cells : /\ At(r, q, e, Home(r, d), q[d] - 1)
                                       /\ r.cell[e].next = d
                                       /\ r.cell[d].prev = <<"next", e>>
    BY DEF OthersPointed
  <2>1. d \in Alloc(h)
    BY <1>alloc, <1>q
  <2>2. CASE d = f
    <3>1. q[d] = 1 /\ Home(r, d) = b
      BY <1>f, <1>g, <1>q, <1>home, <2>1, <2>2, MacTableAssumption
    <3>2. At(r, q, c, Home(r, d), q[d] - 1)
      BY <1>alloc, <1>home, <1>q, <3>1 DEF At
    <3> QED BY <1>g, <1>c, <1>new, <1>old, <2>1, <2>2, <3>2
  <2>3. CASE d # f
    <3>1. pos[d] # 0
      <4> SUFFICES ASSUME pos[d] = 0 PROVE FALSE
        OBVIOUS
      <4>1. Home(h, d) = b
        BY <1>q, <2>1
      <4>2. h.head[b] = d
        BY <1>firsts, <2>1, <4>1
      <4> QED BY <2>3, <4>2 DEF f
    <3>2. PICK e \in Alloc(h) : /\ Home(h, e) = Home(h, d) /\ pos[e] = pos[d] - 1
                                /\ h.cell[e].next = d /\ h.cell[d].prev = <<"next", e>>
      BY <1>others, <2>1, <3>1
    <3>3. q[e] = q[d] - 1
      BY <1>g, <1>q, <2>1, <3>2
    <3>4. At(r, q, e, Home(r, d), q[d] - 1)
      BY <1>alloc, <1>home, <2>1, <3>2, <3>3 DEF At
    <3> QED BY <1>g, <1>old, <2>1, <2>3, <3>2, <3>4
  <2> QED BY <2>2, <2>3
<1>5. OnePerPlace(r, q)
  <2> SUFFICES ASSUME NEW d \in Alloc(r), NEW e \in Alloc(r),
                      Home(r, d) = Home(r, e), q[d] = q[e]
               PROVE  d = e
    BY DEF OnePerPlace
  <2>1. CASE d \in Alloc(h) /\ e \in Alloc(h)
    <3>1. pos[d] = pos[e] /\ Home(h, d) = Home(h, e)
      BY <1>g, <1>q, <1>home, <2>1
    <3> QED BY <1>one, <2>1, <3>1
  <2>2. CASE d = c
    <3>1. e \notin Alloc(h)
      <4> SUFFICES ASSUME e \in Alloc(h) PROVE FALSE
        OBVIOUS
      <4>1. Home(h, e) = b
        BY <1>home, <2>2
      <4>2. q[e] = pos[e] + 1 /\ pos[e] \in Nat
        BY <1>g, <1>q, <4>1
      <4>3. q[e] = 0
        BY <1>q, <2>2
      <4> QED BY <4>2, <4>3
    <3> QED BY <1>alloc, <2>2, <3>1
  <2>3. CASE e = c
    <3>1. d \notin Alloc(h)
      BY <1>g, <1>q, <1>home, <2>3
    <3> QED BY <1>alloc, <2>3, <3>1
  <2> QED BY <1>alloc, <2>1, <2>2, <2>3
<1>6. NoGaps(r, q)
  <2> SUFFICES ASSUME NEW d \in Alloc(r), NEW i \in 0 .. q[d]
               PROVE  \E e \in Cells : At(r, q, e, Home(r, d), i)
    BY DEF NoGaps
  <2>1. CASE d = c
    BY <1>g, <1>alloc, <1>q, <2>1 DEF At
  <2>2. CASE d \in Alloc(h) /\ Home(h, d) = b
    <3>1. i \in Nat /\ i <= pos[d] + 1
      BY <1>g, <1>q, <2>2
    <3>2. CASE i = 0
      BY <1>g, <1>alloc, <1>home, <1>q, <2>2, <3>2 DEF At
    <3>3. CASE i # 0
      <4>1. i - 1 \in 0 .. pos[d]
        BY <1>g, <2>2, <3>1, <3>3
      <4>2. PICK e \in Alloc(h) : Home(h, e) = b /\ pos[e] = i - 1
        BY <1>gaps, <2>2, <4>1
      <4>3. q[e] = i
        BY <1>q, <3>1, <4>2
      <4> QED BY <1>g, <1>alloc, <1>home, <2>2, <4>2, <4>3 DEF At
    <3> QED BY <3>2, <3>3
  <2>3. CASE d \in Alloc(h) /\ Home(h, d) # b
    <3>1. PICK e \in Alloc(h) : Home(h, e) = Home(h, d) /\ pos[e] = i
      BY <1>gaps, <1>q, <2>3
    <3> QED BY <1>g, <1>alloc, <1>home, <1>q, <2>3, <3>1 DEF At
  <2> QED BY <1>alloc, <2>1, <2>2, <2>3
<1>7. OneEntry(r)
  BY <1>alloc, <1>old, <1>c, <1>new DEF Chained, OneEntry, Same
<1> QED BY <1>1, <1>2, <1>3, <1>4, <1>5, <1>6, <1>7, <1>q, <1>type, <1>alloc, <1>old, <1>c, <1>new
        DEF Chained, r, q, b
-----------------------------------------------------------------------------
(***************************************************************************)
(* The walks of the chains.  A chain with no gaps and one entry for each   *)
(* place is not longer than the heap.                                      *)
(***************************************************************************)
LEMMA LengthNat == Length \in Nat
  BY MacTableAssumption, FS_CardinalityType DEF Length

LEMMA PlaceBound ==
  ASSUME NEW g, NEW pos, Chained(g, pos), NEW c \in Alloc(g)
  PROVE  pos[c] \in 0 .. Length - 1
<1> DEFINE n == pos[c]
           S == 0 .. n
           at == [i \in S |-> CHOOSE d \in Cells : At(g, pos, d, Home(g, c), i)]
<1>1. n \in Nat
  BY DEF Chained, Alloc
<1>2. \A i \in S : at[i] \in Cells /\ pos[at[i]] = i
  <2> TAKE i \in S
  <2>1. \E d \in Cells : At(g, pos, d, Home(g, c), i)
    BY DEF Chained, NoGaps
  <2>2. at[i] \in Cells /\ At(g, pos, at[i], Home(g, c), i)
    BY <2>1
  <2> QED BY <2>2 DEF At
<1>3. at \in Injection(S, Cells)
  <2>1. at = [i \in S |-> at[i]] /\ DOMAIN at = S
    OBVIOUS
  <2> HIDE DEF at
  <2>2. at \in [S -> Cells]
    BY <1>2, <2>1
  <2>3. \A i, j \in DOMAIN at : at[i] = at[j] => i = j
    BY <1>2, <2>1
  <2> QED BY <2>2, <2>3 DEF Injection, IsInjective
<1>4. Cardinality(S) <= Length
  <2> HIDE DEF at, S
  <2> QED BY <1>3, FS_Injection, MacTableAssumption DEF Length
<1>5. Cardinality(S) = n + 1
  <2>1. 0 \in Int /\ n \in Int /\ ~(0 > n)
    BY <1>1
  <2>2. Cardinality(0 .. n) = IF 0 > n THEN 0 ELSE n - 0 + 1
    <3> HIDE DEF n
    <3> QED BY <2>1, FS_Interval
  <2> QED BY <1>1, <2>1, <2>2
<1> QED BY <1>1, <1>4, <1>5, LengthNat

\* Such a walk is one of the loops.
LEMMA WalkExists ==
  \A S : \A a \in S : \A step \in [S -> S] :
    \E f \in [0 .. Length -> S] :
      f = [i \in 0 .. Length |-> IF i = 0 THEN a ELSE step[f[i - 1]]]
  BY LengthNat, LoopExists

\* Where a chain ends there is no entry that it misses.
LEMMA ChainEnds ==
  ASSUME NEW g, NEW pos, Chained(g, pos)
  PROVE  /\ \A b \in Buckets(hash_bits) : g.head[b] = NULL =>
              \A c \in Alloc(g) : Home(g, c) # b
         /\ \A c \in Alloc(g) : g.cell[c].next = NULL =>
              \A d \in Alloc(g) : Home(g, d) = Home(g, c) => pos[d] <= pos[c]
<1>g. /\ \A c \in Alloc(g) : c \in Cells /\ pos[c] \in Nat
      /\ NULL \notin Cells
  BY MacTableAssumption DEF Chained, Alloc
<1>gaps. \A d \in Alloc(g) : \A i \in 0 .. pos[d] :
           \E e \in Alloc(g) : Home(g, e) = Home(g, d) /\ pos[e] = i
  BY DEF Chained, NoGaps, At
<1>1. ASSUME NEW b \in Buckets(hash_bits), g.head[b] = NULL, NEW c \in Alloc(g), Home(g, c) = b
      PROVE  FALSE
  <2>1. PICK e \in Alloc(g) : Home(g, e) = b /\ pos[e] = 0
    BY <1>1, <1>g, <1>gaps
  <2>2. g.head[b] = e
    BY <2>1 DEF Chained, FirstsPointed
  <2> QED BY <1>1, <1>g, <2>2
<1>2. ASSUME NEW c \in Alloc(g), g.cell[c].next = NULL, NEW d \in Alloc(g),
             Home(g, d) = Home(g, c), pos[c] < pos[d]
      PROVE  FALSE
  <2>1. pos[c] + 1 \in 0 .. pos[d]
    BY <1>2, <1>g
  <2>2. PICK e \in Alloc(g) : Home(g, e) = Home(g, c) /\ pos[e] = pos[c] + 1
    BY <1>2, <1>gaps, <2>1
  <2>3. pos[e] # 0 /\ pos[e] - 1 = pos[c]
    BY <1>g, <2>2
  <2>4. PICK f \in Alloc(g) : Home(g, f) = Home(g, e) /\ pos[f] = pos[e] - 1
                              /\ g.cell[f].next = e
    BY <2>3 DEF Chained, OthersPointed, At
  <2>5. f = c
    BY <2>2, <2>3, <2>4 DEF Chained, OnePerPlace
  <2> QED BY <1>2, <1>g, <2>4, <2>5
<1>3. \A c, d \in Alloc(g) : ~(pos[c] < pos[d]) => pos[d] <= pos[c]
  BY <1>g
<1> QED BY <1>1, <1>2, <1>3

LEMMA ChainIs ==
  ASSUME hash_bits \in 0 .. MaxBits, NEW pos, Chained(h, pos), NEW b \in Buckets(hash_bits)
  PROVE  Chain(b) = {c \in Alloc(h) : Home(h, c) = b}
<1> DEFINE S == Alloc(h) \cup {NULL}
           step == [p \in S |-> Follow(p)]
           at[i \in 0 .. Length] == IF i = 0 THEN h.head[b] ELSE Follow(at[i - 1])
<1>c. \A c \in Alloc(h) : c \in Cells /\ c # NULL /\ pos[c] \in Nat
  BY MacTableAssumption DEF Chained, Alloc
<1>head. h.head[b] # NULL =>
           h.head[b] \in Alloc(h) /\ Home(h, h.head[b]) = b /\ pos[h.head[b]] = 0
  BY DEF Chained, HeadsFirst, At
<1>next. \A c \in Alloc(h) : Follow(c) # NULL =>
           /\ Follow(c) \in Alloc(h)
           /\ Home(h, Follow(c)) = Home(h, c) /\ pos[Follow(c)] = pos[c] + 1
  BY <1>c DEF Chained, NextsFollow, At, Follow
<1>null. Follow(NULL) = NULL
  BY DEF Follow
<1>1. at = [i \in 0 .. Length |-> IF i = 0 THEN h.head[b] ELSE Follow(at[i - 1])]
  <2>1. h.head[b] \in S /\ step \in [S -> S]
    BY <1>head, <1>next, <1>null
  <2>2. PICK f \in [0 .. Length -> S] :
          f = [i \in 0 .. Length |-> IF i = 0 THEN h.head[b] ELSE step[f[i - 1]]]
    <3> DEFINE first == h.head[b]
    <3>1. first \in S /\ step \in [S -> S]
      BY <2>1
    <3> HIDE DEF S, step, first
    <3>2. \E f \in [0 .. Length -> S] :
             f = [i \in 0 .. Length |-> IF i = 0 THEN first ELSE step[f[i - 1]]]
      BY <3>1, WalkExists
    <3> QED BY <3>2 DEF first
  <2>3. \A i \in 0 .. Length : i # 0 => i - 1 \in 0 .. Length
    BY LengthNat
  <2>4. \A i \in 0 .. Length : i # 0 => step[f[i - 1]] = Follow(f[i - 1])
    BY <2>3
  <2>5. f = [i \in 0 .. Length |-> IF i = 0 THEN h.head[b] ELSE Follow(f[i - 1])]
    BY <2>2, <2>4
  <2> QED BY <2>5
<1>2. Chain(b) = {at[i] : i \in 0 .. Length} \ {NULL}
  BY DEF Chain
<1> HIDE DEF at
<1>3. /\ \A i \in 0 .. Length : i = 0 => at[i] = h.head[b]
      /\ \A i \in 0 .. Length : i # 0 => at[i] = Follow(at[i - 1])
  BY <1>1
<1> DEFINE G == {i \in 0 .. Length :
                  \/ at[i] = NULL /\ \A c \in Alloc(h) : Home(h, c) = b => pos[c] < i
                  \/ at[i] \in Alloc(h) /\ Home(h, at[i]) = b /\ pos[at[i]] = i}
<1>4. 0 \in G
  <2>1. at[0] = h.head[b] /\ 0 \in 0 .. Length
    BY <1>3, LengthNat
  <2>2. CASE h.head[b] = NULL
    BY <2>1, <2>2, ChainEnds
  <2>3. CASE h.head[b] # NULL
    BY <1>head, <2>1, <2>3
  <2> QED BY <2>2, <2>3
<1>5. ASSUME NEW i \in 1 .. Length, i - 1 \in G PROVE i \in G
  <2>1. i \in 0 .. Length /\ i # 0 /\ i \in Nat /\ at[i] = Follow(at[i - 1])
    BY <1>3, LengthNat
  <2>2. CASE at[i - 1] = NULL /\ \A c \in Alloc(h) : Home(h, c) = b => pos[c] < i - 1
    <3>1. \A c \in Alloc(h) : Home(h, c) = b => pos[c] < i
      BY <1>c, <2>1, <2>2
    <3> QED BY <1>null, <2>1, <2>2, <3>1
  <2>3. CASE at[i - 1] \in Alloc(h) /\ Home(h, at[i - 1]) = b /\ pos[at[i - 1]] = i - 1
    <3>1. CASE at[i] = NULL
      <4>1. h.cell[at[i - 1]].next = NULL
        BY <1>c, <2>1, <2>3, <3>1 DEF Follow
      <4>2. \A c \in Alloc(h) : Home(h, c) = b => pos[c] <= i - 1
        BY <2>3, <4>1, ChainEnds
      <4>3. \A c \in Alloc(h) : Home(h, c) = b => pos[c] < i
        BY <1>c, <2>1, <4>2
      <4> QED BY <2>1, <3>1, <4>3
    <3>2. CASE at[i] # NULL
      BY <1>next, <2>1, <2>3, <3>2
    <3> QED BY <3>1, <3>2
  <2> QED BY <1>5, <2>2, <2>3
<1>6. \A i \in 0 .. Length : i \in G
  <2> HIDE DEF G
  <2> QED BY <1>4, <1>5, LengthNat, UpTo
<1>7. ASSUME NEW c \in Alloc(h), Home(h, c) = b PROVE c \in Chain(b)
  <2>1. pos[c] \in 0 .. Length /\ pos[c] \in Nat
    BY <1>c, PlaceBound, LengthNat
  <2>2. at[pos[c]] \in Alloc(h) /\ Home(h, at[pos[c]]) = b /\ pos[at[pos[c]]] = pos[c]
    BY <1>6, <1>7, <2>1
  <2>3. at[pos[c]] = c
    BY <1>7, <2>2 DEF Chained, OnePerPlace
  <2> QED BY <1>2, <1>c, <2>1, <2>3
<1>8. \A c \in Chain(b) : c \in Alloc(h) /\ Home(h, c) = b
  BY <1>2, <1>6
<1> QED BY <1>7, <1>8

(***************************************************************************)
(* for_all_hash comes by every entry.                                      *)
(***************************************************************************)
LEMMA VisitedIs ==
  ASSUME hash_bits \in 0 .. MaxBits, NEW pos, Chained(h, pos)
  PROVE  Visited = Alloc(h) /\ Allocated = Alloc(h)
<1>1. \A c \in Alloc(h) : Home(h, c) \in Buckets(hash_bits)
  BY AllocatedEntry, BucketType DEF Chained, Home
<1>2. \A b \in Buckets(hash_bits) : Chain(b) = {c \in Alloc(h) : Home(h, c) = b}
  BY ChainIs
<1>3. Visited = Alloc(h)
  BY <1>1, <1>2 DEF Visited
<1> QED BY <1>3 DEF Alloc, Allocated

(***************************************************************************)
(* The walk of find_in_hash_update stops at the entry of the address when  *)
(* there is one, wherever it is in its chain.                              *)
(***************************************************************************)
LEMMA FoundIs ==
  ASSUME hash_bits \in 0 .. MaxBits, NEW pos, Chained(h, pos), NEW k \in Keys
  PROVE  \/ Found(k) = NULL /\ \A c \in Alloc(h) : h.cell[c].dst # k
         \/ Found(k) \in Alloc(h) /\ h.cell[Found(k)].dst = k
<1> DEFINE b == Bucket(k)
           S == Alloc(h) \cup {NULL}
           step == [p \in S |-> Advance(k, p)]
           at[i \in 0 .. Length] == IF i = 0 THEN h.head[Bucket(k)] ELSE Advance(k, at[i - 1])
           Missed == \A c \in Alloc(h) : h.cell[c].dst # k
<1>b. b \in Buckets(hash_bits)
  BY BucketType
<1>c. \A c \in Alloc(h) : c \in Cells /\ c # NULL /\ pos[c] \in Nat
  BY MacTableAssumption DEF Chained, Alloc
<1>home. \A c \in Alloc(h) : h.cell[c].dst = k => Home(h, c) = b
  BY DEF Home
<1>head. h.head[b] # NULL =>
           h.head[b] \in Alloc(h) /\ Home(h, h.head[b]) = b /\ pos[h.head[b]] = 0
  BY <1>b DEF Chained, HeadsFirst, At
<1>next. \A c \in Alloc(h) : h.cell[c].next # NULL =>
           /\ h.cell[c].next \in Alloc(h)
           /\ Home(h, h.cell[c].next) = Home(h, c) /\ pos[h.cell[c].next] = pos[c] + 1
  BY DEF Chained, NextsFollow, At
<1>one. \A c, d \in Alloc(h) : Home(h, c) = Home(h, d) /\ pos[c] = pos[d] => c = d
  BY DEF Chained, OnePerPlace
<1>adv. /\ Advance(k, NULL) = NULL
        /\ \A c \in Alloc(h) : Advance(k, c) = IF h.cell[c].dst = k THEN c ELSE h.cell[c].next
  BY <1>c DEF Advance
<1>1. at = [i \in 0 .. Length |-> IF i = 0 THEN h.head[Bucket(k)] ELSE Advance(k, at[i - 1])]
  <2>1. h.head[b] \in S /\ step \in [S -> S]
    <3>1. \A p \in S : Advance(k, p) \in S
      BY <1>adv, <1>next
    <3> QED BY <1>head, <3>1
  <2>2. PICK f \in [0 .. Length -> S] :
          f = [i \in 0 .. Length |-> IF i = 0 THEN h.head[b] ELSE step[f[i - 1]]]
    <3> DEFINE first == h.head[b]
    <3>1. first \in S /\ step \in [S -> S]
      BY <2>1
    <3> HIDE DEF S, step, b, first
    <3>2. \E f \in [0 .. Length -> S] :
             f = [i \in 0 .. Length |-> IF i = 0 THEN first ELSE step[f[i - 1]]]
      BY <3>1, WalkExists
    <3> QED BY <3>2 DEF first
  <2>3. \A i \in 0 .. Length : i # 0 => i - 1 \in 0 .. Length
    BY LengthNat
  <2>4. \A i \in 0 .. Length : i # 0 => step[f[i - 1]] = Advance(k, f[i - 1])
    BY <2>3
  <2>5. f = [i \in 0 .. Length |-> IF i = 0 THEN h.head[Bucket(k)] ELSE Advance(k, f[i - 1])]
    BY <2>2, <2>4
  <2> QED BY <2>5
<1>2. Found(k) = at[Length]
  BY DEF Found
<1> HIDE DEF at
<1>3. /\ \A i \in 0 .. Length : i = 0 => at[i] = h.head[b]
      /\ \A i \in 0 .. Length : i # 0 => at[i] = Advance(k, at[i - 1])
  BY <1>1
<1> HIDE DEF b
<1> DEFINE Nothing(i) == at[i] = NULL /\ Missed
           There(i) == at[i] \in Alloc(h) /\ h.cell[at[i]].dst = k
           Before(i) == /\ at[i] \in Alloc(h) /\ Home(h, at[i]) = b /\ pos[at[i]] = i
                        /\ \A c \in Alloc(h) : Home(h, c) = b /\ pos[c] <= i => h.cell[c].dst # k
           G == {i \in 0 .. Length : Nothing(i) \/ There(i) \/ Before(i)}
<1>4. 0 \in G
  <2>1. at[0] = h.head[b] /\ 0 \in 0 .. Length
    BY <1>3, LengthNat
  <2>2. CASE h.head[b] = NULL
    <3>1. Missed
      BY <1>b, <1>home, <2>2, ChainEnds
    <3> QED BY <2>1, <2>2, <3>1
  <2>3. CASE h.head[b] # NULL /\ h.cell[h.head[b]].dst = k
    BY <1>head, <2>1, <2>3
  <2>4. CASE h.head[b] # NULL /\ h.cell[h.head[b]].dst # k
    <3>1. ASSUME NEW c \in Alloc(h), Home(h, c) = b, pos[c] <= 0 PROVE h.cell[c].dst # k
      <4>1. pos[c] = 0
        BY <1>c, <3>1
      <4> QED BY <1>head, <1>one, <2>4, <3>1, <4>1
    <3>2. Before(0)
      BY <1>head, <2>1, <2>4, <3>1
    <3> QED BY <2>1, <3>2
  <2> QED BY <2>2, <2>3, <2>4
<1>5. ASSUME NEW i \in 1 .. Length, i - 1 \in G PROVE i \in G
  <2>1. i \in 0 .. Length /\ i # 0 /\ i \in Nat /\ at[i] = Advance(k, at[i - 1])
    BY <1>3, LengthNat
  <2>2. CASE Nothing(i - 1)
    BY <1>adv, <2>1, <2>2
  <2>3. CASE There(i - 1)
    BY <1>adv, <2>1, <2>3
  <2>4. CASE Before(i - 1) /\ ~There(i - 1)
    <3> DEFINE c == at[i - 1]
    <3>1. c \in Alloc(h) /\ Home(h, c) = b /\ pos[c] = i - 1 /\ at[i] = h.cell[c].next
      BY <1>adv, <2>1, <2>4
    <3>2. \A d \in Alloc(h) : Home(h, d) = b /\ pos[d] <= i - 1 => h.cell[d].dst # k
      BY <2>4
    <3> HIDE DEF c
    <3>3. CASE at[i] = NULL
      <4>1. \A d \in Alloc(h) : Home(h, d) = b => pos[d] <= i - 1
        BY <3>1, <3>3, ChainEnds
      <4>2. Missed
        BY <1>home, <3>2, <4>1
      <4> QED BY <2>1, <3>3, <4>2
    <3>4. CASE at[i] # NULL
      <4>1. at[i] \in Alloc(h) /\ Home(h, at[i]) = b /\ pos[at[i]] = i
        BY <1>next, <2>1, <3>1, <3>4
      <4>2. CASE h.cell[at[i]].dst = k
        BY <2>1, <4>1, <4>2
      <4>3. CASE h.cell[at[i]].dst # k
        <5>1. ASSUME NEW d \in Alloc(h), Home(h, d) = b, pos[d] <= i PROVE h.cell[d].dst # k
          <6>1. CASE pos[d] = i
            BY <1>one, <4>1, <4>3, <5>1, <6>1
          <6>2. CASE pos[d] # i
            <7>1. pos[d] <= i - 1
              BY <1>c, <2>1, <5>1, <6>2
            <7> QED BY <3>2, <5>1, <7>1
          <6> QED BY <6>1, <6>2
        <5>2. Before(i)
          BY <4>1, <5>1
        <5> QED BY <2>1, <5>2
      <4> QED BY <4>2, <4>3
    <3> QED BY <3>3, <3>4
  <2> QED BY <1>5, <2>2, <2>3, <2>4
<1>6. Length \in G
  <2>1. Length \in 0 .. Length
    BY LengthNat
  <2> HIDE DEF G
  <2>2. \A i \in 0 .. Length : i \in G
    BY <1>4, <1>5, LengthNat, UpTo
  <2> QED BY <2>1, <2>2
<1>7. ~Before(Length)
  <2> SUFFICES ASSUME Before(Length) PROVE FALSE
    OBVIOUS
  <2>1. pos[at[Length]] \in 0 .. Length - 1
    BY PlaceBound
  <2> QED BY <2>1, LengthNat
<1> QED BY <1>2, <1>6, <1>7
-----------------------------------------------------------------------------
(***************************************************************************)
(* A walk that deletes the entries of a set, one after the other, is       *)
(* defined for each of its subsets, and leaves a well linked table.        *)
(***************************************************************************)
Picked(T) == CHOOSE d \in T : TRUE

UpToSize(D, n) == {T \in SUBSET D : Cardinality(T) <= n}

Walked(f, D, n) ==
  f = [T \in UpToSize(D, n) |->
         IF T = {} THEN h ELSE Unlinked(f[T \ {Picked(T)}], Picked(T))]

LEMMA Subsets ==
  ASSUME NEW D, IsFiniteSet(D)
  PROVE  /\ Cardinality(D) \in Nat
         /\ UpToSize(D, 0) = {{}}
         /\ UpToSize(D, Cardinality(D)) = SUBSET D
         /\ \A n \in Nat : {} \in UpToSize(D, n)
         /\ \A n \in Nat \ {0} :
              /\ UpToSize(D, n - 1) \subseteq UpToSize(D, n)
              /\ \A T \in UpToSize(D, n) : T # {} =>
                   Picked(T) \in T /\ T \ {Picked(T)} \in UpToSize(D, n - 1)
<1>1. \A T \in SUBSET D : IsFiniteSet(T) /\ Cardinality(T) \in Nat
  BY FS_Subset, FS_CardinalityType
<1>2. Cardinality({}) = 0 /\ \A T \in SUBSET D : Cardinality(T) = 0 => T = {}
  BY <1>1, FS_EmptySet
<1>3. \A T \in SUBSET D : Cardinality(T) <= Cardinality(D)
  BY FS_Subset
<1>4. Cardinality(D) \in Nat
  BY FS_CardinalityType
<1>5. UpToSize(D, 0) = {{}}
  <2>1. \A T \in SUBSET D : Cardinality(T) <= 0 => T = {}
    BY <1>1, <1>2
  <2> QED BY <1>2, <2>1 DEF UpToSize
<1>6. ASSUME NEW n \in Nat \ {0}
      PROVE  /\ UpToSize(D, n - 1) \subseteq UpToSize(D, n)
             /\ \A T \in UpToSize(D, n) : T # {} =>
                  Picked(T) \in T /\ T \ {Picked(T)} \in UpToSize(D, n - 1)
  <2>1. UpToSize(D, n - 1) \subseteq UpToSize(D, n)
    BY <1>1 DEF UpToSize
  <2>2. ASSUME NEW T \in UpToSize(D, n), T # {}
        PROVE  Picked(T) \in T /\ T \ {Picked(T)} \in UpToSize(D, n - 1)
    <3>1. Picked(T) \in T
      BY <2>2 DEF Picked
    <3>2. T \in SUBSET D /\ IsFiniteSet(T) /\ Cardinality(T) \in Nat /\ Cardinality(T) <= n
      BY <1>1 DEF UpToSize
    <3>3. Cardinality(T \ {Picked(T)}) = Cardinality(T) - 1
      BY <3>1, <3>2, FS_RemoveElement
    <3> QED BY <3>1, <3>2, <3>3 DEF UpToSize
  <2> QED BY <2>1, <2>2
<1>7. \A n \in Nat : {} \in UpToSize(D, n)
  BY <1>2 DEF UpToSize
<1>8. UpToSize(D, Cardinality(D)) = SUBSET D
  BY <1>3 DEF UpToSize
<1> QED BY <1>4, <1>5, <1>6, <1>7, <1>8

LEMMA WalkedExists ==
  ASSUME NEW D, IsFiniteSet(D)
  PROVE  \E f : Walked(f, D, Cardinality(D))
<1> DEFINE N == Cardinality(D)
           G == {n \in 0 .. N : \E f : Walked(f, D, n)}
<1>n. N \in Nat
  BY Subsets
<1>1. 0 \in G
  <2> DEFINE f == [T \in {{}} |-> h]
  <2>1. f = [T \in {{}} |-> IF T = {} THEN h ELSE Unlinked(f[T \ {Picked(T)}], Picked(T))]
    OBVIOUS
  <2> HIDE DEF f
  <2>2. Walked(f, D, 0)
    BY <2>1, Subsets DEF Walked
  <2> QED BY <1>n, <2>2
<1>2. ASSUME NEW n \in 1 .. N, n - 1 \in G PROVE n \in G
  <2>n. n \in 0 .. N /\ n \in Nat \ {0}
    BY <1>n
  <2> DEFINE Old == UpToSize(D, n - 1)
             New == UpToSize(D, n)
  <2>1. /\ Old \subseteq New /\ {} \in Old
        /\ \A T \in New : T # {} => T \ {Picked(T)} \in Old
    <3>1. n - 1 \in Nat
      BY <2>n
    <3> QED BY <2>n, <3>1, Subsets
  <2>2. PICK g : Walked(g, D, n - 1)
    BY <1>2
  <2> HIDE DEF Old, New
  <2>3. \A T \in Old : g[T] = IF T = {} THEN h ELSE Unlinked(g[T \ {Picked(T)}], Picked(T))
    BY <2>2 DEF Walked, Old
  <2> DEFINE f == [T \in New |-> IF T \in Old THEN g[T]
                                 ELSE Unlinked(g[T \ {Picked(T)}], Picked(T))]
  <2>4. \A T \in Old : f[T] = g[T]
    BY <2>1
  <2>5. \A T \in New : f[T] = IF T = {} THEN h ELSE Unlinked(g[T \ {Picked(T)}], Picked(T))
    BY <2>1, <2>3
  <2>6. f = [T \in New |-> f[T]]
    OBVIOUS
  <2> HIDE DEF f
  <2>7. \A T \in New : f[T] = IF T = {} THEN h ELSE Unlinked(f[T \ {Picked(T)}], Picked(T))
    <3> TAKE T \in New
    <3>1. CASE T = {}
      BY <2>5, <3>1
    <3>2. CASE T # {}
      <4>1. f[T \ {Picked(T)}] = g[T \ {Picked(T)}]
        BY <2>1, <2>4, <3>2
      <4> QED BY <2>5, <3>2, <4>1
    <3> QED BY <3>1, <3>2
  <2>8. f = [T \in New |-> IF T = {} THEN h ELSE Unlinked(f[T \ {Picked(T)}], Picked(T))]
    BY <2>6, <2>7
  <2>9. Walked(f, D, n)
    BY <2>8 DEF Walked, New
  <2> QED BY <2>n, <2>9
<1>3. N \in G
  <2>1. N \in 0 .. N
    BY <1>n
  <2> HIDE DEF G, N
  <2> QED BY <1>n, <1>1, <1>2, <2>1, UpTo
<1> QED BY <1>3

\* What a walk that deletes T leaves.
Remains(g, T) ==
  /\ \E pos \in [Cells -> Nat] : Chained(g, pos)
  /\ Alloc(g) = Alloc(h) \ T
  /\ \A d \in Alloc(h) \ T : Same(h, g, d)

LEMMA WithoutIs ==
  ASSUME hash_bits \in 0 .. MaxBits, NEW pos, Chained(h, pos), NEW S
  PROVE  Remains(Without(S), S)
<1> DEFINE D == S \cap Visited
           left[T \in SUBSET (S \cap Visited)] ==
             IF T = {} THEN h
             ELSE LET c == CHOOSE d \in T : TRUE IN Unlinked(left[T \ {c}], c)
           N == Cardinality(D)
<1>d. D \subseteq Alloc(h) /\ IsFiniteSet(D) /\ D = S \cap Alloc(h)
  <2>1. D \subseteq Alloc(h) /\ D = S \cap Alloc(h)
    BY VisitedIs
  <2>2. Alloc(h) \subseteq Cells
    BY DEF Alloc
  <2>3. D \in SUBSET Cells
    BY <2>1, <2>2
  <2> QED BY <2>1, <2>3, FS_Subset, MacTableAssumption
<1>n. N \in Nat
  <2> HIDE DEF D
  <2> QED BY <1>d, Subsets
<1>1. left = [T \in SUBSET D |-> IF T = {} THEN h ELSE Unlinked(left[T \ {Picked(T)}], Picked(T))]
  <2>1. PICK f : Walked(f, D, N)
    <3> HIDE DEF D
    <3> QED BY <1>d, WalkedExists
  <2>2. f = [T \in SUBSET D |-> IF T = {} THEN h
                                ELSE Unlinked(f[T \ {Picked(T)}], Picked(T))]
    <3> HIDE DEF D
    <3> QED BY <1>d, <2>1, Subsets DEF Walked
  <2>3. f = [T \in SUBSET (S \cap Visited) |->
               IF T = {} THEN h
               ELSE LET c == CHOOSE d \in T : TRUE IN Unlinked(f[T \ {c}], c)]
    BY <2>2 DEF Picked
  <2>4. left = [T \in SUBSET (S \cap Visited) |->
                  IF T = {} THEN h
                  ELSE LET c == CHOOSE d \in T : TRUE IN Unlinked(left[T \ {c}], c)]
    BY <2>3
  <2> QED BY <2>4 DEF Picked
<1>2. Without(S) = left[D]
  BY DEF Without
<1> HIDE DEF left, D
<1>3. \A T \in SUBSET D : left[T] = IF T = {} THEN h
                                    ELSE Unlinked(left[T \ {Picked(T)}], Picked(T))
  BY <1>1
<1> DEFINE G == {n \in 0 .. N : \A T \in UpToSize(D, n) : Remains(left[T], T)}
<1> HIDE DEF N
<1>4. 0 \in G
  <2>1. left[{}] = h
    BY <1>3
  <2>2. Remains(h, {})
    <3>1. pos \in [Cells -> Nat]
      BY DEF Chained
    <3> QED BY <3>1 DEF Remains, Same
  <2>3. UpToSize(D, 0) = {{}} /\ 0 \in 0 .. N
    BY <1>n, <1>d, Subsets
  <2>4. \A T \in UpToSize(D, 0) : Remains(left[T], T)
    BY <2>1, <2>2, <2>3
  <2> QED BY <2>3, <2>4
<1>5. ASSUME NEW n \in 1 .. N, n - 1 \in G PROVE n \in G
  <2>n. n \in 0 .. N /\ n \in Nat \ {0}
    BY <1>n
  <2> SUFFICES ASSUME NEW T \in UpToSize(D, n) PROVE Remains(left[T], T)
    BY <2>n
  <2>t. T \in SUBSET D
    BY DEF UpToSize
  <2>1. CASE T = {}
    <3>1. T \in UpToSize(D, n - 1)
      BY <1>d, <2>n, <2>1, Subsets
    <3> QED BY <1>5, <3>1
  <2>2. CASE T # {}
    <3> DEFINE c == Picked(T)
               g == left[T \ {Picked(T)}]
    <3>1. c \in T /\ T \ {c} \in UpToSize(D, n - 1)
      BY <1>d, <2>n, <2>2, Subsets
    <3>2. left[T] = Unlinked(g, c)
      BY <1>3, <2>t, <2>2
    <3>3. Remains(g, T \ {c})
      BY <1>5, <3>1
    <3> HIDE DEF c, g
    <3>4. PICK q \in [Cells -> Nat] : Chained(g, q)
      BY <3>3 DEF Remains
    <3>5. c \in Alloc(g) /\ Alloc(g) \ {c} = Alloc(h) \ T
      BY <1>d, <2>t, <3>1, <3>3 DEF Remains
    <3>6. /\ Chained(left[T], MovedUp(g, q, c))
          /\ Alloc(left[T]) = Alloc(g) \ {c}
          /\ \A d \in Alloc(left[T]) : Same(g, left[T], d)
      BY <3>2, <3>4, <3>5, UnlinkedChained
    <3>7. MovedUp(g, q, c) \in [Cells -> Nat]
      BY <3>6 DEF Chained
    <3>8. \A d \in Alloc(h) \ T : Same(h, left[T], d)
      BY <3>3, <3>5, <3>6 DEF Remains, Same
    <3> QED BY <3>5, <3>6, <3>7, <3>8 DEF Remains
  <2> QED BY <2>1, <2>2
<1>6. N \in G
  <2>1. N \in 0 .. N
    BY <1>n
  <2> HIDE DEF G
  <2> QED BY <1>n, <1>4, <1>5, <2>1, UpTo
<1>7. Remains(left[D], D)
  <2>1. D \in UpToSize(D, N)
    BY <1>d, Subsets DEF N
  <2> QED BY <1>6, <2>1
<1>8. Alloc(h) \ D = Alloc(h) \ S
  BY <1>d
<1> QED BY <1>2, <1>7, <1>8 DEF Remains
-----------------------------------------------------------------------------
LEMMA Po2RoundType ==
  ASSUME NEW n \in Sizes
  PROVE  Po2Round(n) \in 0 .. MaxBits
<1> DEFINE T == {i \in 0 .. MaxBits : n <= HashSize[i]}
<1>1. MaxBits \in Nat /\ n \in Nat /\ n <= HashSize[MaxBits]
  <2>1. HashSize[MaxBits] \in Nat
    BY HashSizeGrows, MacTableAssumption
  <2> QED BY <2>1, MacTableAssumption
<1>2. PICK m \in T : \A k \in T : m <= k
  <2>1. T \subseteq Nat /\ T # {}
    BY <1>1
  <2> HIDE DEF T
  <2> QED BY <2>1, LeastNat
<1>3. \A j \in 0 .. m - 1 : HashSize[j] < n
  <2> TAKE j \in 0 .. m - 1
  <2>1. j \in 0 .. MaxBits /\ ~(m <= j)
    BY <1>1
  <2>2. ~(n <= HashSize[j]) /\ HashSize[j] \in Nat
    BY <1>2, <2>1, HashSizeGrows
  <2> QED BY <1>1, <2>2
<1>4. \E i \in 0 .. MaxBits : n <= HashSize[i] /\ \A j \in 0 .. i - 1 : HashSize[j] < n
  BY <1>3
<1> QED BY <1>4 DEF Po2Round

\* An array of null pointers, and no entry.
LEMMA EmptyChained ==
  ASSUME NEW g, NEW pos \in [Cells -> Nat],
         g = [head |-> EmptyArray(hash_bits), cell |-> [c \in Cells |-> NULL]]
  PROVE  Chained(g, pos) /\ Alloc(g) = {}
<1>1. Alloc(g) = {}
  BY DEF Alloc
<1>2. /\ g = [head |-> g.head, cell |-> g.cell]
      /\ \A b \in Buckets(hash_bits) : g.head[b] = NULL
      /\ g.head \in [Buckets(hash_bits) -> Cells \cup {NULL}]
      /\ g.cell \in [Cells -> Entry \cup {NULL}]
  BY DEF EmptyArray
<1>3. g \in Tables
  BY <1>2 DEF Tables
<1> QED BY <1>1, <1>2, <1>3
        DEF Chained, HeadsFirst, NextsFollow, FirstsPointed, OthersPointed, OnePerPlace, NoGaps,
            OneEntry

\* Another port or age, the same pointers.
LEMMA RelabelledChained ==
  ASSUME NEW pos, Chained(h, pos), NEW r \in Tables, r.head = h.head, Alloc(r) = Alloc(h),
         \A d \in Alloc(h) : /\ r.cell[d].dst = h.cell[d].dst
                             /\ r.cell[d].next = h.cell[d].next
                             /\ r.cell[d].prev = h.cell[d].prev
  PROVE  Chained(r, pos)
<1>1. \A d \in Alloc(h) : Home(r, d) = Home(h, d)
  BY DEF Home
<1>2. \A c, b, i : At(r, pos, c, b, i) <=> At(h, pos, c, b, i)
  BY <1>1 DEF At
<1>3. Alloc(h) \subseteq Cells
  BY DEF Alloc
<1>4. pos \in [Cells -> Nat] /\ HeadsFirst(r, pos)
  BY <1>2 DEF Chained, HeadsFirst
<1>5. NextsFollow(r, pos)
  BY <1>1, <1>2 DEF Chained, NextsFollow
<1>6. FirstsPointed(r, pos)
  BY <1>1 DEF Chained, FirstsPointed
<1>7. OthersPointed(r, pos)
  BY <1>1, <1>2 DEF Chained, OthersPointed, At
<1>8. OnePerPlace(r, pos)
  BY <1>1 DEF Chained, OnePerPlace
<1>9. NoGaps(r, pos)
  BY <1>1, <1>2 DEF Chained, NoGaps
<1>10. OneEntry(r)
  BY DEF Chained, OneEntry
<1> QED BY <1>4, <1>5, <1>6, <1>7, <1>8, <1>9, <1>10 DEF Chained

\* A step that keeps the size of the table: its buckets are the same.
LEMMA ChainedNext ==
  ASSUME hash_bits' = hash_bits, NEW pos, Chained(h', pos)
  PROVE  Chained(h, pos)'
<1>1. /\ Tables' = Tables
      /\ \A c : Home(h, c)' = Home(h', c)
      /\ Buckets(hash_bits)' = Buckets(hash_bits)
      /\ Alloc(h)' = Alloc(h')
  BY DEF Tables, Home, Bucket, Alloc, Buckets
<1> QED BY <1>1 DEF Chained, HeadsFirst, NextsFollow, FirstsPointed, OthersPointed, OnePerPlace,
                    NoGaps, OneEntry, At

-----------------------------------------------------------------------------
(***************************************************************************)
(* The table as the map of MacMap: where the entry of an address says that *)
(* it is, and how long ago.                                                *)
(***************************************************************************)
EntryOf(g, k) == CHOOSE c \in Alloc(g) : g.cell[c].dst = k

PortIn(g, k) == IF \E c \in Alloc(g) : g.cell[c].dst = k THEN g.cell[EntryOf(g, k)].port ELSE NULL

AgeIn(g, k) == IF \E c \in Alloc(g) : g.cell[c].dst = k THEN g.cell[EntryOf(g, k)].age ELSE 0

LEMMA PortAndAge ==
  ASSUME NEW g, OneEntry(g)
  PROVE  /\ \A c \in Alloc(g) : /\ PortIn(g, g.cell[c].dst) = g.cell[c].port
                                /\ AgeIn(g, g.cell[c].dst) = g.cell[c].age
         /\ \A k : (\A c \in Alloc(g) : g.cell[c].dst # k) => PortIn(g, k) = NULL /\ AgeIn(g, k) = 0
<1>1. ASSUME NEW c \in Alloc(g)
      PROVE  EntryOf(g, g.cell[c].dst) = c
  BY DEF OneEntry, EntryOf
<1> QED BY <1>1 DEF PortIn, AgeIn
\* What the invariant says of the table.
LEMMA Facts ==
  ASSUME IInv
  PROVE  /\ hash_bits \in 0 .. MaxBits /\ h \in Tables /\ Allocated = Alloc(h)
         /\ OneEntry(h)
         /\ \A c \in Alloc(h) : /\ c \in Cells /\ h.cell[c] \in Entry
                                /\ h.cell[c].dst \in Keys /\ h.cell[c].port \in Ports
                                /\ h.cell[c].age \in 0 .. MaxAge
  BY AllocatedEntry DEF IInv, Chained, Alloc, Allocated

\* A step changes what is known of the addresses in S, and only that.
Known(g, j, port, age) == PortIn(g, j) = port /\ AgeIn(g, j) = age

LEMMA SeenStep ==
  ASSUME IInv, NEW k \in Keys, NEW p \in Ports, FindInHashUpdate(k, p)
  PROVE  /\ \E pos \in [Cells -> Nat] : Chained(h', pos)
         /\ \/ h' = h
            \/ /\ PortIn(h, k) \in {NULL, p} \/ AgeIn(h, k) > min_persistence
               /\ Known(h', k, p, 0)
               /\ \A j \in Keys \ {k} : Known(h', j, PortIn(h, j), AgeIn(h, j))
<1>h. /\ hash_bits \in 0 .. MaxBits /\ h \in Tables /\ Allocated = Alloc(h)
      /\ OneEntry(h)
      /\ \A c \in Alloc(h) : /\ c \in Cells /\ h.cell[c] \in Entry
                             /\ h.cell[c].dst \in Keys /\ h.cell[c].port \in Ports
                             /\ h.cell[c].age \in 0 .. MaxAge
  BY Facts
<1>pos. PICK pos \in [Cells -> Nat] : Chained(h, pos)
  BY DEF IInv
<1>1. CASE h' = h
  BY <1>pos, <1>1
<1>2. CASE h' # h /\ Found(k) = NULL
  <2>1. \A c \in Alloc(h) : h.cell[c].dst # k
    BY <1>h, <1>pos, <1>2, FoundIs, MacTableAssumption DEF Alloc
  <2>2. PICK c \in Cells \ Allocated : h' = Linked(c, k, p)
    BY <1>2 DEF FindInHashUpdate
  <2>3. /\ Chained(h', MovedDown(h, pos, c, Bucket(k)))
        /\ Alloc(h') = Alloc(h) \cup {c}
        /\ h'.cell[c].dst = k /\ h'.cell[c].port = p /\ h'.cell[c].age = 0
        /\ \A d \in Alloc(h) : Same(h, h', d)
    BY <1>h, <1>pos, <2>1, <2>2, LinkedChained
  <2>4. MovedDown(h, pos, c, Bucket(k)) \in [Cells -> Nat] /\ OneEntry(h')
    BY <2>3 DEF Chained
  <2>5. PortIn(h, k) = NULL
    BY <1>h, <2>1, PortAndAge
  <2>6. Known(h', k, p, 0)
    BY <2>3, <2>4, PortAndAge DEF Known
  <2>7. ASSUME NEW j \in Keys \ {k} PROVE Known(h', j, PortIn(h, j), AgeIn(h, j))
    <3>1. CASE \A d \in Alloc(h) : h.cell[d].dst # j
      <4>1. \A d \in Alloc(h') : h'.cell[d].dst # j
        BY <2>3, <2>7, <3>1 DEF Same
      <4> QED BY <1>h, <2>4, <3>1, <4>1, PortAndAge DEF Known
    <3>2. ASSUME NEW d \in Alloc(h), h.cell[d].dst = j
          PROVE  Known(h', j, PortIn(h, j), AgeIn(h, j))
      <4>1. d \in Alloc(h') /\ Same(h, h', d)
        BY <2>3
      <4> QED BY <1>h, <2>4, <3>2, <4>1, PortAndAge DEF Known, Same
    <3> QED BY <3>1, <3>2
  <2> QED BY <2>3, <2>4, <2>5, <2>6, <2>7
<1>3. CASE h' # h /\ Found(k) # NULL
  <2> DEFINE c == Found(k)
  <2>1. c \in Alloc(h) /\ h.cell[c].dst = k
    BY <1>h, <1>pos, <1>3, FoundIs
  <2>2. /\ h.cell[c].port = p \/ OldEnough(h.cell[c].age)
        /\ h' = [h EXCEPT !.cell[c].port = p, !.cell[c].age = 0]
    BY <1>3 DEF FindInHashUpdate
  <2> HIDE DEF c
  <2>3. /\ h = [head |-> h.head, cell |-> h.cell]
        /\ h.cell \in [Cells -> Entry \cup {NULL}]
        /\ h.head \in [Buckets(hash_bits) -> Cells \cup {NULL}]
    BY <1>h DEF Tables
  <2> DEFINE new == [h.cell[c] EXCEPT !.port = p, !.age = 0]
  <2>4. /\ h'.head = h.head /\ h' = [head |-> h'.head, cell |-> h'.cell]
        /\ h'.cell = [h.cell EXCEPT ![c] = new]
    BY <2>2, <2>3
  <2>5. /\ new \in Entry /\ new.dst = k /\ new.port = p /\ new.age = 0
        /\ new.next = h.cell[c].next /\ new.prev = h.cell[c].prev
    <3>1. h.cell[c] \in Entry /\ 0 \in 0 .. MaxAge
      BY <1>h, <2>1, MacTableAssumption
    <3> QED BY <2>1, <3>1 DEF Entry
  <2> HIDE DEF new
  <2>6. /\ h'.cell \in [Cells -> Entry \cup {NULL}]
        /\ h'.cell[c] = new
        /\ \A d \in Cells : d # c => h'.cell[d] = h.cell[d]
    BY <1>h, <2>1, <2>3, <2>4, <2>5
  <2>7. h' \in Tables
    BY <2>3, <2>4, <2>6 DEF Tables
  <2>8. Alloc(h') = Alloc(h)
    BY <2>1, <2>5, <2>6, NoEntryAssumption DEF Alloc
  <2>9. \A d \in Alloc(h) : /\ h'.cell[d].dst = h.cell[d].dst
                            /\ h'.cell[d].next = h.cell[d].next
                            /\ h'.cell[d].prev = h.cell[d].prev
                            /\ d # c => Same(h, h', d)
    BY <1>h, <2>1, <2>5, <2>6 DEF Same
  <2>10. Chained(h', pos) /\ OneEntry(h')
    <3>1. Chained(h', pos)
      BY <1>pos, <2>4, <2>7, <2>8, <2>9, RelabelledChained
    <3> QED BY <3>1 DEF Chained
  <2>11. PortIn(h, k) = h.cell[c].port /\ AgeIn(h, k) = h.cell[c].age
    BY <1>h, <2>1, PortAndAge
  <2>12. PortIn(h, k) \in {NULL, p} \/ AgeIn(h, k) > min_persistence
    BY <2>2, <2>11 DEF OldEnough
  <2>13. Known(h', k, p, 0)
    BY <2>1, <2>5, <2>6, <2>8, <2>10, PortAndAge DEF Known
  <2>14. ASSUME NEW j \in Keys \ {k} PROVE Known(h', j, PortIn(h, j), AgeIn(h, j))
    <3>1. CASE \A d \in Alloc(h) : h.cell[d].dst # j
      <4>1. \A d \in Alloc(h') : h'.cell[d].dst # j
        BY <2>8, <2>9, <3>1
      <4> QED BY <1>h, <2>10, <3>1, <4>1, PortAndAge DEF Known
    <3>2. ASSUME NEW d \in Alloc(h), h.cell[d].dst = j
          PROVE  Known(h', j, PortIn(h, j), AgeIn(h, j))
      <4>1. d \in Alloc(h') /\ Same(h, h', d)
        BY <2>1, <2>8, <2>9, <2>14, <3>2
      <4> QED BY <1>h, <2>10, <3>2, <4>1, PortAndAge DEF Known, Same
    <3> QED BY <3>1, <3>2
  <2> QED BY <1>pos, <2>10, <2>12, <2>13, <2>14
<1> QED BY <1>1, <1>2, <1>3

LEMMA DeleteStep ==
  ASSUME IInv, NEW p \in Ports, HashDeletePort(p)
  PROVE  /\ \E pos \in [Cells -> Nat] : Chained(h', pos)
         /\ \A j \in Keys : IF PortIn(h, j) = p THEN Known(h', j, NULL, 0)
                            ELSE Known(h', j, PortIn(h, j), AgeIn(h, j))
<1>h. hash_bits \in 0 .. MaxBits /\ Allocated = Alloc(h) /\ OneEntry(h)
  BY Facts
<1> DEFINE S == {c \in Allocated : h.cell[c].port = p}
<1>1. Remains(h', S)
  BY <1>h, WithoutIs DEF IInv, HashDeletePort
<1>2. PICK pos \in [Cells -> Nat] : Chained(h', pos)
  BY <1>1 DEF Remains
<1>3. /\ OneEntry(h')
      /\ Alloc(h') = {c \in Alloc(h) : h.cell[c].port # p}
      /\ \A d \in Alloc(h') : Same(h, h', d)
  BY <1>h, <1>1, <1>2 DEF Remains, Chained
<1>4. ASSUME NEW j \in Keys
      PROVE  IF PortIn(h, j) = p THEN Known(h', j, NULL, 0)
             ELSE Known(h', j, PortIn(h, j), AgeIn(h, j))
  <2>1. CASE \A d \in Alloc(h) : h.cell[d].dst # j
    <3>1. \A d \in Alloc(h') : h'.cell[d].dst # j
      BY <1>3, <2>1 DEF Same
    <3>2. PortIn(h, j) = NULL /\ AgeIn(h, j) = 0 /\ PortIn(h', j) = NULL /\ AgeIn(h', j) = 0
      BY <1>h, <1>3, <2>1, <3>1, PortAndAge
    <3> QED BY <3>2 DEF Known
  <2>2. ASSUME NEW d \in Alloc(h), h.cell[d].dst = j, h.cell[d].port = p
        PROVE  PortIn(h, j) = p /\ Known(h', j, NULL, 0)
    <3>1. PortIn(h, j) = p
      BY <1>h, <2>2, PortAndAge
    <3>2. \A e \in Alloc(h') : h'.cell[e].dst # j
      BY <1>h, <1>3, <2>2 DEF OneEntry, Same
    <3> QED BY <1>3, <3>1, <3>2, PortAndAge DEF Known
  <2>3. ASSUME NEW d \in Alloc(h), h.cell[d].dst = j, h.cell[d].port # p
        PROVE  PortIn(h, j) # p /\ Known(h', j, PortIn(h, j), AgeIn(h, j))
    <3>1. PortIn(h, j) = h.cell[d].port /\ AgeIn(h, j) = h.cell[d].age
      BY <1>h, <2>3, PortAndAge
    <3>2. d \in Alloc(h') /\ h'.cell[d].dst = j /\ h'.cell[d].port = h.cell[d].port
          /\ h'.cell[d].age = h.cell[d].age
      BY <1>3, <2>3 DEF Same
    <3>3. PortIn(h', j) = h'.cell[d].port /\ AgeIn(h', j) = h'.cell[d].age
      BY <1>3, <3>2, PortAndAge
    <3> QED BY <2>3, <3>1, <3>2, <3>3 DEF Known
  <2> QED BY <2>1, <2>2, <2>3
<1> QED BY <1>2, <1>4

LEMMA ResizeStep ==
  ASSUME IInv, NEW n \in Sizes, HashResize(n)
  PROVE  /\ h' = [head |-> EmptyArray(hash_bits'), cell |-> [c \in Cells |-> NULL]]
         /\ hash_bits' \in 0 .. MaxBits
         /\ \A j \in Keys : Known(h', j, NULL, 0)
<1>h. hash_bits \in 0 .. MaxBits /\ Allocated = Alloc(h)
  BY Facts
<1>1. Remains(Without(Allocated), Allocated)
  BY <1>h, WithoutIs DEF IInv
<1>2. PICK pos : Chained(Without(Allocated), pos)
  BY <1>1 DEF Remains
<1>3. Flushed \in [Cells -> Entry \cup {NULL}] /\ \A c \in Cells : Flushed[c] = NULL
  BY <1>h, <1>1, <1>2 DEF Remains, Chained, Tables, Alloc, Flushed
<1>4. Flushed = [c \in Cells |-> NULL]
  BY <1>3
<1>5. /\ h' = [head |-> EmptyArray(hash_bits'), cell |-> Flushed]
      /\ hash_bits' = Po2Round(n)
  BY DEF HashResize, BitsFor
<1>6. Alloc(h') = {}
  BY <1>4, <1>5 DEF Alloc
<1>7. \A j \in Keys : Known(h', j, NULL, 0)
  BY <1>6, PortAndAge DEF OneEntry, Known
<1> QED BY <1>4, <1>5, <1>7, Po2RoundType

LEMMA SecondStep ==
  ASSUME IInv, Second
  PROVE  /\ \E pos \in [Cells -> Nat] : Chained(h', pos)
         /\ \A j \in Keys :
              Known(h', j, PortIn(h, j),
                    IF PortIn(h, j) # NULL /\ AgeIn(h, j) < MaxAge THEN AgeIn(h, j) + 1
                    ELSE AgeIn(h, j))
<1>h. /\ hash_bits \in 0 .. MaxBits /\ h \in Tables /\ Allocated = Alloc(h)
      /\ OneEntry(h)
      /\ \A c \in Alloc(h) : /\ c \in Cells /\ h.cell[c] \in Entry
                             /\ h.cell[c].dst \in Keys /\ h.cell[c].port \in Ports
                             /\ h.cell[c].age \in 0 .. MaxAge
  BY Facts
<1>pos. PICK pos \in [Cells -> Nat] : Chained(h, pos)
  BY DEF IInv
<1>t. /\ h = [head |-> h.head, cell |-> h.cell]
      /\ h.cell \in [Cells -> Entry \cup {NULL}]
      /\ h.head \in [Buckets(hash_bits) -> Cells \cup {NULL}]
  BY <1>h DEF Tables
<1>1. /\ h'.head = h.head /\ h' = [head |-> h'.head, cell |-> h'.cell]
      /\ h'.cell = [c \in Cells |-> IF c \in Alloc(h) /\ h.cell[c].age < MaxAge
                                    THEN [h.cell[c] EXCEPT !.age = @ + 1] ELSE h.cell[c]]
  BY <1>h, <1>t DEF Second
<1>2. ASSUME NEW c \in Alloc(h)
      PROVE  /\ h'.cell[c] \in Entry
             /\ h'.cell[c].dst = h.cell[c].dst /\ h'.cell[c].port = h.cell[c].port
             /\ h'.cell[c].next = h.cell[c].next /\ h'.cell[c].prev = h.cell[c].prev
             /\ h'.cell[c].age = IF h.cell[c].age < MaxAge THEN h.cell[c].age + 1
                                 ELSE h.cell[c].age
  <2> DEFINE x == h.cell[c]
  <2>x. c \in Cells /\ x \in Entry /\ x.age \in 0 .. MaxAge /\ MaxAge \in Nat
    BY <1>h, MacTableAssumption
  <2>1. h'.cell[c] = IF x.age < MaxAge THEN [x EXCEPT !.age = @ + 1] ELSE x
    BY <1>1, <2>x
  <2> HIDE DEF x
  <2>2. CASE x.age < MaxAge
    <3>1. x.age + 1 \in 0 .. MaxAge
      BY <2>x, <2>2
    <3>2. LET y == [x EXCEPT !.age = @ + 1] IN
            /\ y \in Entry /\ y.dst = x.dst /\ y.port = x.port /\ y.next = x.next
            /\ y.prev = x.prev /\ y.age = x.age + 1
      BY <2>x, <3>1 DEF Entry
    <3> QED BY <2>1, <2>2, <3>2 DEF x
  <2>3. CASE ~(x.age < MaxAge)
    <3>1. h'.cell[c] = x
      BY <2>1, <2>3
    <3> QED BY <2>x, <2>3, <3>1 DEF x
  <2> QED BY <2>2, <2>3
<1>3. \A c \in Cells : c \notin Alloc(h) => h'.cell[c] = NULL
  BY <1>1 DEF Alloc
<1>4. Alloc(h') = Alloc(h)
  BY <1>h, <1>2, <1>3, NoEntryAssumption DEF Alloc
<1>5. h' \in Tables
  <2>1. \A c \in Cells : h'.cell[c] \in Entry \cup {NULL}
    BY <1>2, <1>3
  <2>2. h'.cell = [c \in Cells |-> h'.cell[c]]
    BY <1>1
  <2>3. h'.cell \in [Cells -> Entry \cup {NULL}]
    BY <2>1, <2>2
  <2> QED BY <1>1, <1>t, <2>3 DEF Tables
<1>6. Chained(h', pos)
  BY <1>pos, <1>1, <1>2, <1>4, <1>5, RelabelledChained
<1>7. OneEntry(h')
  BY <1>6 DEF Chained
<1>8. ASSUME NEW j \in Keys
      PROVE  Known(h', j, PortIn(h, j),
                   IF PortIn(h, j) # NULL /\ AgeIn(h, j) < MaxAge THEN AgeIn(h, j) + 1
                   ELSE AgeIn(h, j))
  <2>1. CASE \A d \in Alloc(h) : h.cell[d].dst # j
    <3>1. \A d \in Alloc(h') : h'.cell[d].dst # j
      BY <1>2, <1>4, <2>1
    <3>2. PortIn(h, j) = NULL /\ AgeIn(h, j) = 0 /\ PortIn(h', j) = NULL /\ AgeIn(h', j) = 0
      BY <1>h, <1>7, <2>1, <3>1, PortAndAge
    <3> QED BY <3>2 DEF Known
  <2>2. ASSUME NEW d \in Alloc(h), h.cell[d].dst = j
        PROVE  Known(h', j, PortIn(h, j),
                     IF PortIn(h, j) # NULL /\ AgeIn(h, j) < MaxAge THEN AgeIn(h, j) + 1
                     ELSE AgeIn(h, j))
    <3>1. PortIn(h, j) = h.cell[d].port /\ AgeIn(h, j) = h.cell[d].age
      BY <1>h, <2>2, PortAndAge
    <3>2. PortIn(h', j) = h'.cell[d].port /\ AgeIn(h', j) = h'.cell[d].age
      BY <1>2, <1>4, <1>7, <2>2, PortAndAge
    <3>3. h.cell[d].port # NULL
      BY <1>h, MacTableAssumption
    <3> QED BY <1>2, <3>1, <3>2, <3>3 DEF Known
  <2> QED BY <2>1, <2>2
<1> QED BY <1>6, <1>pos, <1>8
-----------------------------------------------------------------------------
LEMMA InitInv == Init => IInv
<1> SUFFICES ASSUME Init PROVE IInv
  OBVIOUS
<1> DEFINE pos == [c \in Cells |-> 0]
<1>1. pos \in [Cells -> Nat] /\ Chained(h, pos)
  <2>1. pos \in [Cells -> Nat]
    OBVIOUS
  <2> HIDE DEF pos
  <2> QED BY <2>1, EmptyChained DEF Init
<1>2. hash_bits \in 0 .. MaxBits
  BY Po2RoundType DEF Init
<1> HIDE DEF pos
<1> QED BY <1>1, <1>2 DEF Init, IInv

\* The steps that keep the size and the setting.
LEMMA KeepInv ==
  ASSUME IInv, UNCHANGED <<hash_bits, min_persistence>>, up' \in BOOLEAN,
         \E pos \in [Cells -> Nat] : Chained(h', pos)
  PROVE  IInv'
<1>1. PICK pos \in [Cells -> Nat] : Chained(h', pos)
  OBVIOUS
<1>2. Chained(h, pos)'
  BY <1>1, ChainedNext
<1> QED BY <1>2 DEF IInv

LEMMA NextInv == IInv /\ [Next]_vars => IInv'
<1> SUFFICES ASSUME IInv, [Next]_vars PROVE IInv'
  OBVIOUS
<1>u. up \in BOOLEAN /\ \E pos \in [Cells -> Nat] : Chained(h, pos)
  BY DEF IInv
<1>1. ASSUME NEW k \in Keys, NEW p \in Ports, FindInHashUpdate(k, p) PROVE IInv'
  BY <1>1, <1>u, SeenStep, KeepInv DEF FindInHashUpdate
<1>2. ASSUME NEW p \in Ports, HashDeletePort(p) PROVE IInv'
  BY <1>2, <1>u, DeleteStep, KeepInv DEF HashDeletePort
<1>3. ASSUME NEW n \in Sizes, HashResize(n) PROVE IInv'
  <2> DEFINE pos == [c \in Cells |-> 0]
  <2>1. pos \in [Cells -> Nat]
    OBVIOUS
  <2> HIDE DEF pos
  <2>2. /\ h' = [head |-> EmptyArray(hash_bits'), cell |-> [c \in Cells |-> NULL]]
        /\ hash_bits' \in 0 .. MaxBits
    BY <1>3, ResizeStep
  <2>3. h' = [head |-> EmptyArray(hash_bits), cell |-> [c \in Cells |-> NULL]]'
    BY <2>2 DEF EmptyArray, Buckets
  <2>4. Alloc(h)' = {}
    BY <2>2 DEF Alloc
  <2>5. /\ (h \in Tables)'
        /\ \A b \in Buckets(hash_bits)' : h'.head[b] = NULL
    BY <2>2 DEF Tables, EmptyArray, Buckets
  <2>6. Chained(h, pos)'
    BY <2>1, <2>4, <2>5
       DEF Chained, HeadsFirst, NextsFollow, FirstsPointed, OthersPointed, OnePerPlace, NoGaps,
           OneEntry
  <2>7. UNCHANGED <<up, min_persistence>>
    BY <1>3 DEF HashResize
  <2> QED BY <2>1, <2>2, <2>6, <2>7 DEF IInv
<1>4. ASSUME NEW n \in Persistences, HashSetMinper(n) PROVE IInv'
  <2>1. PICK pos \in [Cells -> Nat] : Chained(h, pos)
    BY <1>u
  <2>2. UNCHANGED <<up, hash_bits, h>> /\ min_persistence' \in Persistences
    BY <1>4 DEF HashSetMinper
  <2>3. Chained(h', pos)
    BY <2>1, <2>2
  <2>4. Chained(h, pos)'
    BY <2>2, <2>3, ChainedNext
  <2> QED BY <2>2, <2>4 DEF IInv
<1>5. CASE Second
  BY <1>5, <1>u, SecondStep, KeepInv DEF Second
<1>6. CASE HashGc
  <2>1. UNCHANGED <<hash_bits, h, min_persistence>> /\ up' \in BOOLEAN
    BY <1>6 DEF HashGc
  <2> QED BY <1>u, <2>1, KeepInv
<1>7. CASE UNCHANGED vars
  BY <1>7, <1>u, KeepInv DEF vars
<1> QED BY <1>1, <1>2, <1>3, <1>4, <1>5, <1>6, <1>7 DEF Next

(***************************************************************************)
(* The inductive invariant holds.                                          *)
(***************************************************************************)
THEOREM Invariant == Spec => []IInv
<1>1. Init => IInv
  BY InitInv
<1>2. IInv /\ [Next]_vars => IInv'
  BY NextInv
<1> QED BY <1>1, <1>2, PTL DEF Spec

(***************************************************************************)
(* Type correctness: the pointers stay pointers to cells, in an array of   *)
(* the size that was asked for, rounded to a power of 2.                   *)
(***************************************************************************)
THEOREM TypeCorrect == Spec => []TypeOK
<1>1. IInv => TypeOK
  BY DEF IInv, Chained, Tables, TypeOK
<1> QED BY <1>1, Invariant, PTL

(***************************************************************************)
(* The pointers fit after any sequence of frames, deletions of ports,      *)
(* changes of the size and walks of the table, whatever its hash does.     *)
(***************************************************************************)
THEOREM PointersFit == Spec => []WellLinked
<1>1. IInv => WellLinked
  <2> SUFFICES ASSUME IInv PROVE WellLinked
    OBVIOUS
  <2>1. PICK pos \in [Cells -> Nat] : Chained(h, pos)
    BY DEF IInv
  <2>2. hash_bits \in 0 .. MaxBits /\ Allocated = Alloc(h) /\ \A c \in Alloc(h) : h.cell[c].dst \in Keys
    BY Facts
  <2>3. \A b \in Buckets(hash_bits) : Chain(b) = {c \in Alloc(h) : Home(h, c) = b}
    BY <2>1, <2>2, ChainIs
  <2>4. \A b \in Buckets(hash_bits) : Chain(b) \subseteq Allocated
    BY <2>2, <2>3
  <2>5. ASSUME NEW c \in Allocated
        PROVE  /\ c \in Chain(Bucket(h.cell[c].dst))
               /\ \/ h.cell[c].prev[1] = "head" /\ h.head[h.cell[c].prev[2]] = c
                  \/ h.cell[c].prev[1] = "next" /\ h.cell[h.cell[c].prev[2]].next = c
    <3>1. c \in Alloc(h) /\ Bucket(h.cell[c].dst) \in Buckets(hash_bits)
      BY <2>2, BucketType
    <3>2. c \in Chain(Bucket(h.cell[c].dst))
      BY <2>3, <3>1 DEF Home
    <3>3. CASE pos[c] = 0
      <4>1. h.head[Home(h, c)] = c /\ h.cell[c].prev = <<"head", Home(h, c)>>
        BY <2>1, <3>1, <3>3 DEF Chained, FirstsPointed
      <4> QED BY <3>2, <4>1
    <3>4. CASE pos[c] # 0
      <4>1. PICK d \in Cells : h.cell[d].next = c /\ h.cell[c].prev = <<"next", d>>
        BY <2>1, <3>1, <3>4 DEF Chained, OthersPointed
      <4> QED BY <3>2, <4>1
    <3> QED BY <3>3, <3>4
  <2> QED BY <2>4, <2>5 DEF WellLinked
<1> QED BY <1>1, Invariant, PTL

(***************************************************************************)
(* An address never gets a second entry: the walk to it finds the one that *)
(* it has.                                                                 *)
(***************************************************************************)
THEOREM AddressesAreUnique == Spec => []OneEntryPerAddress
<1>1. IInv => OneEntryPerAddress
  BY Facts DEF OneEntry, OneEntryPerAddress
<1> QED BY <1>1, Invariant, PTL

\* The refinement mapping, in this state and in the next.
LEMMA MapFields ==
  /\ \A k \in Keys : Of(k, "port", NULL) = PortIn(h, k) /\ Of(k, "age", 0) = AgeIn(h, k)
  /\ \A k \in Keys : Of(k, "port", NULL)' = PortIn(h', k) /\ Of(k, "age", 0)' = AgeIn(h', k)
  BY DEF Of, Allocated, Alloc, PortIn, AgeIn, EntryOf

(***************************************************************************)
(* The table implements the map that the port handlers rely on: every step *)
(* of the chains is a step of MacMap, or changes nothing there.            *)
(***************************************************************************)
THEOREM MapImplemented == Spec => ImplementsMap
<1> DEFINE map == [k \in Keys |-> Of(k, "port", NULL)]
           quiet == [k \in Keys |-> Of(k, "age", 0)]
<1>f. /\ map = [k \in Keys |-> PortIn(h, k)] /\ quiet = [k \in Keys |-> AgeIn(h, k)]
      /\ map' = [k \in Keys |-> PortIn(h', k)] /\ quiet' = [k \in Keys |-> AgeIn(h', k)]
  BY MapFields
<1>1. Init => Map!Init
  <2> SUFFICES ASSUME Init PROVE Map!Init
    OBVIOUS
  <2>1. Alloc(h) = {}
    BY DEF Init, Alloc
  <2>2. \A k \in Keys : PortIn(h, k) = NULL /\ AgeIn(h, k) = 0
    BY <2>1 DEF PortIn, AgeIn
  <2>3. map = [k \in Keys |-> NULL] /\ quiet = [k \in Keys |-> 0]
    BY <1>f, <2>2
  <2> QED BY <2>3 DEF Init, Map!Init, Map!Never
<1>2. IInv /\ [Next]_vars => [Map!Next]_(Map!mapVars)
  <2> SUFFICES ASSUME IInv, [Next]_vars PROVE [Map!Next]_(Map!mapVars)
    OBVIOUS
  <2> HIDE DEF map, quiet
  <2>stay. ASSUME h' = h, min_persistence' = min_persistence
           PROVE  UNCHANGED Map!mapVars
    <3>1. map' = map /\ quiet' = quiet
      BY <1>f, <2>stay
    <3> QED BY <2>stay, <3>1 DEF Map!mapVars, map, quiet
  <2>1. ASSUME NEW k \in Keys, NEW p \in Ports, FindInHashUpdate(k, p)
        PROVE  [Map!Next]_(Map!mapVars)
    <3>0. min_persistence' = min_persistence
      BY <2>1 DEF FindInHashUpdate
    <3>1. CASE h' = h
      BY <2>stay, <3>0, <3>1
    <3>2. CASE h' # h
      <4>1. /\ PortIn(h, k) \in {NULL, p} \/ AgeIn(h, k) > min_persistence
            /\ Known(h', k, p, 0)
            /\ \A j \in Keys \ {k} : Known(h', j, PortIn(h, j), AgeIn(h, j))
        BY <2>1, <3>2, SeenStep
      <4>2. map' = [map EXCEPT ![k] = p] /\ quiet' = [quiet EXCEPT ![k] = 0]
        BY <1>f, <4>1 DEF Known
      <4>3. map[k] \in {NULL, p} \/ quiet[k] > min_persistence
        BY <1>f, <4>1
      <4>4. Map!Seen(k, p)
        BY <3>0, <4>2, <4>3 DEF Map!Seen, map, quiet
      <4> QED BY <4>4 DEF Map!Next
    <3> QED BY <3>1, <3>2
  <2>2. ASSUME NEW p \in Ports, HashDeletePort(p) PROVE Map!Next
    <3>1. \A j \in Keys : IF PortIn(h, j) = p THEN Known(h', j, NULL, 0)
                          ELSE Known(h', j, PortIn(h, j), AgeIn(h, j))
      BY <2>2, DeleteStep
    <3> DEFINE S == {k \in Keys : map[k] = p}
    <3>2. /\ map' = [k \in Keys |-> IF k \in S THEN NULL ELSE map[k]]
          /\ quiet' = [k \in Keys |-> IF k \in S THEN 0 ELSE quiet[k]]
      BY <1>f, <3>1 DEF Known
    <3>3. min_persistence' = min_persistence
      BY <2>2 DEF HashDeletePort
    <3>4. Map!ForgetPort(p)
      BY <3>2, <3>3 DEF Map!ForgetPort, Map!Forgotten, map, quiet
    <3> QED BY <3>4 DEF Map!Next
  <2>3. ASSUME NEW n \in Sizes, HashResize(n) PROVE Map!Next
    <3>1. \A j \in Keys : Known(h', j, NULL, 0)
      BY <2>3, ResizeStep
    <3>2. /\ map' = [k \in Keys |-> IF k \in Keys THEN NULL ELSE map[k]]
          /\ quiet' = [k \in Keys |-> IF k \in Keys THEN 0 ELSE quiet[k]]
      BY <1>f, <3>1 DEF Known
    <3>3. min_persistence' = min_persistence
      BY <2>3 DEF HashResize
    <3>4. Map!ForgetAll
      BY <3>2, <3>3 DEF Map!ForgetAll, Map!Forgotten, map, quiet
    <3> QED BY <3>4 DEF Map!Next
  <2>4. ASSUME NEW n \in Persistences, HashSetMinper(n) PROVE Map!Next
    <3>1. h' = h /\ min_persistence' = n
      BY <2>4 DEF HashSetMinper
    <3>2. map' = map /\ quiet' = quiet
      BY <1>f, <3>1
    <3>3. Map!SetMinPer(n)
      BY <3>1, <3>2 DEF Map!SetMinPer, map, quiet
    <3> QED BY <3>3 DEF Map!Next
  <2>5. ASSUME Second PROVE Map!Next
    <3>1. \A j \in Keys :
            Known(h', j, PortIn(h, j),
                  IF PortIn(h, j) # NULL /\ AgeIn(h, j) < MaxAge THEN AgeIn(h, j) + 1
                  ELSE AgeIn(h, j))
      BY <2>5, SecondStep
    <3>2. /\ quiet' = [k \in Keys |->
                         IF map[k] # NULL /\ quiet[k] < MaxAge THEN quiet[k] + 1 ELSE quiet[k]]
          /\ map' = map
      BY <1>f, <3>1 DEF Known
    <3>3. min_persistence' = min_persistence
      BY <2>5 DEF Second
    <3>4. Map!Second
      BY <3>2, <3>3 DEF Map!Second, map, quiet
    <3> QED BY <3>4 DEF Map!Next
  <2>6. CASE HashGc
    BY <2>6, <2>stay DEF HashGc
  <2>7. CASE UNCHANGED vars
    BY <2>7, <2>stay DEF vars
  <2> QED BY <2>1, <2>2, <2>3, <2>4, <2>5, <2>6, <2>7 DEF Next
<1> QED BY <1>1, <1>2, Invariant, PTL DEF Spec, ImplementsMap, Map!Spec
=============================================================================
