------------------------------ MODULE MacTable ------------------------------
(***************************************************************************)
(* The MAC table of winvde_switch (winvde_hash.c) with its collector       *)
(* (winvde_gc.c): an array of buckets, each the head of a chain of         *)
(* entries, where an entry's prev is the address of the pointer to it.     *)
(*                                                                         *)
(* An entry is a cell of the heap.  A pointer's address is <<"head", b>>   *)
(* or <<"next", c>>.  The table is a record h of the array and the heap,   *)
(* and the loops of the code are functions over it.                        *)
(***************************************************************************)
EXTENDS Integers, FiniteSets

CONSTANTS
  Keys,     \* a MAC address with its VLAN (extmac)
  HashOf,   \* calc_hash before the mask
  Ports,
  Cells,    \* the memory entries are allocated from
  Sizes,    \* sizes that are asked for
  MaxBits,  \* bound on hash_bits
  MaxAge,   \* bound: seconds are counted up to here
  Persistences, \* what min_persistence is set to
  NULL

\* HASH_SIZE, 1 << bits
HashSize[bits \in 0 .. MaxBits] == IF bits = 0 THEN 1 ELSE 2 * HashSize[bits - 1]

ASSUME MacTableAssumption ==
  /\ HashOf \in [Keys -> Nat]
  /\ NULL \notin Cells \cup Ports
  /\ IsFiniteSet(Cells)
  /\ MaxBits \in Nat /\ MaxAge \in Nat
  /\ Persistences \subseteq Int
  /\ \A n \in Sizes : n \in 1 .. HashSize[MaxBits]

VARIABLES
  up,         \* the process runs
  hash_bits,
  h,
  min_persistence

vars == <<up, hash_bits, h, min_persistence>>

-----------------------------------------------------------------------------
Buckets(bits) == 0 .. HashSize[bits] - 1

Bucket(k) == HashOf[k] % HashSize[hash_bits]

\* po2round: the number of bits of the least power of 2 that is not below n.
Po2Round(n) ==
  CHOOSE i \in 0 .. MaxBits : n <= HashSize[i] /\ \A j \in 0 .. i - 1 : HashSize[j] < n

EmptyArray(bits) == [b \in Buckets(bits) |-> NULL]

Allocated == {c \in Cells : h.cell[c] # NULL}

Length == Cardinality(Cells)  \* no chain is longer

\* The entries of the chain of bucket b.
Follow(p) == IF p = NULL THEN NULL ELSE h.cell[p].next

Chain(b) ==
  LET at[i \in 0 .. Length] == IF i = 0 THEN h.head[b] ELSE Follow(at[i - 1])
  IN {at[i] : i \in 0 .. Length} \ {NULL}

\* The entries that for_all_hash visits; their order decides nothing.
Visited == UNION {Chain(b) : b \in Buckets(hash_bits)}

\* Where the loop of find_in_hash_update ends: at k's entry, or at NULL.
Advance(k, p) == IF p = NULL \/ h.cell[p].dst = k THEN p ELSE h.cell[p].next

Found(k) ==
  LET at[i \in 0 .. Length] == IF i = 0 THEN h.head[Bucket(k)] ELSE Advance(k, at[i - 1])
  IN at[Length]

(***************************************************************************)
(* A new entry becomes the head of its chain.                              *)
(***************************************************************************)
LinkedLoosely(c, k, p) ==
  LET b == Bucket(k) IN
  [head |-> [h.head EXCEPT ![b] = c],
   cell |-> [h.cell EXCEPT ![c] = [dst |-> k, port |-> p, age |-> 0, next |-> h.head[b],
                                   prev |-> <<"head", b>>]]]

Linked(c, k, p) ==
  LET b == Bucket(k) IN
  [head |-> [h.head EXCEPT ![b] = c],
   cell |-> [d \in Cells |->
               IF d = c THEN [dst |-> k, port |-> p, age |-> 0, next |-> h.head[b],
                              prev |-> <<"head", b>>]
               ELSE IF d = h.head[b] THEN [h.cell[d] EXCEPT !.prev = <<"next", c>>]
               ELSE h.cell[d]]]

(***************************************************************************)
(* delete_hash_entry, on the table g.                                      *)
(***************************************************************************)
Unlinked(g, c) ==
  LET next == g.cell[c].next
      prev == g.cell[c].prev IN
  [head |-> [b \in DOMAIN g.head |-> IF prev = <<"head", b>> THEN next ELSE g.head[b]],
   cell |-> [d \in Cells |->
               IF d = c THEN NULL
               ELSE IF prev = <<"next", d>> THEN [g.cell[d] EXCEPT !.next = next]
               ELSE IF d = next THEN [g.cell[d] EXCEPT !.prev = prev]
               ELSE g.cell[d]]]

\* for_all_hash, deleting the entries of S that it comes by, in any order.
Without(S) ==
  LET left[T \in SUBSET (S \cap Visited)] ==
        IF T = {} THEN h
        ELSE LET c == CHOOSE d \in T : TRUE IN Unlinked(left[T \ {c}], c)
  IN left[S \cap Visited]

OldEnoughEarly(age) == age >= min_persistence

OldEnough(age) == age > min_persistence

-----------------------------------------------------------------------------
Init ==
  /\ up = TRUE
  /\ \E n \in Sizes : hash_bits = Po2Round(n)
  /\ h = [head |-> EmptyArray(hash_bits), cell |-> [c \in Cells |-> NULL]]
  /\ min_persistence \in Persistences

(***************************************************************************)
(* find_in_hash_update: a frame from k on port p.  An entry is made when   *)
(* there is memory; an entry of another port moves when it is old enough.  *)
(***************************************************************************)
FindInHashUpdate(k, p) ==
  /\ up
  /\ IF Found(k) = NULL
     THEN \/ \E c \in Cells \ Allocated : h' = Linked(c, k, p)
          \/ UNCHANGED h
     ELSE LET c == Found(k) IN
          IF h.cell[c].port = p \/ OldEnough(h.cell[c].age)
          THEN h' = [h EXCEPT !.cell[c].port = p, !.cell[c].age = 0]
          ELSE UNCHANGED h
  /\ UNCHANGED <<up, hash_bits, min_persistence>>

\* hash_delete_port
HashDeletePort(p) ==
  /\ up
  /\ h' = Without({c \in Allocated : h.cell[c].port = p})
  /\ UNCHANGED <<up, hash_bits, min_persistence>>

\* hash/setsize N: the entries are freed and a new array is made.
FlushedNot == h.cell

Flushed == Without(Allocated).cell

BitsKept(n) == hash_bits

BitsFor(n) == Po2Round(n)

HashResize(n) ==
  /\ up
  /\ hash_bits' = BitsFor(n)
  /\ h' = [head |-> EmptyArray(Po2Round(n)), cell |-> Flushed]
  /\ UNCHANGED <<up, min_persistence>>

\* hash/setminper N: any number.
HashSetMinper(n) ==
  /\ up
  /\ min_persistence' = n
  /\ UNCHANGED <<up, hash_bits, h>>

\* A second passes: qtime() - last_seen grows for every entry.
Second ==
  /\ up
  /\ h' = [h EXCEPT !.cell = [c \in Cells |->
             IF c \in Allocated /\ h.cell[c].age < MaxAge
             THEN [h.cell[c] EXCEPT !.age = @ + 1] ELSE h.cell[c]]]
  /\ UNCHANGED <<up, hash_bits, min_persistence>>

\* hash_gc hands the null pointer it was given on to gc, which reads the time
\* there for every entry: the process ends at the first one.
HashGc ==
  /\ up
  /\ Visited # {}
  /\ up' = FALSE
  /\ UNCHANGED <<hash_bits, h, min_persistence>>

Next ==
  \/ \E k \in Keys, p \in Ports : FindInHashUpdate(k, p)
  \/ \E p \in Ports : HashDeletePort(p)
  \/ \E n \in Sizes : HashResize(n)
  \/ \E n \in Persistences : HashSetMinper(n)
  \/ Second
  \/ HashGc

Spec == Init /\ [][Next]_vars

(***************************************************************************)
(* find_entry: the loop's pointer is null when it starts, so nothing is    *)
(* found; find_in_hash returns -1, here NULL.                              *)
(***************************************************************************)
FindEntry(k) == NULL

FindInHash(k) == IF FindEntry(k) = NULL THEN NULL ELSE h.cell[FindEntry(k)].port

-----------------------------------------------------------------------------
Entry == [dst : Keys, port : Ports, age : 0 .. MaxAge, next : Cells \cup {NULL},
          prev : ({"head"} \X Buckets(MaxBits)) \cup ({"next"} \X Cells)]

ASSUME NoEntryAssumption == NULL \notin Entry

(***************************************************************************)
(* Type invariant.                                                         *)
(***************************************************************************)
TypeOK ==
  /\ up \in BOOLEAN
  /\ hash_bits \in 0 .. MaxBits
  /\ h.head \in [Buckets(hash_bits) -> Cells \cup {NULL}]
  /\ h.cell \in [Cells -> Entry \cup {NULL}]
  /\ min_persistence \in Persistences

(***************************************************************************)
(* The pointers fit: an entry is in the chain of its address's bucket and  *)
(* prev is the address of the one pointer to it, through insertions at the *)
(* head, deletions anywhere, during a walk too, and changes of the size.   *)
(* Otherwise an entry is lost or a freed one reached.                      *)
(***************************************************************************)
WellLinked ==
  /\ \A b \in Buckets(hash_bits) : Chain(b) \subseteq Allocated
  /\ \A c \in Allocated :
       /\ c \in Chain(Bucket(h.cell[c].dst))
       /\ \/ h.cell[c].prev[1] = "head" /\ h.head[h.cell[c].prev[2]] = c
          \/ h.cell[c].prev[1] = "next" /\ h.cell[h.cell[c].prev[2]].next = c

(***************************************************************************)
(* An address has one entry: the walk of find_in_hash_update finds the one *)
(* that an earlier frame made, wherever it is in the chain.                *)
(***************************************************************************)
OneEntryPerAddress ==
  \A c, d \in Allocated : h.cell[c].dst = h.cell[d].dst => c = d

(***************************************************************************)
(* The table implements the map that the port handlers rely on: what is    *)
(* known of an address is what its entry in the heap says.                 *)
(***************************************************************************)
Of(k, field, none) ==
  IF \E c \in Allocated : h.cell[c].dst = k
  THEN h.cell[CHOOSE c \in Allocated : h.cell[c].dst = k][field] ELSE none

Map == INSTANCE MacMap WITH
         Nowhere <- NULL,
         map     <- [k \in Keys |-> Of(k, "port", NULL)],
         quiet   <- [k \in Keys |-> Of(k, "age", 0)],
         minper  <- min_persistence

ImplementsMap == Map!Spec

(***************************************************************************)
(* "looks in global hash table 'h' for given address, and return           *)
(* associated port" (winvde_hash.c:383-384).                               *)
(***************************************************************************)
LookupFindsLearned ==
  \A k \in Keys : Found(k) # NULL => FindInHash(k) = h.cell[Found(k)].port
=============================================================================
