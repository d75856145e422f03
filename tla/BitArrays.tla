------------------------------ MODULE BitArrays ------------------------------
(***************************************************************************)
(* The sets of winvde_port.c as bitarray.h keeps them: ports of a VLAN     *)
(* (ba_), and the defined VLANs with their number behind the last word     *)
(* (bac_).  On 64-bit Windows an index is split for words of 64 bits while *)
(* the elements, of type unsigned long, have 32: half of the members of a  *)
(* word share their bits with the other half, as a shift of a 32-bit value *)
(* counts modulo 32.  Here an element has Bits bits.                       *)
(***************************************************************************)
EXTENDS Naturals, FiniteSets

CONSTANTS
  Bits,     \* the bits of an element
  MinSize,  \* members a set is allocated for at first
  MaxSize   \* bound: members of a set

ASSUME BitArraysAssumption ==
  /\ Bits \in Nat \ {0}
  /\ MinSize \in Nat \ {0} /\ MaxSize \in Nat /\ MinSize <= MaxSize

WordSize == 2 * Bits   \* __VDEWORDSIZE

VARIABLES
  x,         \* a ba_ array: word -> the bits that are set in it
  size,      \* the members it was allocated for
  v,         \* a bac_ array
  card,      \* its trailing word
  xset,      \* history: the set x stands for
  vset,      \* history: the set v stands for
  beyond     \* history: a member was used whose bit an element does not have

bitVars == <<x, size, v, card, xset, vset, beyond>>

-----------------------------------------------------------------------------
WordsFor(n) == (n + WordSize - 1) \div WordSize   \* __WORDSIZEROUND

WordOf(i) == i \div WordSize

\* 1L << (index & __WORDSIZEMASK)
BitOf(i) == (i % WordSize) % Bits

\* Members whose bit is their own.
OwnBit(i) == i % WordSize < Bits

BitCheck(a, i) == BitOf(i) \in a[WordOf(i)]

BitSet(a, i) == [a EXCEPT ![WordOf(i)] = @ \cup {BitOf(i)}]

BitClr(a, i) == [a EXCEPT ![WordOf(i)] = @ \ {BitOf(i)}]

BitAlloc(n) == [w \in 0 .. WordsFor(n) - 1 |-> {}]

\* A bug: the old words are cleared as well.
BitReallocCleared(a, m) == [w \in 0 .. WordsFor(m) - 1 |-> {}]

(***************************************************************************)
(* ba_realloc: new words are cleared.  The mask for the last old word is   *)
(* -1 shifted right, which is -1 again; where the array has shrunk that    *)
(* word is behind its end.                                                 *)
(***************************************************************************)
BitRealloc(a, m) == [w \in 0 .. WordsFor(m) - 1 |-> IF w \in DOMAIN a THEN a[w] ELSE {}]

\* The members ba_FORALL and bac_FORALL visit; a shifted element is 0 after Bits steps.
BitForAll(a) == UNION {{w * WordSize + j : j \in a[w]} : w \in DOMAIN a}

-----------------------------------------------------------------------------
BitInit ==
  /\ size = MinSize
  /\ x = BitAlloc(size) /\ v = BitAlloc(MaxSize) /\ card = 0
  /\ xset = {} /\ vset = {}
  /\ beyond = FALSE

UsesMember(i) == beyond' = (beyond \/ ~OwnBit(i))

BaSet(i) ==
  /\ i < size
  /\ x' = BitSet(x, i) /\ xset' = xset \cup {i}
  /\ UsesMember(i) /\ UNCHANGED <<size, v, card, vset>>

BaClr(i) ==
  /\ i < size
  /\ x' = BitClr(x, i) /\ xset' = xset \ {i}
  /\ UsesMember(i) /\ UNCHANGED <<size, v, card, vset>>

\* portsetnumports: no port from m on is in a set any more.
BaRealloc(m) ==
  /\ \A i \in xset : i < m
  /\ x' = BitRealloc(x, m) /\ size' = m
  /\ UNCHANGED <<v, card, xset, vset, beyond>>

\* The number changes with a bit that changes.
BacSet(i) ==
  /\ v' = BitSet(v, i) /\ vset' = vset \cup {i}
  /\ card' = IF BitCheck(v, i) THEN card ELSE card + 1
  /\ UsesMember(i) /\ UNCHANGED <<x, size, xset>>

BacClr(i) ==
  /\ v' = BitClr(v, i) /\ vset' = vset \ {i}
  /\ card' = IF BitCheck(v, i) THEN card - 1 ELSE card
  /\ UsesMember(i) /\ UNCHANGED <<x, size, xset>>

BitNext ==
  \/ \E i \in 0 .. MaxSize - 1 : BaSet(i) \/ BaClr(i) \/ BacSet(i) \/ BacClr(i)
  \/ \E m \in MinSize .. MaxSize : BaRealloc(m)

BitSpec == BitInit /\ [][BitNext]_bitVars

-----------------------------------------------------------------------------
BitTypeOK ==
  /\ size \in MinSize .. MaxSize
  /\ x \in [0 .. WordsFor(size) - 1 -> SUBSET (0 .. Bits - 1)]
  /\ v \in [0 .. WordsFor(MaxSize) - 1 -> SUBSET (0 .. Bits - 1)]
  /\ card \in 0 .. MaxSize
  /\ xset \subseteq 0 .. MaxSize - 1 /\ vset \subseteq 0 .. MaxSize - 1
  /\ beyond \in BOOLEAN

(***************************************************************************)
(* "A bitarray [...] can be used as a set" (bitarray.h:7): as long as only *)
(* members are used whose bit an element has (with 32 bits, those below 32 *)
(* of each 64), a check tells membership, the loops visit the members, and *)
(* the number that ends the loops over a bac_ array is right, through any  *)
(* growth of the array.                                                    *)
(***************************************************************************)
BitsAreSets ==
  ~beyond =>
    /\ \A i \in 0 .. size - 1 : OwnBit(i) => (BitCheck(x, i) <=> i \in xset)
    /\ BitForAll(x) = xset
    /\ BitForAll(v) = vset
    /\ card = Cardinality(vset)
=============================================================================
