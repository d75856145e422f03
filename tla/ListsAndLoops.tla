----------------------------- MODULE ListsAndLoops -----------------------------
(***************************************************************************)
(* What the proofs about the lists and the loops of the code rest on: what *)
(* a list holds after an entry is added or taken off, induction over the   *)
(* rounds of a loop, and that a loop is a function of the number of its    *)
(* rounds.  The models write a loop as a recursive function, of which      *)
(* nothing is known until there is shown to be one.                        *)
(***************************************************************************)
EXTENDS Integers, SequencesExt, SequenceTheorems, WellFoundedInduction, TLAPS

(***************************************************************************)
(* The lists of the code hold each of their elements once: s lists the     *)
(* elements of S.                                                          *)
(***************************************************************************)
Lists(s, S) == IsInjective(s) /\ ToSet(s) = S

LEMMA Places ==
  ASSUME NEW T, NEW s \in Seq(T)
  PROVE  /\ Len(s) \in Nat /\ DOMAIN s = 1 .. Len(s)
         /\ \A i \in 1 .. Len(s) : s[i] \in T /\ s[i] \in ToSet(s)
         /\ \A x \in ToSet(s) : x \in T /\ \E i \in 1 .. Len(s) : s[i] = x
         /\ \A x : Contains(s, x) <=> x \in ToSet(s)
         /\ IsInjective(s) <=> \A i, j \in 1 .. Len(s) : s[i] = s[j] => i = j
<1>1. Len(s) \in Nat /\ DOMAIN s = 1 .. Len(s)
  BY LenProperties
<1>2. \A i \in 1 .. Len(s) : s[i] \in T
  BY ElementOfSeq
<1>3. ToSet(s) = {s[i] : i \in 1 .. Len(s)}
  BY <1>1 DEF ToSet
<1>4. \A x : Contains(s, x) <=> \E i \in 1 .. Len(s) : s[i] = x
  BY DEF Contains
<1>5. IsInjective(s) <=> \A i, j \in 1 .. Len(s) : s[i] = s[j] => i = j
  BY <1>1 DEF IsInjective
<1> QED BY <1>1, <1>2, <1>3, <1>4, <1>5

\* The empty list.
LEMMA NothingListed == \A T : << >> \in Seq(T) /\ Lists(<< >>, {})
<1> TAKE T
<1>1. << >> \in Seq(T) /\ Len(<< >>) = 0
  BY EmptySeq
<1>2. ToSet(<< >>) = {} /\ IsInjective(<< >>)
  BY DEF ToSet, IsInjective
<1> QED BY <1>1, <1>2 DEF Lists

\* What has the entries of s and x, which is new, at place p.
LEMMA ListedMore ==
  ASSUME NEW T, NEW s \in Seq(T), NEW S, Lists(s, S), NEW x \in T, x \notin S,
         NEW r \in Seq(T), Len(r) = Len(s) + 1, NEW p \in 1 .. Len(r), r[p] = x,
         \A i \in 1 .. Len(r) : i # p => r[i] = s[IF i < p THEN i ELSE i - 1]
  PROVE  Lists(r, S \cup {x})
<1>1. /\ Len(s) \in Nat /\ \A i \in 1 .. Len(s) : s[i] \in S /\ s[i] # x
      /\ \A y \in S : \E i \in 1 .. Len(s) : s[i] = y
      /\ \A i, j \in 1 .. Len(s) : s[i] = s[j] => i = j
  BY Places DEF Lists
<1> DEFINE At(i) == IF i < p THEN i ELSE i - 1
<1>2. \A i \in 1 .. Len(r) : i # p => At(i) \in 1 .. Len(s)
  BY <1>1
<1>3. \A i \in 1 .. Len(r) : i # p => r[i] = s[At(i)] /\ r[i] \in S /\ r[i] # x
  BY <1>1, <1>2
<1>4. \A i, j \in 1 .. Len(r) : i # p /\ j # p /\ At(i) = At(j) => i = j
  BY <1>1
<1>5. \A i, j \in 1 .. Len(r) : r[i] = r[j] => i = j
  <2> TAKE i, j \in 1 .. Len(r)
  <2>1. CASE i = p \/ j = p
    BY <1>3, <2>1
  <2>2. CASE i # p /\ j # p
    <3>1. r[i] = r[j] => At(i) = At(j)
      BY <1>1, <1>2, <1>3, <2>2
    <3> QED BY <1>4, <2>2, <3>1
  <2> QED BY <2>1, <2>2
<1>6. \A y \in S : \E i \in 1 .. Len(r) : r[i] = y
  <2> TAKE y \in S
  <2>1. PICK i \in 1 .. Len(s) : s[i] = y
    BY <1>1
  <2> DEFINE j == IF i < p THEN i ELSE i + 1
  <2>2. j \in 1 .. Len(r) /\ j # p /\ At(j) = i
    BY <1>1
  <2>3. r[j] = y
    BY <1>3, <2>1, <2>2
  <2> QED BY <2>2, <2>3
<1>7. ToSet(r) = S \cup {x}
  <2>1. \A y \in ToSet(r) : y \in S \cup {x}
    BY <1>3, Places
  <2>2. \A i \in 1 .. Len(r) : r[i] \in ToSet(r)
    BY Places
  <2> QED BY <1>6, <2>1, <2>2
<1>8. IsInjective(r)
  BY <1>5, Places
<1> QED BY <1>7, <1>8 DEF Lists

LEMMA AppendLists ==
  ASSUME NEW T, NEW s \in Seq(T), NEW S, Lists(s, S), NEW x \in T, x \notin S
  PROVE  Append(s, x) \in Seq(T) /\ Lists(Append(s, x), S \cup {x})
<1> DEFINE r == Append(s, x)
           p == Len(s) + 1
<1>1. /\ r \in Seq(T) /\ Len(r) = p /\ r[p] = x
      /\ \A i \in 1 .. Len(s) : r[i] = s[i]
  BY AppendProperties
<1>2. Len(s) \in Nat
  BY Places
<1> HIDE DEF r
<1>3. p \in 1 .. Len(r) /\ \A i \in 1 .. Len(r) : i # p => r[i] = s[IF i < p THEN i ELSE i - 1]
  BY <1>1, <1>2
<1>4. Lists(r, S \cup {x})
  BY <1>1, <1>3, ListedMore
<1> QED BY <1>1, <1>4 DEF r

LEMMA ConsLists ==
  ASSUME NEW T, NEW s \in Seq(T), NEW S, Lists(s, S), NEW x \in T, x \notin S
  PROVE  <<x>> \o s \in Seq(T) /\ Lists(<<x>> \o s, S \cup {x})
<1> DEFINE r == <<x>> \o s
<1>1. <<x>> \in Seq(T) /\ Len(<<x>>) = 1 /\ <<x>>[1] = x
  OBVIOUS
<1>2. Len(s) \in Nat
  BY Places
<1>3. /\ r \in Seq(T) /\ Len(r) = 1 + Len(s)
      /\ \A i \in 1 .. 1 + Len(s) : r[i] = IF i <= 1 THEN <<x>>[i] ELSE s[i - 1]
  BY <1>1, ConcatProperties
<1> HIDE DEF r
<1>4. /\ 1 \in 1 .. Len(r) /\ r[1] = x
      /\ \A i \in 1 .. Len(r) : i # 1 => r[i] = s[IF i < 1 THEN i ELSE i - 1]
  BY <1>1, <1>2, <1>3
<1>5. Len(r) = Len(s) + 1
  BY <1>2, <1>3
<1>6. Lists(r, S \cup {x})
  BY <1>3, <1>4, <1>5, ListedMore
<1> QED BY <1>3, <1>6 DEF r

\* What has the entries of s but one, in any order.
LEMMA ListedLess ==
  ASSUME NEW T, NEW s \in Seq(T), NEW S, Lists(s, S), NEW p \in 1 .. Len(s),
         NEW r \in Seq(T), Len(r) = Len(s) - 1,
         NEW at \in [1 .. Len(r) -> 1 .. Len(s)],
         \A i \in 1 .. Len(r) : at[i] # p /\ r[i] = s[at[i]],
         \A i, j \in 1 .. Len(r) : at[i] = at[j] => i = j,
         \A k \in 1 .. Len(s) : k # p => \E i \in 1 .. Len(r) : at[i] = k
  PROVE  Lists(r, S \ {s[p]})
<1>1. /\ Len(s) \in Nat /\ \A i \in 1 .. Len(s) : s[i] \in S
      /\ \A y \in S : \E i \in 1 .. Len(s) : s[i] = y
      /\ \A i, j \in 1 .. Len(s) : s[i] = s[j] => i = j
  <2>1. IsInjective(s) /\ ToSet(s) = S
    BY DEF Lists
  <2>2. Len(s) \in Nat /\ \A i \in 1 .. Len(s) : s[i] \in S
    BY <2>1, Places
  <2>3. \A y \in S : \E i \in 1 .. Len(s) : s[i] = y
    BY <2>1, Places
  <2>4. \A i, j \in 1 .. Len(s) : s[i] = s[j] => i = j
    BY <2>1, Places
  <2> QED BY <2>2, <2>3, <2>4
<1>inj. \A i, j \in 1 .. Len(s) : s[i] = s[j] => i = j
  BY <1>1
<1>at. \A i \in 1 .. Len(r) : at[i] \in 1 .. Len(s) /\ at[i] # p /\ r[i] = s[at[i]]
  OBVIOUS
<1>2. \A i \in 1 .. Len(r) : r[i] \in S \ {s[p]}
  <2> TAKE i \in 1 .. Len(r)
  <2>1. at[i] \in 1 .. Len(s) /\ at[i] # p /\ r[i] = s[at[i]]
    BY <1>at
  <2>2. s[at[i]] \in S /\ s[at[i]] # s[p]
    BY <1>1, <2>1
  <2> QED BY <2>1, <2>2
<1>3. \A i, j \in 1 .. Len(r) : r[i] = r[j] => i = j
  <2> TAKE i, j \in 1 .. Len(r)
  <2>1. /\ at[i] \in 1 .. Len(s) /\ r[i] = s[at[i]]
        /\ at[j] \in 1 .. Len(s) /\ r[j] = s[at[j]]
    BY <1>at
  <2>2. s[at[i]] = s[at[j]] => at[i] = at[j]
    BY <1>inj, <2>1
  <2> QED BY <2>1, <2>2
<1>4. \A y \in S \ {s[p]} : \E i \in 1 .. Len(r) : r[i] = y
  <2> TAKE y \in S \ {s[p]}
  <2>1. PICK k \in 1 .. Len(s) : s[k] = y
    BY <1>1
  <2>2. PICK i \in 1 .. Len(r) : at[i] = k
    BY <2>1
  <2> QED BY <2>1, <2>2
<1>5. ToSet(r) = S \ {s[p]}
  <2>1. \A y \in ToSet(r) : y \in S \ {s[p]}
    BY <1>2, Places
  <2>2. \A i \in 1 .. Len(r) : r[i] \in ToSet(r)
    BY Places
  <2> QED BY <1>4, <2>1, <2>2
<1>6. IsInjective(r)
  BY <1>3, Places
<1> QED BY <1>5, <1>6 DEF Lists

LEMMA RemoveAtIn ==
  ASSUME NEW T, NEW s \in Seq(T), NEW p \in 1 .. Len(s)
  PROVE  /\ RemoveAt(s, p) \in Seq(T)
         /\ Len(RemoveAt(s, p)) = Len(s) - 1
         /\ \A i \in 1 .. Len(s) - 1 : RemoveAt(s, p)[i] = s[IF i < p THEN i ELSE i + 1]
<1> DEFINE n == Len(s)
           a == SubSeq(s, 1, p - 1)
           b == SubSeq(s, p + 1, n)
           r == RemoveAt(s, p)
<1>1. n \in Nat /\ \A i \in 1 .. n : s[i] \in T
  BY Places
<1> HIDE DEF n
<1>p. p \in Int /\ 1 <= p /\ p <= n
  BY <1>1 DEF n
<1>2. /\ a \in Seq(T) /\ Len(a) = p - 1
      /\ \A i \in 1 .. p - 1 : a[i] = s[i]
  <2>1. \A i \in 1 .. p - 1 : s[i] \in T
    BY <1>1, <1>p
  <2>2. /\ a \in Seq(T) /\ Len(a) = IF 1 <= p - 1 THEN (p - 1) - 1 + 1 ELSE 0
        /\ \A i \in 1 .. (p - 1) - 1 + 1 : a[i] = s[1 + i - 1]
    BY <1>p, <2>1, SubSeqProperties
  <2> HIDE DEF a
  <2> QED BY <1>p, <2>2
<1>3. /\ b \in Seq(T) /\ Len(b) = n - p
      /\ \A i \in 1 .. n - p : b[i] = s[p + i]
  <2>1. \A i \in p + 1 .. n : s[i] \in T
    BY <1>1, <1>p
  <2>2. /\ b \in Seq(T) /\ Len(b) = IF p + 1 <= n THEN n - (p + 1) + 1 ELSE 0
        /\ \A i \in 1 .. n - (p + 1) + 1 : b[i] = s[(p + 1) + i - 1]
    BY <1>1, <1>p, <2>1, SubSeqProperties
  <2> HIDE DEF b
  <2> QED BY <1>1, <1>p, <2>2
<1>4. r = a \o b
  BY DEF RemoveAt, n
<1> HIDE DEF a, b, r
<1>5. /\ r \in Seq(T) /\ Len(r) = Len(a) + Len(b)
      /\ \A i \in 1 .. Len(a) + Len(b) : r[i] = IF i <= Len(a) THEN a[i] ELSE b[i - Len(a)]
  BY <1>2, <1>3, <1>4, ConcatProperties
<1>6. Len(r) = n - 1
  BY <1>1, <1>p, <1>2, <1>3, <1>5
<1>7. \A i \in 1 .. n - 1 : r[i] = s[IF i < p THEN i ELSE i + 1]
  <2> TAKE i \in 1 .. n - 1
  <2>1. CASE i < p
    <3>1. i \in 1 .. p - 1 /\ i <= Len(a) /\ i \in 1 .. Len(a) + Len(b)
      BY <1>1, <1>p, <1>2, <1>3, <2>1
    <3> QED BY <1>2, <1>5, <2>1, <3>1
  <2>2. CASE ~(i < p)
    <3>1. i - (p - 1) \in 1 .. n - p /\ ~(i <= Len(a)) /\ i \in 1 .. Len(a) + Len(b)
      BY <1>1, <1>p, <1>2, <1>3, <2>2
    <3>2. p + (i - (p - 1)) = i + 1
      BY <1>p, <1>1
    <3>3. r[i] = b[i - (p - 1)] /\ b[i - (p - 1)] = s[p + (i - (p - 1))]
      BY <1>2, <1>3, <1>5, <3>1
    <3> QED BY <2>2, <3>2, <3>3
  <2> QED BY <2>1, <2>2
<1> QED BY <1>5, <1>6, <1>7 DEF n, r

LEMMA RemoveAtLists ==
  ASSUME NEW T, NEW s \in Seq(T), NEW S, Lists(s, S), NEW p \in 1 .. Len(s)
  PROVE  RemoveAt(s, p) \in Seq(T) /\ Lists(RemoveAt(s, p), S \ {s[p]})
<1> DEFINE n == Len(s)
           r == RemoveAt(s, p)
<1>1. n \in Nat /\ p \in 1 .. n
  BY Places
<1>2. /\ r \in Seq(T) /\ Len(r) = n - 1
      /\ \A i \in 1 .. n - 1 : r[i] = s[IF i < p THEN i ELSE i + 1]
  BY RemoveAtIn
<1> HIDE DEF n, r
<1> DEFINE at == [i \in 1 .. Len(r) |-> IF i < p THEN i ELSE i + 1]
<1>3. /\ at \in [1 .. Len(r) -> 1 .. n]
      /\ \A i, j \in 1 .. Len(r) : at[i] = at[j] => i = j
  BY <1>1, <1>2
<1>4. \A i \in 1 .. Len(r) : at[i] # p /\ r[i] = s[at[i]]
  BY <1>1, <1>2
<1>5. \A k \in 1 .. n : k # p => \E i \in 1 .. Len(r) : at[i] = k
  <2> TAKE k \in 1 .. n
  <2> HAVE k # p
  <2> DEFINE i == IF k < p THEN k ELSE k - 1
  <2>1. i \in 1 .. Len(r) /\ at[i] = k
    BY <1>1, <1>2
  <2> QED BY <2>1
<1> HIDE DEF at
<1>6. Lists(r, S \ {s[p]})
  <2>1. n = Len(s)
    BY DEF n
  <2> QED BY <1>1, <1>2, <1>3, <1>4, <1>5, <2>1, ListedLess
<1> QED BY <1>2, <1>6 DEF r

-----------------------------------------------------------------------------
(***************************************************************************)
(* Induction: a set of numbers that is not empty has a least one.          *)
(***************************************************************************)
LEMMA LeastNat ==
  ASSUME NEW T, T \subseteq Nat, T # {}
  PROVE  \E m \in T : \A k \in T : m <= k
<1> DEFINE R == OpToRel(<, Nat)
<1>1. IsWellFoundedOn(R, Nat)
  BY NatLessThanWellFounded
<1>2. \A k, m \in Nat : k < m => <<k, m>> \in R
  BY DEF OpToRel
<1> HIDE DEF R
<1>3. PICK m \in T : \A k \in T : ~(<<k, m>> \in R)
  BY <1>1, WFMin
<1>4. \A k \in T : k \in Nat /\ m \in Nat
  OBVIOUS
<1>5. \A k \in T : m <= k
  <2> TAKE k \in T
  <2>1. ~(k < m)
    BY <1>2, <1>3, <1>4
  <2> QED BY <1>4, <2>1
<1> QED BY <1>5

\* A property of the numbers up to n: the least number without it is not 0.
LEMMA UpTo ==
  ASSUME NEW n \in Nat, NEW G, 0 \in G,
         \A i \in 1 .. n : i - 1 \in G => i \in G
  PROVE  \A i \in 0 .. n : i \in G
<1> SUFFICES ASSUME NEW j \in 0 .. n, j \notin G PROVE FALSE
  OBVIOUS
<1> DEFINE T == {i \in 0 .. n : i \notin G}
<1>1. PICK m \in T : \A k \in T : m <= k
  <2>1. T \subseteq Nat /\ T # {}
    OBVIOUS
  <2> HIDE DEF T
  <2> QED BY <2>1, LeastNat
<1>2. m \in 1 .. n
  OBVIOUS
<1>3. m - 1 \in G
  BY <1>1, <1>2
<1> QED BY <1>2, <1>3

(***************************************************************************)
(* A loop of n rounds that starts at a and in round i does the step, with  *)
(* what it has reached, is a function of the number of rounds.             *)
(***************************************************************************)
HasRounds(n, S, a, step) ==
  \E f \in [0 .. n -> S] :
    f = [i \in 0 .. n |-> IF i = 0 THEN a ELSE step[<<i, f[i - 1]>>]]

LEMMA RoundsExist ==
  ASSUME NEW n \in Nat, NEW S, NEW a \in S, NEW step \in [(1 .. n) \X S -> S]
  PROVE  HasRounds(n, S, a, step)
<1> DEFINE Runs(m) == \E f \in [0 .. m -> S] :
                        \A i \in 0 .. m : f[i] = IF i = 0 THEN a ELSE step[<<i, f[i - 1]>>]
           G == {m \in 0 .. n : Runs(m)}
<1>1. 0 \in G
  <2> DEFINE f == [i \in 0 .. 0 |-> a]
  <2>1. f \in [0 .. 0 -> S] /\ \A i \in 0 .. 0 : f[i] = a /\ i = 0
    OBVIOUS
  <2> HIDE DEF f
  <2> QED BY <2>1
<1>2. ASSUME NEW m \in 1 .. n, m - 1 \in G PROVE m \in G
  <2>1. PICK g \in [0 .. m - 1 -> S] :
          \A i \in 0 .. m - 1 : g[i] = IF i = 0 THEN a ELSE step[<<i, g[i - 1]>>]
    BY <1>2
  <2> DEFINE f == [i \in 0 .. m |-> IF i = m THEN step[<<m, g[m - 1]>>] ELSE g[i]]
  <2>2. f \in [0 .. m -> S]
    <3>1. step[<<m, g[m - 1]>>] \in S
      OBVIOUS
    <3> QED BY <3>1
  <2>3. \A i \in 0 .. m : f[i] = IF i = 0 THEN a ELSE step[<<i, f[i - 1]>>]
    <3> TAKE i \in 0 .. m
    <3>1. CASE i = m
      <4>1. f[i] = step[<<m, g[m - 1]>>] /\ i # 0
        BY <3>1
      <4>2. f[m - 1] = g[m - 1]
        OBVIOUS
      <4> QED BY <3>1, <4>1, <4>2
    <3>2. CASE i # m
      <4>1. i \in 0 .. m - 1 /\ f[i] = g[i]
        BY <3>2
      <4>2. i # 0 => f[i - 1] = g[i - 1]
        BY <3>2
      <4> QED BY <2>1, <4>1, <4>2
    <3> QED BY <3>1, <3>2
  <2> HIDE DEF f
  <2>4. m \in 0 .. n
    OBVIOUS
  <2> QED BY <2>2, <2>3, <2>4
<1>n. n \in 0 .. n
  OBVIOUS
<1> HIDE DEF G
<1>3. n \in G
  BY <1>1, <1>2, <1>n, UpTo
<1>4. PICK f \in [0 .. n -> S] :
        \A i \in 0 .. n : f[i] = IF i = 0 THEN a ELSE step[<<i, f[i - 1]>>]
  BY <1>3 DEF G
<1>5. f = [i \in 0 .. n |-> f[i]]
  OBVIOUS
<1>6. f = [i \in 0 .. n |-> IF i = 0 THEN a ELSE step[<<i, f[i - 1]>>]]
  BY <1>4, <1>5
<1> QED BY <1>6 DEF HasRounds

\* A loop in which every round does the same.
LEMMA LoopExists ==
  ASSUME NEW n \in Nat
  PROVE  \A S : \A a \in S : \A step \in [S -> S] :
           \E f \in [0 .. n -> S] :
             f = [i \in 0 .. n |-> IF i = 0 THEN a ELSE step[f[i - 1]]]
<1> TAKE S
<1> TAKE a \in S
<1> TAKE step \in [S -> S]
<1> DEFINE round == [p \in (1 .. n) \X S |-> step[p[2]]]
<1>1. round \in [(1 .. n) \X S -> S] /\ \A i \in 1 .. n : \A x \in S : round[<<i, x>>] = step[x]
  OBVIOUS
<1> HIDE DEF round
<1>2. PICK f \in [0 .. n -> S] :
        f = [i \in 0 .. n |-> IF i = 0 THEN a ELSE round[<<i, f[i - 1]>>]]
  <2>1. HasRounds(n, S, a, round)
    BY <1>1, RoundsExist
  <2> QED BY <2>1 DEF HasRounds
<1>3. \A i \in 0 .. n : f[i] = IF i = 0 THEN a ELSE step[f[i - 1]]
  <2> TAKE i \in 0 .. n
  <2>1. f[i] = IF i = 0 THEN a ELSE round[<<i, f[i - 1]>>]
    BY <1>2
  <2>2. i # 0 => i \in 1 .. n /\ f[i - 1] \in S
    OBVIOUS
  <2> QED BY <1>1, <2>1, <2>2
<1>4. f = [i \in 0 .. n |-> f[i]]
  OBVIOUS
<1>5. f = [i \in 0 .. n |-> IF i = 0 THEN a ELSE step[f[i - 1]]]
  BY <1>3, <1>4
<1> QED BY <1>5
=============================================================================
