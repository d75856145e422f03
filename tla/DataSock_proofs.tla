---------------------------- MODULE DataSock_proofs ----------------------------
(***************************************************************************)
(* What holds of the descriptor table and the main loop of winvde_switch   *)
(* for any number of sockets and endpoints.                                *)
(***************************************************************************)
EXTENDS DataSock, SequenceTheorems, TLAPS

(***************************************************************************)
(* A table between two calls: the entries that are polled first are in     *)
(* front and fdperm finds them; each descriptor has one entry; no index    *)
(* lies further behind an entry than the position after it; and the        *)
(* entries that stand, the two listening sockets and the console, are no   *)
(* priority ones, so the last entry, whose index remove_fd spoils, is      *)
(* never one either.                                                       *)
(***************************************************************************)
Numbers == Fds \cup Standing

TableType == [fds : Seq(Entry(Endpoints)), nprio : Nat, fdperm : [Numbers -> Nat]]

PrioInFront(s) ==
  /\ s.nprio \in 0 .. Size(s)
  /\ \A i \in 1 .. Size(s) : IsPrio(s.fds[i]) <=> i <= s.nprio

OneEntryEach(s) == \A i, j \in 1 .. Size(s) : s.fds[i].fd = s.fds[j].fd => i = j

PermNear(s) == \A i \in 1 .. Size(s) : s.fdperm[s.fds[i].fd] \in 1 .. i + 1

PermOfPrio(s) == \A i \in 1 .. s.nprio : s.fdperm[s.fds[i].fd] = i

ListenersStand(s) ==
  /\ CtlFd \in Registered(s)
  /\ \A i \in 1 .. Size(s) : s.fds[i].fd \in Standing => ~IsPrio(s.fds[i])

Sound(s) ==
  /\ s \in TableType
  /\ PrioInFront(s)
  /\ OneEntryEach(s)
  /\ PermNear(s)
  /\ PermOfPrio(s)
  /\ ListenersStand(s)

LEMMA SeqOfFunction ==
  ASSUME NEW S, NEW n \in Nat, NEW f \in [1 .. n -> S]
  PROVE  f \in Seq(S) /\ Len(f) = n
BY SeqDef

(***************************************************************************)
(* add_fd keeps a table sound.                                             *)
(***************************************************************************)
LEMMA AddFdSound ==
  ASSUME NEW s, Sound(s), NEW e \in Entry(Endpoints), e.fd \notin Registered(s),
         e.fd \in Standing => ~IsPrio(e)
  PROVE  /\ Sound(AddFd(s, e))
         /\ Size(AddFd(s, e)) = Size(s) + 1
         /\ Registered(AddFd(s, e)) = Registered(s) \cup {e.fd}
         /\ \A i \in 1 .. Size(s) : \E j \in 1 .. Size(s) + 1 : AddFd(s, e).fds[j] = s.fds[i]
<1> DEFINE n == Size(s)
           p == Position(s, e)
           a == AddFd(s, e)
<1>1. /\ n \in Nat /\ s.nprio \in 0 .. n
      /\ s.fds \in [1 .. n -> Entry(Endpoints)]
      /\ s.fdperm \in [Numbers -> Nat]
  BY LenProperties DEF Sound, TableType, PrioInFront, Size
<1>2. p = IF IsPrio(e) THEN s.nprio + 1 ELSE n + 1
  BY <1>1 DEF Position, Size
<1>range. n \in Nat /\ p \in Nat /\ 1 <= p /\ p <= n + 1
  BY <1>1, <1>2
<1>3. /\ a = [fds |-> a.fds, nprio |-> a.nprio, fdperm |-> a.fdperm]
      /\ a.fds = [i \in 1 .. n + 1 |-> IF i = p THEN e
                                     ELSE IF i = n + 1 THEN s.fds[p] ELSE s.fds[i]]
      /\ a.nprio = IF IsPrio(e) THEN s.nprio + 1 ELSE s.nprio
      /\ a.fdperm = [s.fdperm EXCEPT ![e.fd] = p]
  BY DEF AddFd
<1>4. e.fd \in Numbers /\ \A i \in 1 .. n : s.fds[i].fd # e.fd /\ s.fds[i].fd \in Numbers
  BY <1>1 DEF Registered, Entry, Numbers, Size
<1>5. \A i \in 1 .. n : IsPrio(s.fds[i]) <=> i <= s.nprio
  BY DEF Sound, PrioInFront
<1>6. \A i, j \in 1 .. n : s.fds[i].fd = s.fds[j].fd => i = j
  BY DEF Sound, OneEntryEach
<1>7. \A i \in 1 .. n : s.fdperm[s.fds[i].fd] \in 1 .. i + 1
  BY DEF Sound, PermNear
<1>8. \A i \in 1 .. s.nprio : s.fdperm[s.fds[i].fd] = i
  BY DEF Sound, PermOfPrio
<1>9. \A i \in 1 .. n : s.fds[i].fd \in Standing => ~IsPrio(s.fds[i])
  BY DEF Sound, ListenersStand
<1>10. Registered(s) = {s.fds[i].fd : i \in 1 .. n} /\ CtlFd \in Registered(s)
  BY DEF Registered, Sound, ListenersStand
<1> HIDE DEF n, p, a
<1>11. \A j \in 1 .. n : j # p => a.fds[j] = s.fds[j]
  BY <1>1, <1>2, <1>range, <1>3
<1>12. a.fds[p] = e /\ (p # n + 1 => a.fds[n + 1] = s.fds[p])
  BY <1>1, <1>2, <1>range, <1>3
<1>13. /\ a.fdperm[e.fd] = p
       /\ \A f \in Numbers : f # e.fd => a.fdperm[f] = s.fdperm[f]
  BY <1>1, <1>3, <1>4
<1>14. a.fds \in Seq(Entry(Endpoints)) /\ Size(a) = n + 1
  <2>1. n + 1 \in Nat
    BY <1>1
  <2>2. a.fds \in [1 .. n + 1 -> Entry(Endpoints)]
    BY <1>1, <1>2, <1>range, <1>3
  <2> QED BY <2>1, <2>2, SeqOfFunction DEF Size
<1>15. a \in TableType
  <2>1. a.nprio \in Nat
    BY <1>1, <1>3
  <2>2. a.fdperm \in [Numbers -> Nat]
    BY <1>1, <1>2, <1>range, <1>3
  <2> QED BY <1>3, <1>14, <2>1, <2>2 DEF TableType
\* Each position of the new table holds e, the entry e displaced, or an old one.
<1>16. \A j \in 1 .. n + 1 :
         \/ j = p
         \/ j # p /\ j = n + 1 /\ p \in 1 .. n
         \/ j # p /\ j \in 1 .. n
  BY <1>range
<1>17. Registered(a) = Registered(s) \cup {e.fd}
  <2>1. Registered(a) = {a.fds[j].fd : j \in 1 .. n + 1}
    BY <1>14 DEF Registered
  <2>2. ASSUME NEW f \in Registered(a) PROVE f \in Registered(s) \cup {e.fd}
    BY <1>10, <1>11, <1>12, <1>16, <2>1
  <2>3. e.fd \in Registered(a)
    <3>1. p \in 1 .. n + 1
      BY <1>range
    <3> QED BY <1>12, <2>1, <3>1
  <2>4. ASSUME NEW i \in 1 .. n PROVE s.fds[i].fd \in Registered(a)
    <3>1. CASE i = p
      BY <1>1, <1>2, <1>range, <1>12, <2>1, <3>1
    <3>2. CASE i # p
      BY <1>1, <1>11, <2>1, <3>2
    <3> QED BY <3>1, <3>2
  <2> QED BY <1>10, <2>2, <2>3, <2>4
<1>18. PrioInFront(a)
  <2> SUFFICES ASSUME NEW j \in 1 .. n + 1 PROVE IsPrio(a.fds[j]) <=> j <= a.nprio
    BY <1>1, <1>3, <1>14 DEF PrioInFront
  <2>1. CASE j = p
    BY <1>1, <1>2, <1>range, <1>3, <1>12, <2>1
  <2>2. CASE j # p /\ j = n + 1 /\ p \in 1 .. n
    BY <1>1, <1>2, <1>range, <1>3, <1>5, <1>12, <2>2
  <2>3. CASE j # p /\ j \in 1 .. n
    BY <1>1, <1>2, <1>range, <1>3, <1>5, <1>11, <2>3
  <2> QED BY <1>16, <2>1, <2>2, <2>3
<1>19. OneEntryEach(a)
  <2> DEFINE old(j) == IF j = n + 1 THEN p ELSE j
  <2>1. \A j \in 1 .. n + 1 : j # p => old(j) \in 1 .. n /\ a.fds[j] = s.fds[old(j)]
    <3> SUFFICES ASSUME NEW j \in 1 .. n + 1, j # p
                 PROVE  old(j) \in 1 .. n /\ a.fds[j] = s.fds[old(j)]
      OBVIOUS
    <3>1. CASE j = n + 1 /\ p \in 1 .. n
      BY <1>12, <3>1
    <3>2. CASE j \in 1 .. n
      BY <1>range, <1>11, <3>2
    <3> QED BY <1>16, <3>1, <3>2
  <2>2. \A j, k \in 1 .. n + 1 : j # p /\ k # p /\ old(j) = old(k) => j = k
    BY <1>1, <1>2, <1>range
  <2> HIDE DEF old
  <2> SUFFICES ASSUME NEW j \in 1 .. n + 1, NEW k \in 1 .. n + 1, a.fds[j].fd = a.fds[k].fd
               PROVE  j = k
    BY <1>14 DEF OneEntryEach
  <2> QED BY <1>4, <1>6, <1>12, <2>1, <2>2
<1>20. PermNear(a)
  <2> SUFFICES ASSUME NEW j \in 1 .. n + 1 PROVE a.fdperm[a.fds[j].fd] \in 1 .. j + 1
    BY <1>14 DEF PermNear
  <2>1. CASE j = p
    BY <1>range, <1>12, <1>13, <2>1
  <2>2. CASE j # p /\ j = n + 1 /\ p \in 1 .. n
    <3>1. a.fdperm[a.fds[j].fd] = s.fdperm[s.fds[p].fd]
      BY <1>4, <1>12, <1>13, <2>2
    <3>2. s.fdperm[s.fds[p].fd] \in 1 .. p + 1
      BY <1>7, <2>2
    <3> QED BY <1>range, <2>2, <3>1, <3>2
  <2>3. CASE j # p /\ j \in 1 .. n
    <3>1. a.fdperm[a.fds[j].fd] = s.fdperm[s.fds[j].fd]
      BY <1>4, <1>11, <1>13, <2>3
    <3> QED BY <1>7, <2>3, <3>1
  <2> QED BY <1>16, <2>1, <2>2, <2>3
<1>21. PermOfPrio(a)
  <2> SUFFICES ASSUME NEW j \in 1 .. a.nprio PROVE a.fdperm[a.fds[j].fd] = j
    BY DEF PermOfPrio
  <2>1. CASE j = p
    BY <1>12, <1>13, <2>1
  <2>2. CASE j # p
    <3>1. j \in 1 .. s.nprio /\ j \in 1 .. n
      BY <1>1, <1>2, <1>range, <1>3, <2>2
    <3>2. a.fdperm[a.fds[j].fd] = s.fdperm[s.fds[j].fd]
      BY <1>4, <1>11, <1>13, <2>2, <3>1
    <3> QED BY <1>8, <3>1, <3>2
  <2> QED BY <2>1, <2>2
<1>22. ListenersStand(a)
  <2> SUFFICES ASSUME NEW j \in 1 .. n + 1, a.fds[j].fd \in Standing PROVE ~IsPrio(a.fds[j])
    BY <1>10, <1>14, <1>17 DEF ListenersStand
  <2> QED BY <1>9, <1>11, <1>12, <1>16
<1>23. \A i \in 1 .. n : \E j \in 1 .. n + 1 : a.fds[j] = s.fds[i]
  <2> TAKE i \in 1 .. n
  <2>1. CASE i = p
    BY <1>1, <1>2, <1>range, <1>12, <2>1
  <2>2. CASE i # p
    BY <1>1, <1>11, <2>2
  <2> QED BY <2>1, <2>2
<1> QED BY <1>14, <1>15, <1>17, <1>18, <1>19, <1>20, <1>21, <1>22, <1>23 DEF Sound, n, a

(***************************************************************************)
(* remove_fd of an entry that is not a listening socket keeps a table      *)
(* sound, although the index of the last entry is spoilt.                  *)
(***************************************************************************)
LEMMA RemoveAtSound ==
  ASSUME NEW s, Sound(s), NEW i \in 1 .. Size(s), s.fds[i].fd \in Fds
  PROVE  /\ Sound(RemoveAt(s, i))
         /\ Size(RemoveAt(s, i)) = Size(s) - 1
         /\ Registered(RemoveAt(s, i)) = Registered(s) \ {s.fds[i].fd}
         /\ \A k \in 1 .. Size(s) : k # i =>
              \E j \in 1 .. Size(s) - 1 : RemoveAt(s, i).fds[j] = s.fds[k]
<1> DEFINE n == Size(s)
           r == RemoveAt(s, i)
           g == s.fds[i].fd
           old(j) == IF j < i THEN j ELSE j + 1
<1>1. /\ n \in Nat /\ s.nprio \in 0 .. n
      /\ s.fds \in [1 .. n -> Entry(Endpoints)]
      /\ s.fdperm \in [Numbers -> Nat]
  BY LenProperties DEF Sound, TableType, PrioInFront, Size
<1>range. n \in Nat /\ i \in 1 .. n /\ s.nprio \in 0 .. n
  BY <1>1
<1>2. /\ r = [fds |-> r.fds, nprio |-> r.nprio, fdperm |-> r.fdperm]
      /\ r.fds = [j \in 1 .. n - 1 |-> IF j < i THEN s.fds[j] ELSE s.fds[j + 1]]
      /\ r.nprio = IF IsPrio(s.fds[i]) THEN s.nprio - 1 ELSE s.nprio
      /\ r.fdperm = PermMovedUp(s, i)
  BY DEF RemoveAt, MovesUp, PrioLeft
<1>3. \A k \in 1 .. n : s.fds[k].fd \in Numbers
  BY <1>1 DEF Entry, Numbers
<1>4. \A k \in 1 .. n : IsPrio(s.fds[k]) <=> k <= s.nprio
  BY DEF Sound, PrioInFront
<1>5. \A k, l \in 1 .. n : s.fds[k].fd = s.fds[l].fd => k = l
  BY DEF Sound, OneEntryEach
<1>6. \A k \in 1 .. n : s.fdperm[s.fds[k].fd] \in 1 .. k + 1
  BY DEF Sound, PermNear
<1>7. \A k \in 1 .. s.nprio : s.fdperm[s.fds[k].fd] = k
  BY DEF Sound, PermOfPrio
<1>8. \A k \in 1 .. n : s.fds[k].fd \in Standing => ~IsPrio(s.fds[k])
  BY DEF Sound, ListenersStand
<1>9. Registered(s) = {s.fds[k].fd : k \in 1 .. n} /\ CtlFd \in Registered(s)
  BY DEF Registered, Sound, ListenersStand
<1>10. s.nprio < n
  <2>1. PICK c \in 1 .. n : s.fds[c].fd = CtlFd
    BY <1>9
  <2>2. ~(c <= s.nprio)
    BY <1>4, <1>8, <2>1, DataSockAssumption
  <2> QED BY <1>range, <2>2
<1>11. DOMAIN s.fdperm = Numbers
  BY <1>1
<1>12. \A f \in Numbers :
         r.fdperm[f] = LET behind == {k \in i + 1 .. n : s.fds[k].fd = f} IN
                       IF f = g THEN 0
                       ELSE IF behind = {} THEN s.fdperm[f]
                       ELSE IF n \in behind THEN n
                       ELSE (CHOOSE k \in behind : TRUE) - 1
  BY <1>2, <1>11 DEF PermMovedUp
<1>13. DOMAIN r.fdperm = Numbers /\ r.fdperm = [f \in Numbers |-> r.fdperm[f]]
  BY <1>2, <1>11 DEF PermMovedUp
\* What becomes of the index of the descriptor at position k.
<1>14. \A k \in 1 .. n : k < i => r.fdperm[s.fds[k].fd] = s.fdperm[s.fds[k].fd]
  <2> SUFFICES ASSUME NEW k \in 1 .. n, k < i
               PROVE  r.fdperm[s.fds[k].fd] = s.fdperm[s.fds[k].fd]
    OBVIOUS
  <2>1. s.fds[k].fd # g
    BY <1>5, <1>range
  <2>2. {l \in i + 1 .. n : s.fds[l].fd = s.fds[k].fd} = {}
    BY <1>5, <1>range
  <2> QED BY <1>3, <1>12, <2>1, <2>2
<1>15. \A k \in 1 .. n : i < k =>
         r.fdperm[s.fds[k].fd] = IF k = n THEN n ELSE k - 1
  <2> SUFFICES ASSUME NEW k \in 1 .. n, i < k
               PROVE  r.fdperm[s.fds[k].fd] = IF k = n THEN n ELSE k - 1
    OBVIOUS
  <2>1. s.fds[k].fd # g
    BY <1>5, <1>range
  <2>2. {l \in i + 1 .. n : s.fds[l].fd = s.fds[k].fd} = {k}
    BY <1>5, <1>range
  <2>3. (CHOOSE l \in {k} : TRUE) = k
    OBVIOUS
  <2> QED BY <1>3, <1>12, <2>1, <2>2, <2>3
<1>16. \A f \in Numbers : r.fdperm[f] \in Nat
  <2> TAKE f \in Numbers
  <2> DEFINE behind == {k \in i + 1 .. n : s.fds[k].fd = f}
  <2>1. CASE behind = {}
    BY <1>1, <1>12, <2>1
  <2>2. CASE behind # {}
    <3>1. (CHOOSE k \in behind : TRUE) \in i + 1 .. n
      BY <2>2
    <3>2. (CHOOSE k \in behind : TRUE) - 1 \in Nat
      BY <1>range, <3>1
    <3> HIDE DEF behind
    <3> QED BY <1>range, <1>12, <2>2, <3>2 DEF behind
  <2> QED BY <2>1, <2>2
<1> HIDE DEF n, r, g
<1>17. \A j \in 1 .. n - 1 : /\ r.fds[j] = s.fds[old(j)]
                            /\ old(j) \in 1 .. n /\ old(j) # i
  BY <1>range, <1>2
<1>18. \A k \in 1 .. n : k # i => \E j \in 1 .. n - 1 : old(j) = k
  <2> SUFFICES ASSUME NEW k \in 1 .. n, k # i PROVE \E j \in 1 .. n - 1 : old(j) = k
    OBVIOUS
  <2>1. CASE k < i
    <3>1. k \in 1 .. n - 1 /\ old(k) = k
      BY <1>range, <2>1
    <3> QED BY <3>1
  <2>2. CASE i < k
    <3>1. k - 1 \in 1 .. n - 1 /\ old(k - 1) = k
      BY <1>range, <2>2
    <3> QED BY <3>1
  <2> QED BY <1>range, <2>1, <2>2
<1>19. r.fds \in Seq(Entry(Endpoints)) /\ Size(r) = n - 1
  <2>1. n - 1 \in Nat
    BY <1>range
  <2>2. r.fds \in [1 .. n - 1 -> Entry(Endpoints)]
    BY <1>1, <1>2, <1>17
  <2> QED BY <2>1, <2>2, SeqOfFunction DEF Size
<1>20. r \in TableType
  <2>1. r.nprio \in Nat
    BY <1>range, <1>2, <1>4
  <2>2. r.fdperm \in [Numbers -> Nat]
    BY <1>13, <1>16
  <2> QED BY <1>2, <1>19, <2>1, <2>2 DEF TableType
<1>21. Registered(r) = Registered(s) \ {g}
  <2>1. Registered(r) = {r.fds[j].fd : j \in 1 .. n - 1}
    BY <1>19 DEF Registered
  <2>2. \A j \in 1 .. n - 1 : r.fds[j].fd \in Registered(s) /\ r.fds[j].fd # g
    BY <1>range, <1>5, <1>9, <1>17 DEF g
  <2>3. \A k \in 1 .. n : s.fds[k].fd # g => s.fds[k].fd \in Registered(r)
    BY <1>17, <1>18, <2>1 DEF g
  <2> QED BY <1>9, <2>1, <2>2, <2>3
<1>22. PrioInFront(r)
  <2>1. r.nprio \in 0 .. n - 1
    BY <1>range, <1>2, <1>4, <1>10
  <2> SUFFICES ASSUME NEW j \in 1 .. n - 1 PROVE IsPrio(r.fds[j]) <=> j <= r.nprio
    BY <1>19, <2>1 DEF PrioInFront
  <2>2. IsPrio(r.fds[j]) <=> old(j) <= s.nprio
    BY <1>4, <1>17
  <2>3. IsPrio(s.fds[i]) <=> i <= s.nprio
    BY <1>range, <1>4
  <2> QED BY <1>range, <1>2, <2>2, <2>3
<1>23. OneEntryEach(r)
  <2> SUFFICES ASSUME NEW j \in 1 .. n - 1, NEW k \in 1 .. n - 1, r.fds[j].fd = r.fds[k].fd
               PROVE  j = k
    BY <1>19 DEF OneEntryEach
  <2>1. old(j) = old(k)
    BY <1>5, <1>17
  <2> QED BY <1>range, <2>1
<1>24. PermNear(r)
  <2> SUFFICES ASSUME NEW j \in 1 .. n - 1 PROVE r.fdperm[r.fds[j].fd] \in 1 .. j + 1
    BY <1>19 DEF PermNear
  <2>1. CASE j < i
    <3>1. r.fdperm[r.fds[j].fd] = s.fdperm[s.fds[j].fd] /\ j \in 1 .. n
      BY <1>14, <1>17, <2>1
    <3> QED BY <1>6, <3>1
  <2>2. CASE ~(j < i)
    <3>1. r.fdperm[r.fds[j].fd] = IF j + 1 = n THEN n ELSE j + 1 - 1
      BY <1>range, <1>15, <1>17, <2>2
    <3> QED BY <1>range, <3>1
  <2> QED BY <2>1, <2>2
<1>25. PermOfPrio(r)
  <2> SUFFICES ASSUME NEW j \in 1 .. r.nprio PROVE r.fdperm[r.fds[j].fd] = j
    BY DEF PermOfPrio
  <2>1. j \in 1 .. n - 1 /\ j \in 1 .. s.nprio
    BY <1>range, <1>2, <1>10
  <2>2. CASE j < i
    <3>1. r.fdperm[r.fds[j].fd] = s.fdperm[s.fds[j].fd]
      BY <1>14, <1>17, <2>1, <2>2
    <3> QED BY <1>7, <2>1, <3>1
  <2>3. CASE ~(j < i)
    <3>1. IsPrio(s.fds[i])
      BY <1>range, <1>4, <2>1, <2>3
    <3>2. j + 1 <= s.nprio
      BY <1>range, <1>2, <3>1
    <3>3. r.fdperm[r.fds[j].fd] = IF j + 1 = n THEN n ELSE j + 1 - 1
      BY <1>range, <1>15, <1>17, <2>1, <2>3
    <3> QED BY <1>range, <1>10, <3>2, <3>3
  <2> QED BY <2>2, <2>3
<1>26. ListenersStand(r)
  <2>1. CtlFd \in Registered(r)
    BY <1>9, <1>21, DataSockAssumption DEF g
  <2> QED BY <1>8, <1>17, <1>19, <2>1 DEF ListenersStand
<1>27. \A k \in 1 .. n : k # i => \E j \in 1 .. n - 1 : r.fds[j] = s.fds[k]
  BY <1>17, <1>18
<1> QED BY <1>19, <1>20, <1>21, <1>22, <1>23, <1>24, <1>25, <1>26, <1>27 DEF Sound, n, r, g

(***************************************************************************)
(* remove_fd of a descriptor, whether or not it has an entry.              *)
(***************************************************************************)
LEMMA RemoveFdSound ==
  ASSUME NEW s, Sound(s), NEW f \in Fds
  PROVE  /\ Sound(RemoveFd(s, f))
         /\ Size(RemoveFd(s, f)) = IF f \in Registered(s) THEN Size(s) - 1 ELSE Size(s)
         /\ Registered(RemoveFd(s, f)) = Registered(s) \ {f}
         /\ \A k \in 1 .. Size(s) : s.fds[k].fd # f =>
              \E j \in 1 .. Size(RemoveFd(s, f)) : RemoveFd(s, f).fds[j] = s.fds[k]
<1>1. CASE f \notin Registered(s)
  <2>1. RemoveFd(s, f) = s
    BY <1>1 DEF RemoveFd
  <2> QED BY <1>1, <2>1
<1>2. CASE f \in Registered(s)
  <2> DEFINE i == CHOOSE k \in 1 .. Size(s) :
                    s.fds[k].fd = f /\ \A j \in 1 .. k - 1 : s.fds[j].fd # f
  <2>1. PICK c \in 1 .. Size(s) : s.fds[c].fd = f
    BY <1>2 DEF Registered
  <2>2. Size(s) \in Nat /\ c \in 1 .. Size(s)
    BY LenProperties DEF Sound, TableType, Size
  <2>3. \A j \in 1 .. c - 1 : s.fds[j].fd # f
    BY <2>1, <2>2 DEF Sound, OneEntryEach
  <2>4. i \in 1 .. Size(s) /\ s.fds[i].fd = f
    BY <2>1, <2>3
  <2>5. RemoveFd(s, f) = RemoveAt(s, i)
    BY <1>2 DEF RemoveFd
  <2> HIDE DEF i
  <2>6. /\ Sound(RemoveAt(s, i))
        /\ Size(RemoveAt(s, i)) = Size(s) - 1
        /\ Registered(RemoveAt(s, i)) = Registered(s) \ {f}
        /\ \A k \in 1 .. Size(s) : k # i =>
             \E j \in 1 .. Size(s) - 1 : RemoveAt(s, i).fds[j] = s.fds[k]
    BY <2>4, RemoveAtSound
  <2> QED BY <1>2, <2>4, <2>5, <2>6
<1> QED BY <1>1, <1>2

(***************************************************************************)
(* mainloop_set_private_data changes no descriptor and no type.            *)
(***************************************************************************)
LEMMA SetPrivateDataSound ==
  ASSUME NEW s, Sound(s), NEW f, NEW d \in Endpoints
  PROVE  /\ Sound(SetPrivateData(s, f, d))
         /\ Size(SetPrivateData(s, f, d)) = Size(s)
         /\ Registered(SetPrivateData(s, f, d)) = Registered(s)
         /\ \A i \in 1 .. Size(s) : /\ SetPrivateData(s, f, d).fds[i].fd = s.fds[i].fd
                                    /\ SetPrivateData(s, f, d).fds[i].type = s.fds[i].type
<1> DEFINE n == Size(s)
           a == SetPrivateData(s, f, d)
           h == s.fdperm[f]
<1>1. /\ n \in Nat
      /\ s.fds \in [1 .. n -> Entry(Endpoints)] /\ DOMAIN s.fds = 1 .. n
      /\ s = [fds |-> s.fds, nprio |-> s.nprio, fdperm |-> s.fdperm]
  BY LenProperties DEF Sound, TableType, Size
<1>2. /\ a = [fds |-> a.fds, nprio |-> s.nprio, fdperm |-> s.fdperm]
      /\ a.fds = [i \in 1 .. n |-> IF i = h /\ s.fds[i].type \in Reads
                                   THEN [s.fds[i] EXCEPT !.private = d]
                                   ELSE s.fds[i]]
  <2> DEFINE q == [i \in 1 .. n |-> IF i = h /\ s.fds[i].type \in Reads
                                    THEN [s.fds[i] EXCEPT !.private = d]
                                    ELSE s.fds[i]]
  <2>1. a = [s EXCEPT !.fds = q]
    BY <1>1 DEF SetPrivateData
  <2> HIDE DEF q, a, h, n
  <2>2. a = [fds |-> q, nprio |-> s.nprio, fdperm |-> s.fdperm]
    BY <1>1, <2>1
  <2>3. a.fds = q
    BY <2>2
  <2> QED BY <2>2, <2>3 DEF q
<1> HIDE DEF n, a, h
<1>3. \A e \in Entry(Endpoints) :
        LET c == [e EXCEPT !.private = d] IN
        c \in Entry(Endpoints) /\ c.fd = e.fd /\ c.type = e.type
  BY DEF Entry
<1>4. \A i \in 1 .. n : /\ a.fds[i] \in Entry(Endpoints)
                       /\ a.fds[i].fd = s.fds[i].fd
                       /\ a.fds[i].type = s.fds[i].type
  <2> TAKE i \in 1 .. n
  <2>1. s.fds[i] \in Entry(Endpoints)
    BY <1>1
  <2>2. a.fds[i] = s.fds[i] \/ a.fds[i] = [s.fds[i] EXCEPT !.private = d]
    BY <1>2
  <2> QED BY <1>3, <2>1, <2>2
<1>5. a.fds \in Seq(Entry(Endpoints)) /\ Size(a) = n
  <2>1. a.fds \in [1 .. n -> Entry(Endpoints)]
    BY <1>2, <1>4
  <2> QED BY <1>1, <2>1, SeqOfFunction DEF Size
<1>6. a \in TableType /\ a.nprio = s.nprio /\ a.fdperm = s.fdperm
  <2>1. a.nprio = s.nprio /\ a.fdperm = s.fdperm
    BY <1>2
  <2>2. s.nprio \in Nat /\ s.fdperm \in [Numbers -> Nat]
    BY DEF Sound, TableType
  <2> QED BY <1>2, <1>5, <2>1, <2>2 DEF TableType
<1>7. Registered(a) = Registered(s)
  BY <1>4, <1>5 DEF Registered, n
<1>8. PrioInFront(a)
  BY <1>4, <1>5, <1>6 DEF Sound, PrioInFront, IsPrio, n
<1>9. OneEntryEach(a)
  BY <1>4, <1>5 DEF Sound, OneEntryEach, n
<1>10. PermNear(a)
  BY <1>4, <1>5, <1>6 DEF Sound, PermNear, n
<1>11. PermOfPrio(a)
  <2>1. \A i \in 1 .. s.nprio : i \in 1 .. n
    BY <1>1 DEF Sound, PrioInFront, n
  <2> QED BY <1>4, <1>6, <2>1 DEF Sound, PermOfPrio
<1>12. ListenersStand(a)
  BY <1>4, <1>5, <1>7 DEF Sound, ListenersStand, IsPrio, n
<1> QED BY <1>4, <1>5, <1>6, <1>7, <1>8, <1>9, <1>10, <1>11, <1>12 DEF Sound, n, a

-----------------------------------------------------------------------------
(***************************************************************************)
(* The inductive invariant.  That a handler leaves the number of           *)
(* descriptors as it was only when it leaves the table as it was needs the *)
(* table to be sound: else remove_fd of a descriptor and add_fd of another *)
(* could cancel out.  A connection that has asked is a client's, so a      *)
(* manager's end takes none of them away.                                  *)
(***************************************************************************)
StateType ==
  /\ up \in BOOLEAN
  /\ ep \in [Endpoints -> [fd_ctl : Fds, fd_data : Fds] \cup {NULL}]
  /\ asked \subseteq Fds
  /\ leaked \subseteq Fds
  /\ pollable \subseteq Numbers \ {INVALID_SOCKET}
  /\ lastcount \in Nat

Client(s, w) == \E i \in 1 .. Size(s) : s.fds[i].fd = w /\ s.fds[i].type = "wd_type"

IInv ==
  /\ StateType
  /\ Sound(t)
  /\ \A w \in asked : Client(t, w)
  /\ Registered(t) \cap leaked = {}
  /\ PollsAll

(***************************************************************************)
(* What a handler may take for granted, and what any step of one owes.     *)
(***************************************************************************)
LEMMA HandlesGives ==
  ASSUME Sound(t), NEW f, NEW type, Handles(f, type)
  PROVE  /\ up /\ lastcount = Size(t) /\ f \in Registered(t)
         /\ \A i \in 1 .. Size(t) : t.fds[i].fd = f => t.fds[i].type = type
BY DEF Handles, HandlesAnyway, WithType, Registered, Sound, OneEntryEach

LEMMA SizeIsNat ==
  ASSUME NEW s, Sound(s)
  PROVE  Size(s) \in Nat
BY LenProperties DEF Sound, TableType, Size

LEMMA StaleIsSafe ==
  ASSUME Size(t') # lastcount'
  PROVE  PollsAll'
BY DEF PollsAll

\* An entry that stays keeps its client.
LEMMA ClientStays ==
  ASSUME NEW s, NEW r, NEW w, Client(s, w),
         \A k \in 1 .. Size(s) : s.fds[k].fd = w =>
            \E j \in 1 .. Size(r) : r.fds[j] = s.fds[k]
  PROVE  Client(r, w)
BY DEF Client

LEMMA NewEntryType ==
  ASSUME NEW f \in Fds \cup Standing, NEW type \in Types, NEW d \in Endpoints \cup {NULL}
  PROVE  /\ NewEntry(f, type, d) \in Entry(Endpoints)
         /\ NewEntry(f, type, d).fd = f /\ NewEntry(f, type, d).type = type
BY DEF NewEntry, Entry

LEMMA InitSound == Init => IInv
<1> SUFFICES ASSUME Init PROVE IInv
  OBVIOUS
<1> DEFINE c == NewEntry(CtlFd, "ctl_type", NULL)
           q == NewEntry(INVALID_SOCKET, "console_type", NULL)
           m == NewEntry(MgmtFd, "mgmt_ctl", NULL)
           s == AddFd(EmptyTable, c)
           r == AddFd(s, q)
<1>1. /\ c \in Entry(Endpoints) /\ c.fd = CtlFd /\ c.type = "ctl_type" /\ ~IsPrio(c)
      /\ q \in Entry(Endpoints) /\ q.fd = INVALID_SOCKET /\ ~IsPrio(q)
      /\ m \in Entry(Endpoints) /\ m.fd = MgmtFd /\ ~IsPrio(m)
  <2>1. /\ c \in Entry(Endpoints) /\ c.fd = CtlFd /\ c.type = "ctl_type"
    BY NewEntryType, DataSockAssumption
  <2>2. q \in Entry(Endpoints) /\ q.fd = INVALID_SOCKET /\ q.type = "console_type"
    BY NewEntryType, DataSockAssumption
  <2>3. m \in Entry(Endpoints) /\ m.fd = MgmtFd /\ m.type = "mgmt_ctl"
    BY NewEntryType, DataSockAssumption
  <2> HIDE DEF c, q, m
  <2> QED BY <2>1, <2>2, <2>3, DataSockAssumption DEF IsPrio
<1> HIDE DEF c, q, m
<1>2. Size(EmptyTable) = 0 /\ EmptyTable.nprio = 0
  BY DEF Size, EmptyTable
<1>3. EmptyTable.fdperm = [f \in Numbers |-> 0]
  BY DEF EmptyTable, Numbers
<1>4. Position(EmptyTable, c) = 1
  BY <1>1, <1>2 DEF Position
<1>5. /\ s = [fds |-> s.fds, nprio |-> s.nprio, fdperm |-> s.fdperm]
      /\ s.fds = [i \in 1 .. 1 |-> IF i = 1 THEN c ELSE IF i = 1 THEN EmptyTable.fds[1]
                                                   ELSE EmptyTable.fds[i]]
      /\ s.nprio = 0
      /\ s.fdperm = [EmptyTable.fdperm EXCEPT ![c.fd] = 1]
  BY <1>1, <1>2, <1>4 DEF AddFd
<1> HIDE DEF s
<1>6. s.fds[1] = c /\ s.fds \in Seq(Entry(Endpoints)) /\ Size(s) = 1
  <2>1. s.fds \in [1 .. 1 -> Entry(Endpoints)] /\ s.fds[1] = c
    BY <1>1, <1>5
  <2> QED BY <2>1, SeqOfFunction DEF Size
<1>7. CtlFd \in Numbers /\ s.fdperm \in [Numbers -> Nat] /\ s.fdperm[CtlFd] = 1
  BY <1>1, <1>3, <1>5, DataSockAssumption DEF Numbers
<1>8. \A i \in 1 .. Size(s) : i = 1 /\ s.fds[i] = c
  BY <1>6
<1>9. Sound(s)
  <2>1. s \in TableType
    <3>1. s.nprio \in Nat
      BY <1>5
    <3> QED BY <1>5, <1>6, <1>7, <3>1 DEF TableType
  <2>2. PrioInFront(s)
    BY <1>1, <1>5, <1>6, <1>8 DEF PrioInFront
  <2>3. OneEntryEach(s)
    BY <1>8 DEF OneEntryEach
  <2>4. PermNear(s)
    BY <1>1, <1>7, <1>8 DEF PermNear
  <2>5. PermOfPrio(s)
    BY <1>5 DEF PermOfPrio
  <2>6. ListenersStand(s)
    BY <1>1, <1>6, <1>8 DEF ListenersStand, Registered
  <2> QED BY <2>1, <2>2, <2>3, <2>4, <2>5, <2>6 DEF Sound
<1>10. Registered(s) = {CtlFd}
  BY <1>1, <1>6, <1>8 DEF Registered
<1>11. Sound(r) /\ Size(r) = 2 /\ Registered(r) = {CtlFd, INVALID_SOCKET}
  <2>1. q.fd \notin Registered(s) /\ (q.fd \in Standing => ~IsPrio(q))
    BY <1>1, <1>10, DataSockAssumption
  <2> QED BY <1>1, <1>6, <1>9, <1>10, <2>1, AddFdSound
<1>t. t = AddFd(r, m)
  BY DEF Init, r, s, c, q, m
<1> HIDE DEF r
<1>12. Sound(t) /\ Size(t) = 3
  <2>1. m.fd \notin Registered(r) /\ (m.fd \in Standing => ~IsPrio(m))
    BY <1>1, <1>11, DataSockAssumption
  <2> QED BY <1>1, <1>11, <1>t, <2>1, AddFdSound
<1>13. StateType
  BY DEF Init, StateType
<1>14. PollsAll
  BY <1>12 DEF Init, PollsAll
<1> QED BY <1>12, <1>13, <1>14 DEF Init, IInv

-----------------------------------------------------------------------------
(***************************************************************************)
(* The steps.                                                              *)
(***************************************************************************)
\* An entry that is added where there was none.
LEMMA AddedEntry ==
  ASSUME IInv, NEW f \in Free, NEW type \in Types, NEW d \in Endpoints \cup {NULL}
  PROVE  LET a == AddFd(t, NewEntry(f, type, d)) IN
         /\ Sound(a)
         /\ Size(a) = Size(t) + 1
         /\ Registered(a) = Registered(t) \cup {f}
         /\ f \in Fds /\ f \notin Registered(t) /\ f \notin leaked
         /\ \A w \in asked : Client(a, w)
<1> DEFINE e == NewEntry(f, type, d)
           a == AddFd(t, e)
<1>1. f \in Fds /\ f \notin Registered(t) /\ f \notin leaked
  BY DEF Free, Open
<1>2. e \in Entry(Endpoints) /\ e.fd = f
  BY <1>1, NewEntryType
<1> HIDE DEF e
<1>3. f \notin Standing
  BY <1>1, DataSockAssumption
<1>4. /\ Sound(a)
      /\ Size(a) = Size(t) + 1
      /\ Registered(a) = Registered(t) \cup {f}
      /\ \A i \in 1 .. Size(t) : \E j \in 1 .. Size(t) + 1 : a.fds[j] = t.fds[i]
  BY <1>1, <1>2, <1>3, AddFdSound DEF IInv
<1> HIDE DEF a
<1>5. \A w \in asked : Client(a, w)
  BY <1>4, ClientStays DEF IInv
<1> QED BY <1>1, <1>4, <1>5 DEF a, e

\* A step that leaves asked and leaked alone and changes the number of entries.
LEMMA AcceptKeeps ==
  ASSUME IInv, NEW f \in Fds, NEW type \in {"wd_type", "mgmt_data"}, Accept(f, type)
  PROVE  IInv'
<1>1. /\ f \in Free /\ t' = AddFd(t, NewEntry(f, type, NULL))
      /\ UNCHANGED <<up, ep, asked, leaked, pollable, lastcount>>
  BY DEF Accept
<1>2. lastcount = Size(t)
  BY DEF Accept, Handles
<1>3. type \in Types
  BY DataSockAssumption
<1>4. /\ Sound(t')
      /\ Size(t') = Size(t) + 1
      /\ Registered(t') = Registered(t) \cup {f}
      /\ f \notin leaked
      /\ \A w \in asked : Client(t', w)
  BY <1>1, <1>3, AddedEntry
<1>5. StateType'
  BY <1>1 DEF IInv, StateType
<1>6. PollsAll'
  BY <1>1, <1>2, <1>4, SizeIsNat, StaleIsSafe DEF IInv
<1> QED BY <1>1, <1>4, <1>5, <1>6 DEF IInv

\* The connection w, not yet asked, is removed once or more.
LEMMA RemovedConnection ==
  ASSUME IInv, NEW w, Handles(w, "wd_type"), w \in Fds
  PROVE  LET r == RemoveFd(t, w) IN
         /\ Sound(r)
         /\ Size(r) = Size(t) - 1
         /\ Registered(r) = Registered(t) \ {w}
         /\ \A v \in asked : v # w => Client(r, v)
<1>1. w \in Registered(t)
  BY HandlesGives DEF IInv
<1>2. /\ Sound(RemoveFd(t, w))
      /\ Size(RemoveFd(t, w)) = Size(t) - 1
      /\ Registered(RemoveFd(t, w)) = Registered(t) \ {w}
      /\ \A k \in 1 .. Size(t) : t.fds[k].fd # w =>
           \E j \in 1 .. Size(RemoveFd(t, w)) : RemoveFd(t, w).fds[j] = t.fds[k]
  BY <1>1, RemoveFdSound DEF IInv
<1>3. \A v \in asked : v # w => Client(RemoveFd(t, w), v)
  BY <1>2, ClientStays DEF IInv
<1> QED BY <1>2, <1>3

LEMMA RemoveAgain ==
  ASSUME NEW s, NEW f, f \notin Registered(s)
  PROVE  RemoveFd(s, f) = s
BY DEF RemoveFd

LEMMA RequestInvalidKeeps ==
  ASSUME IInv, NEW w \in Fds, RequestInvalid(w)
  PROVE  IInv'
<1>1. /\ Handles(w, "wd_type") /\ w \notin asked
      /\ t' = RemoveFd(RemoveFd(t, w), w)
      /\ UNCHANGED <<up, ep, asked, leaked, pollable, lastcount>>
  BY DEF RequestInvalid
<1>2. lastcount = Size(t) /\ Size(t) \in Nat
  BY <1>1, SizeIsNat DEF Handles, IInv
<1>3. /\ Sound(RemoveFd(t, w))
      /\ Size(RemoveFd(t, w)) = Size(t) - 1
      /\ Registered(RemoveFd(t, w)) = Registered(t) \ {w}
      /\ \A v \in asked : v # w => Client(RemoveFd(t, w), v)
  BY <1>1, RemovedConnection
<1>4. t' = RemoveFd(t, w)
  BY <1>1, <1>3, RemoveAgain
<1>5. StateType'
  BY <1>1 DEF IInv, StateType
<1>6. PollsAll'
  BY <1>1, <1>2, <1>3, <1>4, StaleIsSafe
<1> QED BY <1>1, <1>3, <1>4, <1>5, <1>6 DEF IInv

LEMMA RequestRefusedKeeps ==
  ASSUME IInv, NEW w \in Fds, NEW d \in Fds, RequestRefused(w, d)
  PROVE  IInv'
<1>1. /\ Handles(w, "wd_type") /\ w \notin asked /\ d \in Free
      /\ t' = RemoveFd(t, w)
      /\ leaked' = leaked \cup {d}
      /\ UNCHANGED <<up, ep, asked, pollable, lastcount>>
  BY DEF RequestRefused
<1>2. lastcount = Size(t) /\ Size(t) \in Nat
  BY <1>1, SizeIsNat DEF Handles, IInv
<1>3. /\ Sound(t')
      /\ Size(t') = Size(t) - 1
      /\ Registered(t') = Registered(t) \ {w}
      /\ \A v \in asked : v # w => Client(t', v)
  BY <1>1, RemovedConnection
<1>4. d \notin Registered(t)
  BY <1>1 DEF Free, Open
<1>5. StateType'
  BY <1>1 DEF IInv, StateType
<1>6. PollsAll'
  BY <1>1, <1>2, <1>3, StaleIsSafe
<1> QED BY <1>1, <1>3, <1>4, <1>5, <1>6 DEF IInv

LEMMA RequestFailsKeeps ==
  ASSUME IInv, NEW w \in Fds, NEW d \in Fds, RequestFails(w, d)
  PROVE  IInv'
<1>1. PICK x \in Endpoints :
        t' = RemoveFd(RemoveFd(RemoveFd(AddFd(t, NewEntry(d, "data_type", x)), d), w), w)
  BY DEF RequestFails
<1>2. /\ Handles(w, "wd_type") /\ w \notin asked /\ d \in Free
      /\ UNCHANGED <<up, ep, asked, leaked, pollable, lastcount>>
  BY DEF RequestFails
<1>3. lastcount = Size(t) /\ Size(t) \in Nat /\ w \in Registered(t)
  BY <1>2, SizeIsNat, HandlesGives DEF Handles, IInv
<1> DEFINE a == AddFd(t, NewEntry(d, "data_type", x))
           b == RemoveFd(a, d)
           c == RemoveFd(b, w)
<1>4. /\ Sound(a) /\ Size(a) = Size(t) + 1
      /\ Registered(a) = Registered(t) \cup {d}
      /\ d \notin Registered(t)
      /\ \A v \in asked : Client(a, v)
  BY <1>2, AddedEntry, DataSockAssumption
<1> HIDE DEF a
<1>5. /\ Sound(b) /\ Size(b) = Size(t)
      /\ Registered(b) = Registered(t)
      /\ \A k \in 1 .. Size(a) : a.fds[k].fd # d =>
           \E j \in 1 .. Size(b) : b.fds[j] = a.fds[k]
  <2>1. d \in Registered(a) /\ Size(a) - 1 = Size(t)
    BY <1>3, <1>4
  <2>2. Registered(a) \ {d} = Registered(t)
    BY <1>4
  <2>3. /\ Sound(b)
        /\ Size(b) = IF d \in Registered(a) THEN Size(a) - 1 ELSE Size(a)
        /\ Registered(b) = Registered(a) \ {d}
        /\ \A k \in 1 .. Size(a) : a.fds[k].fd # d =>
             \E j \in 1 .. Size(b) : b.fds[j] = a.fds[k]
    BY <1>4, RemoveFdSound
  <2> QED BY <2>1, <2>2, <2>3
<1>6. \A v \in asked : v \in Registered(t)
  BY DEF IInv, Client, Registered
<1> HIDE DEF b
<1>7. \A v \in asked : Client(b, v)
  <2> TAKE v \in asked
  <2>1. v # d /\ Client(a, v)
    BY <1>4, <1>6
  <2> QED BY <1>5, <2>1, ClientStays
<1>8. /\ Sound(c) /\ Size(c) = Size(t) - 1
      /\ Registered(c) = Registered(t) \ {w}
      /\ \A k \in 1 .. Size(b) : b.fds[k].fd # w =>
           \E j \in 1 .. Size(c) : c.fds[j] = b.fds[k]
  BY <1>3, <1>5, RemoveFdSound
<1> HIDE DEF c
<1>9. \A v \in asked : Client(c, v)
  <2> TAKE v \in asked
  <2>1. v # w /\ Client(b, v)
    BY <1>2, <1>7
  <2> QED BY <1>8, <2>1, ClientStays
<1>10. t' = c
  BY <1>1, <1>8, RemoveAgain DEF a, b, c
<1>11. StateType'
  BY <1>2 DEF IInv, StateType
<1>12. PollsAll'
  BY <1>2, <1>3, <1>8, <1>10, StaleIsSafe
<1> QED BY <1>2, <1>8, <1>9, <1>10, <1>11, <1>12 DEF IInv

LEMMA RequestGrantedKeeps ==
  ASSUME IInv, NEW w \in Fds, NEW d \in Fds, RequestGranted(w, d)
  PROVE  IInv'
<1>1. PICK x \in Endpoints :
        /\ t' = SetPrivateData(AddFd(t, NewEntry(d, "data_type", x)), w, x)
        /\ ep' = [ep EXCEPT ![x] = [fd_ctl |-> w, fd_data |-> d]]
  BY DEF RequestGranted
<1>2. /\ Handles(w, "wd_type") /\ d \in Free
      /\ asked' = asked \cup {w}
      /\ UNCHANGED <<up, leaked, pollable, lastcount>>
  BY DEF RequestGranted
<1>3. lastcount = Size(t) /\ Size(t) \in Nat
  BY <1>2, SizeIsNat DEF Handles, IInv
<1> DEFINE a == AddFd(t, NewEntry(d, "data_type", x))
<1>4. /\ Sound(a) /\ Size(a) = Size(t) + 1
      /\ Registered(a) = Registered(t) \cup {d}
      /\ d \notin leaked
      /\ \A v \in asked : Client(a, v)
  BY <1>2, AddedEntry, DataSockAssumption
<1>5. Client(a, w)
  <2>1. d \in Free /\ "data_type" \in Types /\ x \in Endpoints \cup {NULL}
    BY <1>2, DataSockAssumption
  <2>2. d \in Fds /\ d \notin Registered(t) /\ d \notin Standing
    BY <1>2, DataSockAssumption DEF Free, Open
  <2>3. /\ NewEntry(d, "data_type", x) \in Entry(Endpoints)
        /\ NewEntry(d, "data_type", x).fd = d
    BY <2>1, <2>2, NewEntryType
  <2>4. \A i \in 1 .. Size(t) : \E j \in 1 .. Size(t) + 1 : a.fds[j] = t.fds[i]
    BY <2>2, <2>3, AddFdSound DEF IInv
  <2>5. Client(t, w)
    BY <1>2 DEF Handles, HandlesAnyway, WithType, Client
  <2> HIDE DEF a
  <2> QED BY <1>4, <2>4, <2>5, ClientStays
<1> HIDE DEF a
<1>6. t' = SetPrivateData(a, w, x)
  BY <1>1 DEF a
<1>7. /\ Sound(t') /\ Size(t') = Size(a) /\ Registered(t') = Registered(a)
      /\ \A i \in 1 .. Size(a) : t'.fds[i].fd = a.fds[i].fd /\ t'.fds[i].type = a.fds[i].type
  BY <1>4, <1>6, SetPrivateDataSound
<1>8. \A v \in asked' : Client(t', v)
  BY <1>2, <1>4, <1>5, <1>7 DEF Client
<1>9. StateType'
  BY <1>1, <1>2 DEF IInv, StateType
<1>10. PollsAll'
  BY <1>2, <1>3, <1>4, <1>7, StaleIsSafe
<1> QED BY <1>2, <1>4, <1>7, <1>8, <1>9, <1>10 DEF IInv

(***************************************************************************)
(* close_ep: of the two sockets any may have gone already; when both have, *)
(* the table stays as it is and so may the array of the poll.              *)
(***************************************************************************)
LEMMA CloseEpKeeps ==
  ASSUME IInv, NEW x \in Live, CloseEp(x), lastcount = Size(t)
  PROVE  IInv'
<1>1. PICK y \in Live :
        /\ t' = RemoveFd(RemoveFd(t, ep[y].fd_data), ep[y].fd_ctl)
        /\ ep' = [ep EXCEPT ![y] = NULL]
        /\ asked' = asked \cap Registered(t')
        /\ UNCHANGED <<up, leaked, pollable, lastcount>>
  BY DEF CloseEp
<1> DEFINE d == ep[y].fd_data
           w == ep[y].fd_ctl
           b == RemoveFd(t, d)
<1>2. d \in Fds /\ w \in Fds
  BY DEF Live, IInv, StateType
<1> HIDE DEF d, w
<1>3. /\ Sound(b)
      /\ Size(b) = IF d \in Registered(t) THEN Size(t) - 1 ELSE Size(t)
      /\ Registered(b) = Registered(t) \ {d}
      /\ \A k \in 1 .. Size(t) : t.fds[k].fd # d =>
           \E j \in 1 .. Size(b) : b.fds[j] = t.fds[k]
  BY <1>2, RemoveFdSound DEF IInv
<1>4. d \notin Registered(t) => b = t
  BY RemoveAgain
<1> HIDE DEF b
<1>5. t' = RemoveFd(b, w)
  BY <1>1 DEF b, d, w
<1>6. /\ Sound(t')
      /\ Size(t') = IF w \in Registered(b) THEN Size(b) - 1 ELSE Size(b)
      /\ Registered(t') = Registered(b) \ {w}
      /\ \A k \in 1 .. Size(b) : b.fds[k].fd # w =>
           \E j \in 1 .. Size(t') : t'.fds[j] = b.fds[k]
  BY <1>2, <1>3, <1>5, RemoveFdSound
<1>7. w \notin Registered(b) => t' = b
  BY <1>5, RemoveAgain
<1>8. \A v \in asked' : Client(t', v)
  <2> TAKE v \in asked'
  <2>1. v \in asked /\ v # d /\ v # w /\ Client(t, v)
    BY <1>1, <1>3, <1>6 DEF IInv
  <2>2. Client(b, v)
    BY <1>3, <2>1, ClientStays
  <2> QED BY <1>6, <2>1, <2>2, ClientStays
<1>9. StateType'
  BY <1>1 DEF IInv, StateType
<1>10. Size(t) \in Nat /\ Size(b) \in Nat
  BY <1>3, SizeIsNat DEF IInv
<1>11. PollsAll'
  <2>1. CASE d \notin Registered(t) /\ w \notin Registered(b)
    BY <1>1, <1>4, <1>7, <2>1 DEF IInv, PollsAll
  <2>2. CASE d \in Registered(t) \/ w \in Registered(b)
    <3>1. Size(t') # Size(t)
      BY <1>3, <1>6, <1>10, <2>2
    <3> QED BY <1>1, <3>1, StaleIsSafe
  <2> QED BY <2>1, <2>2
<1> QED BY <1>1, <1>3, <1>6, <1>8, <1>9, <1>11 DEF IInv

LEMMA EofKeeps ==
  ASSUME IInv, NEW w \in Fds, Eof(w)
  PROVE  IInv'
<1> DEFINE x == EntryOf(w).private
<1>1. Handles(w, "wd_type")
  BY DEF Eof
<1>2. lastcount = Size(t) /\ Size(t) \in Nat
  BY <1>1, SizeIsNat DEF Handles, IInv
<1>3. CASE /\ t' = RemoveFd(t, w)
           /\ asked' = asked \ {w}
           /\ UNCHANGED <<up, ep, leaked, pollable, lastcount>>
  <2>1. /\ Sound(t')
        /\ Size(t') = Size(t) - 1
        /\ Registered(t') = Registered(t) \ {w}
        /\ \A v \in asked : v # w => Client(t', v)
    BY <1>1, <1>3, RemovedConnection
  <2>2. StateType'
    BY <1>3 DEF IInv, StateType
  <2>3. PollsAll'
    BY <1>2, <1>3, <2>1, StaleIsSafe
  <2> QED BY <1>3, <2>1, <2>2, <2>3 DEF IInv
<1>4. CASE x \in Live /\ CloseEp(x)
  BY <1>2, <1>4, CloseEpKeeps
<1>5. CASE Fault
  BY <1>5 DEF Fault, IInv, StateType, PollsAll
<1> QED BY <1>3, <1>4, <1>5 DEF Eof

LEMMA FaultKeeps ==
  ASSUME IInv, Fault
  PROVE  IInv'
BY DEF Fault, IInv, StateType, PollsAll

LEMMA MgmtCloseKeeps ==
  ASSUME IInv, NEW f \in Fds, MgmtClose(f)
  PROVE  IInv'
<1>1. /\ Handles(f, "mgmt_data")
      /\ t' = RemoveFd(t, f)
      /\ UNCHANGED <<up, ep, asked, leaked, pollable, lastcount>>
  BY DEF MgmtClose
<1>2. /\ lastcount = Size(t) /\ Size(t) \in Nat /\ f \in Registered(t)
      /\ \A i \in 1 .. Size(t) : t.fds[i].fd = f => t.fds[i].type = "mgmt_data"
  BY <1>1, SizeIsNat, HandlesGives DEF IInv
<1>3. \A v \in asked : v # f
  BY <1>2 DEF IInv, Client
<1>4. /\ Sound(t')
      /\ Size(t') = Size(t) - 1
      /\ Registered(t') = Registered(t) \ {f}
      /\ \A k \in 1 .. Size(t) : t.fds[k].fd # f =>
           \E j \in 1 .. Size(t') : t'.fds[j] = t.fds[k]
  BY <1>1, <1>2, RemoveFdSound DEF IInv
<1>5. \A v \in asked : Client(t', v)
  BY <1>3, <1>4, ClientStays DEF IInv
<1>6. StateType'
  BY <1>1 DEF IInv, StateType
<1>7. PollsAll'
  BY <1>1, <1>2, <1>4, StaleIsSafe
<1> QED BY <1>1, <1>4, <1>5, <1>6, <1>7 DEF IInv

LEMMA PollKeeps ==
  ASSUME IInv, Poll
  PROVE  IInv'
<1>1. Registered(t) \ {INVALID_SOCKET} \subseteq Numbers \ {INVALID_SOCKET}
  <2>1. t.fds \in [1 .. Size(t) -> Entry(Endpoints)]
    BY LenProperties DEF IInv, Sound, TableType, Size
  <2>2. \A e \in Entry(Endpoints) : e.fd \in Numbers
    BY DEF Entry, Numbers
  <2> QED BY <2>1, <2>2 DEF Registered
<1>2. Size(t) \in Nat
  BY SizeIsNat DEF IInv
<1> QED BY <1>1, <1>2 DEF Poll, IInv, StateType, PollsAll

LEMMA NextKeeps == IInv /\ [Next]_vars => IInv'
<1> SUFFICES ASSUME IInv, [Next]_vars PROVE IInv'
  OBVIOUS
<1>1. CASE Poll
  BY <1>1, PollKeeps
<1>2. CASE \E f \in Fds, type \in {"wd_type", "mgmt_data"} : Accept(f, type)
  BY <1>2, AcceptKeeps
<1>3. CASE \E w \in Fds : RequestInvalid(w) \/ RequestRecvFails(w) \/ Eof(w)
  BY <1>3, RequestInvalidKeeps, FaultKeeps, EofKeeps DEF RequestRecvFails
<1>4. CASE \E w \in Fds, d \in Fds : \/ RequestRefused(w, d)
                                     \/ RequestFails(w, d)
                                     \/ RequestGranted(w, d)
  BY <1>4, RequestRefusedKeeps, RequestFailsKeeps, RequestGrantedKeeps
<1>5. CASE \E d \in Fds : FrameForFreed(d)
  BY <1>5, FaultKeeps DEF FrameForFreed
<1>6. CASE \E f \in Fds : MgmtClose(f)
  BY <1>6, MgmtCloseKeeps
<1>7. CASE \E f \in Fds, x \in Endpoints : EpClose(f, x)
  BY <1>7, CloseEpKeeps DEF EpClose, Handles
<1>8. CASE AddFdFaults
  BY <1>8, FaultKeeps DEF AddFdFaults
<1>9. CASE UNCHANGED vars
  BY <1>9 DEF vars, IInv, StateType, PollsAll
<1> QED BY <1>1, <1>2, <1>3, <1>4, <1>5, <1>6, <1>7, <1>8, <1>9 DEF Next

(***************************************************************************)
(* The inductive invariant holds of the switch.                            *)
(***************************************************************************)
THEOREM Invariant == Spec => []IInv
<1>1. Init => IInv
  BY InitSound
<1>2. IInv /\ [Next]_vars => IInv'
  BY NextKeeps
<1> QED BY <1>1, <1>2, PTL DEF Spec

(***************************************************************************)
(* The arrays of the descriptor table and the variables of the connections *)
(* keep their types in every order of connections, requests and failures,  *)
(* however many there are.                                                 *)
(***************************************************************************)
THEOREM TypeCorrect == Spec => []TypeOK
<1>1. IInv => TypeOK
  <2> SUFFICES ASSUME IInv PROVE TypeOK
    OBVIOUS
  <2>1. asked \subseteq Registered(t)
    BY DEF IInv, Client, Registered
  <2>2. t.fds \in Seq(Entry(Endpoints)) /\ t.fdperm \in [Fds \cup Standing -> Nat]
    BY DEF IInv, Sound, TableType, Numbers
  <2>3. t.nprio \in 0 .. Size(t)
    BY DEF IInv, Sound, PrioInFront
  <2> QED BY <2>1, <2>2, <2>3 DEF IInv, StateType, TypeOK, Numbers
<1> QED BY <1>1, Invariant, PTL

(***************************************************************************)
(* The priority entries stay in front: what add_fd and remove_fd rely on.  *)
(***************************************************************************)
THEOREM PrioritiesFirst == Spec => []PrioFirst
<1>1. IInv => PrioFirst
  BY DEF IInv, Sound, PrioInFront, PrioFirst
<1> QED BY <1>1, Invariant, PTL

(***************************************************************************)
(* fdperm finds the entry of every data socket, although remove_fd spoils  *)
(* the index of the last entry; the index of a waiting connection is at    *)
(* most one behind the end.  Both hold with the console among the entries, *)
(* whose own index lies in front of fdperm and is not looked up.           *)
(***************************************************************************)
THEOREM PermutationHolds == Spec => []PrioPermutation
<1>1. IInv => PrioPermutation
  <2> SUFFICES ASSUME IInv PROVE PrioPermutation
    OBVIOUS
  <2>1. \A i \in 1 .. t.nprio : t.fdperm[t.fds[i].fd] = i
    BY DEF IInv, Sound, PermOfPrio
  <2>2. \A i \in WithType("wd_type") : t.fdperm[t.fds[i].fd] \in 1 .. Size(t) + 1
    <3>1. Size(t) \in Nat
      BY SizeIsNat DEF IInv
    <3>2. \A i \in 1 .. Size(t) : t.fdperm[t.fds[i].fd] \in 1 .. i + 1
      BY DEF IInv, Sound, PermNear
    <3> QED BY <3>1, <3>2 DEF WithType
  <2> QED BY <2>1, <2>2 DEF PrioPermutation
<1> QED BY <1>1, Invariant, PTL

(***************************************************************************)
(* A descriptor has one entry at most, and none when its socket is leaked. *)
(***************************************************************************)
THEOREM EntriesAreUnique == Spec => []RegisteredOnce
<1>1. IInv => RegisteredOnce
  BY DEF IInv, Sound, OneEntryEach, RegisteredOnce
<1> QED BY <1>1, Invariant, PTL

(***************************************************************************)
(* Comparing the number of descriptors is enough for the main loop: when   *)
(* the number is the same, the array it polls is the set of descriptors.   *)
(***************************************************************************)
THEOREM PollArrayIsCurrent == Spec => []PollsAll
<1>1. IInv => PollsAll
  BY DEF IInv
<1> QED BY <1>1, Invariant, PTL
=============================================================================
