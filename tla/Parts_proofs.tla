------------------------------ MODULE Parts_proofs ------------------------------
(***************************************************************************)
(* What holds of the parts beside the switch's own data, for any number of *)
(* plugins, managers, taps, queues of packets, and switches that share a   *)
(* file system, and for any command line.                                  *)
(***************************************************************************)
EXTENDS Management, Plugins, Tap, Lifecycle, BitArrays, PacketQueues, Options,
        ListsAndLoops, FiniteSetTheorems, SequenceTheorems, TLAPS

\* debugdel: the last entry takes the place of the deleted one.
LEMMA WithoutAtLists ==
  ASSUME NEW T, NEW s \in Seq(T), NEW S, Lists(s, S), NEW p \in 1 .. Len(s)
  PROVE  WithoutAt(s, p) \in Seq(T) /\ Lists(WithoutAt(s, p), S \ {s[p]})
<1> DEFINE n == Len(s)
           e == [s EXCEPT ![p] = Last(s)]
           r == WithoutAt(s, p)
<1>1. n \in Nat /\ n >= 1 /\ \A i \in 1 .. n : s[i] \in T
  BY Places
<1>2. Last(s) = s[n] /\ Last(s) \in T
  BY <1>1 DEF Last
<1>3. /\ e \in Seq(T) /\ Len(e) = n
      /\ \A j \in 1 .. n : e[j] = IF j = p THEN s[n] ELSE s[j]
  BY <1>2, ExceptSeq
<1>4. r = SubSeq(e, 1, n - 1)
  BY <1>3 DEF WithoutAt, Front
<1> HIDE DEF n, e, r
<1>p. p \in 1 .. n
  BY DEF n
<1>5. /\ r \in Seq(T) /\ Len(r) = n - 1
      /\ \A i \in 1 .. n - 1 : r[i] = e[i]
  <2>1. \A i \in 1 .. n - 1 : e[i] \in T
    BY <1>1, <1>3
  <2>2. /\ r \in Seq(T) /\ Len(r) = IF 1 <= n - 1 THEN (n - 1) - 1 + 1 ELSE 0
        /\ \A i \in 1 .. (n - 1) - 1 + 1 : r[i] = e[1 + i - 1]
    <3>1. 1 \in Int /\ n - 1 \in Int
      BY <1>1
    <3> QED BY <1>4, <2>1, <3>1, SubSeqProperties
  <2> QED BY <1>1, <2>2
<1> DEFINE at == [i \in 1 .. Len(r) |-> IF i = p THEN n ELSE i]
<1>6. /\ at \in [1 .. Len(r) -> 1 .. n]
      /\ \A i, j \in 1 .. Len(r) : at[i] = at[j] => i = j
  BY <1>1, <1>5
<1>7. \A i \in 1 .. Len(r) : at[i] # p /\ r[i] = s[at[i]]
  BY <1>1, <1>3, <1>5
<1>8. \A k \in 1 .. n : k # p => \E i \in 1 .. Len(r) : at[i] = k
  <2> TAKE k \in 1 .. n
  <2> HAVE k # p
  <2> DEFINE i == IF k = n THEN p ELSE k
  <2>1. i \in 1 .. Len(r) /\ at[i] = k
    BY <1>1, <1>p, <1>5
  <2> QED BY <2>1
<1> HIDE DEF at
<1>9. Lists(r, S \ {s[p]})
  <2>1. n = Len(s)
    BY DEF n
  <2> QED BY <1>p, <1>5, <1>6, <1>7, <1>8, <2>1, ListedLess, ZenonT(60)
<1> QED BY <1>5, <1>9 DEF r

-----------------------------------------------------------------------------
(***************************************************************************)
(* The plugins.  The invariant of the list is inductive with the types: a  *)
(* plugin that has no handle is on no list as long as the references are   *)
(* kept, and Walkable is what makes the reference that plugin/del gives    *)
(* back one that is there.                                                 *)
(***************************************************************************)
PluginsInv == PluginsTypeOK /\ PluginsHeld

LEMMA RefsKnown ==
  ASSUME PluginsInv
  PROVE  /\ MaxRefs \in Nat /\ Exporting \subseteq Libraries
         /\ \A l \in Libraries : refs[l] \in Nat /\ refs[l] <= MaxRefs
         /\ pluginh \in Seq(Exporting)
BY PluginsAssumption DEF PluginsInv, PluginsTypeOK

\* A reference more, or one that is there less, or none.
LEMMA GainKeeps ==
  ASSUME PluginsInv, NEW l \in Libraries, NEW n \in {-1, 0, 1}, Gain(l, n),
         refs[l] + n \in 0 .. MaxRefs
  PROVE  /\ refs' \in [Libraries -> 0 .. MaxRefs]
         /\ \A k \in Libraries : refs'[k] = IF k = l THEN refs[k] + n ELSE refs[k]
BY DEF Gain, PluginsInv, PluginsTypeOK

LEMMA CrashKeeps ==
  ASSUME PluginsInv, PluginCrash
  PROVE  PluginsInv'
BY DEF PluginCrash, PluginsInv, PluginsTypeOK, PluginsHeld

LEMMA PluginAddKeeps ==
  ASSUME PluginsInv, NEW r \in Requests, NEW l \in Libraries, AddPlugin(r, l)
  PROVE  PluginsInv'
<1>1. CASE ~Walkable
  BY <1>1, CrashKeeps DEF AddPlugin
<1>2. CASE Walkable
  <2>1. /\ l \in Exporting /\ refs[l] < MaxRefs /\ ~HasHandle(l)
        /\ Gain(l, 1) /\ pluginh' = Append(pluginh, l) /\ UNCHANGED <<serving, misnamed>>
    BY <1>2 DEF AddPlugin, Loads
  <2>2. /\ refs' \in [Libraries -> 0 .. MaxRefs]
        /\ \A k \in Libraries : refs'[k] = IF k = l THEN refs[k] + 1 ELSE refs[k]
    <3>1. refs[l] + 1 \in 0 .. MaxRefs
      BY <2>1, RefsKnown
    <3> QED BY <2>1, <3>1, GainKeeps
  <2>3. pluginh' \in Seq(Exporting)
    BY <2>1, RefsKnown, AppendProperties
  <2>4. PluginsTypeOK'
    BY <2>1, <2>2, <2>3 DEF PluginsInv, PluginsTypeOK
  <2>5. ASSUME ~misnamed PROVE PluginsHeld'
    <3>1. /\ IsInjective(pluginh)
          /\ \A k \in Exporting : refs[k] = IF Contains(pluginh, k) THEN 1 ELSE 0
      BY <2>5 DEF PluginsInv, PluginsHeld
    <3>2. ~Contains(pluginh, l)
      BY <1>2, <2>1, RefsKnown, Places DEF HasHandle, Walkable
    <3>3. l \notin ToSet(pluginh) /\ Lists(pluginh, ToSet(pluginh))
      BY <3>1, <3>2, RefsKnown, Places DEF Lists
    <3>4. Lists(pluginh', ToSet(pluginh) \cup {l})
      BY <2>1, <3>3, RefsKnown, AppendLists
    <3>5. /\ IsInjective(pluginh')
          /\ \A k : Contains(pluginh', k) <=> Contains(pluginh, k) \/ k = l
      BY <2>3, <3>4, RefsKnown, Places DEF Lists
    <3>6. \A k \in Exporting : refs'[k] = IF Contains(pluginh', k) THEN 1 ELSE 0
      BY <2>1, <2>2, <3>1, <3>2, <3>5, RefsKnown
    <3> QED BY <3>5, <3>6 DEF PluginsHeld
  <2>6. PluginsHeld'
    BY <2>1, <2>5 DEF PluginsHeld
  <2> QED BY <2>4, <2>6 DEF PluginsInv
<1> QED BY <1>1, <1>2

LEMMA PluginDelKeeps ==
  ASSUME PluginsInv, NEW names, PluginDel(names)
  PROVE  PluginsInv'
<1>1. CASE ~Walkable
  BY <1>1, CrashKeeps DEF PluginDel
<1>2. CASE Walkable
  <2>1. PICK i \in DOMAIN pluginh : Delete(i)
    BY <1>2 DEF PluginDel
  <2> DEFINE l == pluginh[i]
  <2>2. i \in 1 .. Len(pluginh) /\ l \in Exporting /\ l \in Libraries /\ l \in ToSet(pluginh)
    BY RefsKnown, Places
  <2>3. /\ pluginh' = RemoveAt(pluginh, i) /\ Gain(l, -1) /\ UNCHANGED <<serving, misnamed>>
    BY <2>1 DEF Delete
  <2> HIDE DEF l
  <2>4. refs[l] > 0
    BY <1>2, <2>2 DEF Walkable
  <2>5. /\ refs' \in [Libraries -> 0 .. MaxRefs]
        /\ \A k \in Libraries : refs'[k] = IF k = l THEN refs[k] + (-1) ELSE refs[k]
    <3>1. refs[l] + (-1) \in 0 .. MaxRefs /\ -1 \in {-1, 0, 1}
      BY <2>2, <2>4, RefsKnown
    <3> QED BY <2>2, <2>3, <3>1, GainKeeps
  <2>6. pluginh' \in Seq(Exporting)
    <3>1. RemoveAt(pluginh, i) \in Seq(Exporting)
      BY <2>2, RefsKnown, RemoveAtIn
    <3> QED BY <2>3, <3>1
  <2>7. PluginsTypeOK'
    BY <2>3, <2>5, <2>6 DEF PluginsInv, PluginsTypeOK
  <2>8. ASSUME ~misnamed PROVE PluginsHeld'
    <3>1. /\ IsInjective(pluginh)
          /\ \A k \in Exporting : refs[k] = IF Contains(pluginh, k) THEN 1 ELSE 0
      BY <2>8 DEF PluginsInv, PluginsHeld
    <3>2. Lists(pluginh, ToSet(pluginh))
      BY <3>1 DEF Lists
    <3>3. Lists(pluginh', ToSet(pluginh) \ {l})
      BY <2>2, <2>3, <3>2, RefsKnown, RemoveAtLists DEF l
    <3>4. /\ IsInjective(pluginh')
          /\ \A k : Contains(pluginh', k) <=> Contains(pluginh, k) /\ k # l
      BY <2>6, <3>3, RefsKnown, Places DEF Lists
    <3>5. Contains(pluginh, l)
      BY <2>2, RefsKnown, Places
    <3>6. \A k \in Exporting : refs'[k] = IF Contains(pluginh', k) THEN 1 ELSE 0
      BY <2>2, <2>5, <3>1, <3>4, <3>5, RefsKnown
    <3> QED BY <3>4, <3>6 DEF PluginsHeld
  <2>9. PluginsHeld'
    BY <2>3, <2>8 DEF PluginsHeld
  <2> QED BY <2>7, <2>9 DEF PluginsInv
<1> QED BY <1>1, <1>2

LEMMA RefusalsKeep ==
  ASSUME PluginsInv, NEW r \in Requests, NEW l \in Libraries,
         AddNoPlugin(r, l) \/ AddMisnamed(r, l) \/ AddOtherName(r, l) \/ AddAgain(r, l)
  PROVE  PluginsInv'
<1>1. CASE AddNoPlugin(r, l)
  <2>1. /\ l \notin Exporting /\ refs[l] < MaxRefs /\ Gain(l, 1)
        /\ misnamed' = (misnamed \/ r \notin Prefixed)
        /\ UNCHANGED <<serving, pluginh>>
    BY <1>1 DEF AddNoPlugin, Loads
  <2>2. /\ refs' \in [Libraries -> 0 .. MaxRefs]
        /\ \A k \in Libraries : refs'[k] = IF k = l THEN refs[k] + 1 ELSE refs[k]
    <3>1. refs[l] + 1 \in 0 .. MaxRefs
      BY <2>1, RefsKnown
    <3> QED BY <2>1, <3>1, GainKeeps
  <2>3. misnamed' \in BOOLEAN /\ (~misnamed' => ~misnamed)
    BY <2>1 DEF PluginsInv, PluginsTypeOK
  <2>4. \A k \in Exporting : refs'[k] = refs[k]
    BY <2>1, <2>2, RefsKnown
  <2>5. PluginsTypeOK'
    BY <2>1, <2>2, <2>3 DEF PluginsInv, PluginsTypeOK
  <2>6. PluginsHeld'
    BY <2>1, <2>3, <2>4 DEF PluginsInv, PluginsHeld
  <2> QED BY <2>5, <2>6 DEF PluginsInv
<1>2. CASE AddMisnamed(r, l)
  <2>1. CASE refs[l] = 0
    BY <1>2, <2>1, CrashKeeps DEF AddMisnamed
  <2>2. CASE refs[l] # 0
    <3>1. Gain(l, -1) /\ misnamed' = TRUE /\ UNCHANGED <<serving, pluginh>>
      BY <1>2, <2>2 DEF AddMisnamed
    <3>2. refs' \in [Libraries -> 0 .. MaxRefs]
      <4>1. refs[l] + (-1) \in 0 .. MaxRefs /\ -1 \in {-1, 0, 1}
        BY <2>2, RefsKnown
      <4> QED BY <3>1, <4>1, GainKeeps
    <3> QED BY <3>1, <3>2 DEF PluginsInv, PluginsTypeOK, PluginsHeld
  <2> QED BY <2>1, <2>2
<1>3. CASE AddOtherName(r, l) \/ AddAgain(r, l)
  <2>1. Gain(l, 0) /\ UNCHANGED <<serving, pluginh, misnamed>>
    BY <1>3 DEF AddOtherName, AddAgain
  <2>2. refs' = refs
    BY <2>1, RefsKnown DEF Gain, PluginsInv, PluginsTypeOK
  <2> QED BY <2>1, <2>2 DEF PluginsInv, PluginsTypeOK, PluginsHeld
<1> QED BY <1>1, <1>2, <1>3

\* Every request to winvde_plugin.c keeps the list and the references in step.
THEOREM PluginsInvariant == PluginsSpec => []PluginsInv
<1>1. PluginsInit => PluginsInv
  <2> SUFFICES ASSUME PluginsInit PROVE PluginsInv
    OBVIOUS
  <2>1. pluginh \in Seq(Exporting) /\ IsInjective(pluginh) /\ ToSet(pluginh) = {}
    BY NothingListed DEF PluginsInit, Lists
  <2>2. \A l \in Libraries : refs[l] = 0
    BY DEF PluginsInit
  <2>3. \A l : ~Contains(pluginh, l)
    BY <2>1, Places
  <2>4. PluginsTypeOK
    <3>1. serving \in BOOLEAN /\ misnamed \in BOOLEAN
      BY DEF PluginsInit
    <3>2. refs \in [Libraries -> 0 .. MaxRefs]
      <4>1. 0 \in 0 .. MaxRefs
        BY PluginsAssumption
      <4> QED BY <4>1 DEF PluginsInit
    <3> QED BY <2>1, <3>1, <3>2 DEF PluginsTypeOK
  <2>5. PluginsHeld
    BY <2>1, <2>2, <2>3, PluginsAssumption DEF PluginsHeld
  <2> QED BY <2>4, <2>5 DEF PluginsInv
<1>2. PluginsInv /\ [PluginsNext]_pluginVars => PluginsInv'
  <2> SUFFICES ASSUME PluginsInv, [PluginsNext]_pluginVars PROVE PluginsInv'
    OBVIOUS
  <2>1. CASE UNCHANGED pluginVars
    BY <2>1 DEF pluginVars, PluginsInv, PluginsTypeOK, PluginsHeld
  <2>2. CASE PluginList
    BY <2>2, CrashKeeps DEF PluginList
  <2>3. ASSUME NEW names, PluginDel(names) PROVE PluginsInv'
    BY <2>3, PluginDelKeeps
  <2>4. ASSUME NEW r \in Requests, NEW l \in Libraries, AddPlugin(r, l) PROVE PluginsInv'
    BY <2>4, PluginAddKeeps
  <2>5. ASSUME NEW r \in Requests, NEW l \in Libraries,
               AddNoPlugin(r, l) \/ AddMisnamed(r, l) \/ AddOtherName(r, l) \/ AddAgain(r, l)
        PROVE  PluginsInv'
    BY <2>5, RefusalsKeep
  <2> QED BY <2>1, <2>2, <2>3, <2>4, <2>5 DEF PluginsNext
<1> QED BY <1>1, <1>2, PTL DEF PluginsSpec

(***************************************************************************)
(* For any libraries and requests: as long as libraries are asked for by   *)
(* names with winvde_, pluginadd and plugindel of winvde_plugin.c keep one *)
(* reference for each plugin on the list, and none for any other.          *)
(***************************************************************************)
THEOREM PluginsAreHeld == PluginsSpec => []PluginsHeld
<1>1. PluginsInv => PluginsHeld
  BY DEF PluginsInv
<1> QED BY <1>1, PluginsInvariant, PTL

-----------------------------------------------------------------------------
(***************************************************************************)
(* The managers.  A number that is no connection has asked for nothing:    *)
(* otherwise MgmtAccept would give its subscriptions to somebody else.     *)
(***************************************************************************)
StrangersAskNothing == \A f \in Managers \ conns : asked[f] = {}

ManagementInv == ManagementTypeOK /\ SubscribersAsAsked /\ StrangersAskNothing

\* The connections that have asked for class c.
Askers(c) == {f \in conns : c \in asked[f]}

LEMMA Subscribed ==
  ASSUME ManagementInv, NEW c \in Classes
  PROVE  fds[c] \in Seq(Managers) /\ Lists(fds[c], Askers(c))
BY DEF ManagementInv, ManagementTypeOK, SubscribersAsAsked, Lists, Askers

LEMMA WithoutLists ==
  ASSUME NEW T, NEW s \in Seq(T), NEW S, Lists(s, S), NEW f
  PROVE  Without(s, f) \in Seq(T) /\ Lists(Without(s, f), S \ {f})
<1>1. CASE Contains(s, f)
  <2> DEFINE i == CHOOSE i \in DOMAIN s : s[i] = f
  <2>1. \E k \in DOMAIN s : s[k] = f
    BY <1>1, Places
  <2>2. i \in 1 .. Len(s) /\ s[i] = f
    BY <2>1, Places
  <2>3. Without(s, f) = WithoutAt(s, i)
    BY <1>1 DEF Without
  <2> HIDE DEF i
  <2> QED BY <2>2, <2>3, WithoutAtLists
<1>2. CASE ~Contains(s, f)
  <2>1. f \notin S
    BY <1>2, Places DEF Lists
  <2>2. S \ {f} = S
    BY <2>1
  <2> QED BY <1>2, <2>2 DEF Without
<1> QED BY <1>1, <1>2

\* What the invariant is of after a step: the arrays list those who ask.
LEMMA SubscribersAfter ==
  ASSUME running' \in BOOLEAN, conns' \subseteq Managers, reset' \subseteq conns',
         asked' \in [Managers -> SUBSET Classes],
         answer'.rv \in Answers, answer'.on \subseteq Classes,
         \A f \in Managers \ conns' : asked'[f] = {},
         NEW t, fds' = [c \in Classes |-> t[c]],
         \A c \in Classes : t[c] \in Seq(Managers) /\ Lists(t[c], {f \in conns' : c \in asked'[f]})
  PROVE  ManagementInv'
<1>1. fds' \in [Classes -> Seq(Managers)]
  OBVIOUS
<1>2. SubscribersAsAsked'
  BY DEF SubscribersAsAsked, Lists
<1> QED BY <1>1, <1>2 DEF ManagementInv, ManagementTypeOK, StrangersAskNothing

LEMMA DebugAddKeeps ==
  ASSUME ManagementInv, NEW f \in Managers, NEW path \in Paths, DebugAddCommand(f, path)
  PROVE  ManagementInv'
<1> DEFINE found == Matching[path] \cap Helped
           t == DebugAdd(fds, f, path)
<1>1. /\ f \in conns /\ fds' = t
      /\ asked' = [asked EXCEPT ![f] = @ \cup found]
      /\ answer' = [who |-> f, command |-> "debug/add", rv |-> AddAnswer(fds, f, path), on |-> {}]
      /\ UNCHANGED <<running, conns, reset>>
  BY DEF DebugAddCommand, Speaks, Reply
<1>2. /\ running \in BOOLEAN /\ conns \subseteq Managers /\ reset \subseteq conns
      /\ asked \in [Managers -> SUBSET Classes]
      /\ \A g \in Managers \ conns : asked[g] = {}
  BY DEF ManagementInv, ManagementTypeOK, StrangersAskNothing
<1>3. found \subseteq Classes
  BY ManagementAssumption
<1>4. AddAnswer(fds, f, path) \in Answers
  BY DEF AddAnswer, Answers
<1>5. \A c \in Classes : t[c] = IF c \in found /\ ~Contains(fds[c], f)
                                THEN Append(fds[c], f) ELSE fds[c]
  BY DEF DebugAdd
<1>6. t = [c \in Classes |-> t[c]]
  BY DEF DebugAdd
<1> HIDE DEF found, t
<1>7. asked' \in [Managers -> SUBSET Classes] /\ \A g \in Managers \ conns' : asked'[g] = {}
  BY <1>1, <1>2, <1>3
<1>8. ASSUME NEW c \in Classes
      PROVE  t[c] \in Seq(Managers) /\ Lists(t[c], {g \in conns' : c \in asked'[g]})
  <2>1. fds[c] \in Seq(Managers) /\ Lists(fds[c], Askers(c))
    BY Subscribed
  <2>2. Contains(fds[c], f) <=> f \in Askers(c)
    BY <2>1, Places DEF Lists
  <2>3. {g \in conns' : c \in asked'[g]} = IF c \in found THEN Askers(c) \cup {f} ELSE Askers(c)
    BY <1>1, <1>2 DEF Askers
  <2>4. CASE c \in found /\ f \notin Askers(c)
    <3>1. t[c] = Append(fds[c], f)
      BY <1>5, <2>2, <2>4
    <3> QED BY <2>1, <2>3, <2>4, <3>1, AppendLists
  <2>5. CASE ~(c \in found /\ f \notin Askers(c))
    <3>1. t[c] = fds[c]
      BY <1>5, <2>2, <2>5
    <3>2. {g \in conns' : c \in asked'[g]} = Askers(c)
      BY <2>3, <2>5
    <3> QED BY <2>1, <3>1, <3>2
  <2> QED BY <2>4, <2>5
<1>9. answer'.rv \in Answers /\ answer'.on \subseteq Classes
  BY <1>1, <1>4
<1>10. running' \in BOOLEAN /\ conns' \subseteq Managers /\ reset' \subseteq conns'
  BY <1>1, <1>2
<1>11. fds' = [c \in Classes |-> t[c]]
  BY <1>1, <1>6
<1> QED BY <1>7, <1>8, <1>9, <1>10, <1>11, SubscribersAfter

\* debugdel for f, whose classes of the path are withdrawn.
LEMMA DebugDelLists ==
  ASSUME ManagementInv, NEW f \in Managers, NEW path \in Paths
  PROVE  LET t == DebugDel(fds, f, path) IN
         /\ t = [c \in Classes |-> t[c]]
         /\ \A c \in Classes :
              /\ t[c] \in Seq(Managers)
              /\ Lists(t[c], IF c \in Matching[path] THEN Askers(c) \ {f} ELSE Askers(c))
<1> DEFINE t == DebugDel(fds, f, path)
<1>1. t = [c \in Classes |-> t[c]]
  BY DEF DebugDel
<1>2. \A c \in Classes : t[c] = IF c \in Matching[path] THEN Without(fds[c], f) ELSE fds[c]
  BY DEF DebugDel
<1> HIDE DEF t
<1>3. ASSUME NEW c \in Classes
      PROVE  /\ t[c] \in Seq(Managers)
             /\ Lists(t[c], IF c \in Matching[path] THEN Askers(c) \ {f} ELSE Askers(c))
  <2>1. fds[c] \in Seq(Managers) /\ Lists(fds[c], Askers(c))
    BY Subscribed
  <2>2. Without(fds[c], f) \in Seq(Managers) /\ Lists(Without(fds[c], f), Askers(c) \ {f})
    BY <2>1, WithoutLists
  <2> QED BY <1>2, <2>1, <2>2
<1> QED BY <1>1, <1>3 DEF t

LEMMA DebugDelKeeps ==
  ASSUME ManagementInv, NEW f \in Managers, NEW path \in Paths, DebugDelCommand(f, path)
  PROVE  ManagementInv'
<1> DEFINE t == DebugDel(fds, f, path)
<1>1. /\ fds' = t /\ asked' = [asked EXCEPT ![f] = @ \ Matching[path]]
      /\ answer' = [who |-> f, command |-> "debug/del", rv |-> DelAnswer(fds, f, path), on |-> {}]
      /\ UNCHANGED <<running, conns, reset>>
  BY DEF DebugDelCommand, Reply
<1>2. /\ running \in BOOLEAN /\ conns \subseteq Managers /\ reset \subseteq conns
      /\ asked \in [Managers -> SUBSET Classes]
      /\ \A g \in Managers \ conns : asked[g] = {}
  BY DEF ManagementInv, ManagementTypeOK, StrangersAskNothing
<1>3. DelAnswer(fds, f, path) \in Answers
  BY DEF DelAnswer, Answers
<1>4. /\ t = [c \in Classes |-> t[c]]
      /\ \A c \in Classes :
           /\ t[c] \in Seq(Managers)
           /\ Lists(t[c], IF c \in Matching[path] THEN Askers(c) \ {f} ELSE Askers(c))
  BY DebugDelLists
<1> HIDE DEF t
<1>5. asked' \in [Managers -> SUBSET Classes] /\ \A g \in Managers \ conns' : asked'[g] = {}
  BY <1>1, <1>2
<1>6. \A c \in Classes : {g \in conns' : c \in asked'[g]}
                           = IF c \in Matching[path] THEN Askers(c) \ {f} ELSE Askers(c)
  BY <1>1, <1>2 DEF Askers
<1>7. \A c \in Classes : t[c] \in Seq(Managers) /\ Lists(t[c], {g \in conns' : c \in asked'[g]})
  BY <1>4, <1>6
<1>8. answer'.rv \in Answers /\ answer'.on \subseteq Classes
  BY <1>1, <1>3
<1>9. running' \in BOOLEAN /\ conns' \subseteq Managers /\ reset' \subseteq conns'
  BY <1>1, <1>2
<1>10. fds' = [c \in Classes |-> t[c]]
  BY <1>1, <1>4
<1> QED BY <1>5, <1>7, <1>8, <1>9, <1>10, SubscribersAfter

\* The end of a session, whatever is answered and whether or not the switch ends.
LEMMA SessionEnds ==
  ASSUME ManagementInv, NEW f \in Managers, EndSession(f),
         running' \in BOOLEAN, answer'.rv \in Answers, answer'.on \subseteq Classes
  PROVE  ManagementInv'
<1> DEFINE t == DebugDel(fds, f, AnyPath)
<1>1. /\ fds' = t /\ asked' = [asked EXCEPT ![f] = {}]
      /\ conns' = conns \ {f} /\ reset' = reset \ {f}
  BY DEF EndSession
<1>2. /\ conns \subseteq Managers /\ reset \subseteq conns
      /\ asked \in [Managers -> SUBSET Classes]
      /\ \A g \in Managers \ conns : asked[g] = {}
  BY DEF ManagementInv, ManagementTypeOK, StrangersAskNothing
<1>3. AnyPath \in Paths /\ Matching[AnyPath] = Classes
  BY ManagementAssumption
<1>4. /\ t = [c \in Classes |-> t[c]]
      /\ \A c \in Classes : t[c] \in Seq(Managers) /\ Lists(t[c], Askers(c) \ {f})
  BY <1>3, DebugDelLists
<1> HIDE DEF t
<1>5. asked' \in [Managers -> SUBSET Classes] /\ \A g \in Managers \ conns' : asked'[g] = {}
  BY <1>1, <1>2
<1>6. \A c \in Classes : {g \in conns' : c \in asked'[g]} = Askers(c) \ {f}
  BY <1>1, <1>2 DEF Askers
<1>7. \A c \in Classes : t[c] \in Seq(Managers) /\ Lists(t[c], {g \in conns' : c \in asked'[g]})
  BY <1>4, <1>6
<1>8. conns' \subseteq Managers /\ reset' \subseteq conns'
  BY <1>1, <1>2
<1>9. fds' = [c \in Classes |-> t[c]]
  BY <1>1, <1>4
<1> QED BY <1>5, <1>7, <1>8, <1>9, SubscribersAfter

\* The steps in which nobody subscribes or leaves.
LEMMA OthersKeep ==
  ASSUME ManagementInv, NEW f \in Managers,
         \/ MgmtAccept(f) \/ OtherCommand(f) \/ MgmtReset(f)
         \/ \E path \in Paths : DebugListCommand(f, path)
  PROVE  ManagementInv'
<1>1. /\ running \in BOOLEAN /\ conns \subseteq Managers /\ reset \subseteq conns
      /\ asked \in [Managers -> SUBSET Classes]
      /\ answer.rv \in Answers /\ answer.on \subseteq Classes
      /\ \A g \in Managers \ conns : asked[g] = {}
      /\ fds \in [Classes -> Seq(Managers)]
  BY DEF ManagementInv, ManagementTypeOK, StrangersAskNothing
<1>2. running' = running /\ fds' = fds /\ asked' = asked
  BY DEF MgmtAccept, OtherCommand, MgmtReset, DebugListCommand
<1>3. \/ conns' = conns
      \/ f \notin conns /\ conns' = conns \cup {f}
  BY DEF MgmtAccept, OtherCommand, MgmtReset, DebugListCommand
<1>4. reset' = reset \/ (f \in conns /\ reset' = reset \cup {f} /\ conns' = conns)
  BY DEF MgmtAccept, OtherCommand, MgmtReset, DebugListCommand, Speaks
<1>5. answer'.rv \in Answers /\ answer'.on \subseteq Classes
  <2>1. CASE UNCHANGED answer
    BY <1>1, <2>1
  <2>2. CASE OtherCommand(f)
    BY <2>2 DEF OtherCommand, Reply, Answers
  <2>3. ASSUME NEW path \in Paths, DebugListCommand(f, path)
        PROVE  answer'.rv \in Answers /\ answer'.on \subseteq Classes
    <3>1. ShownOn(fds, f, path) \subseteq Classes
      BY ManagementAssumption DEF ShownOn, Shown
    <3> QED BY <2>3, <3>1 DEF DebugListCommand, Reply, Answers
  <2> QED BY <2>1, <2>2, <2>3 DEF MgmtAccept, MgmtReset
<1>6. \A c \in Classes : {g \in conns' : c \in asked'[g]} = Askers(c)
  BY <1>1, <1>2, <1>3 DEF Askers
<1>7. \A c \in Classes :
        fds[c] \in Seq(Managers) /\ Lists(fds[c], {g \in conns' : c \in asked'[g]})
  BY <1>6, Subscribed
<1>8. running' \in BOOLEAN /\ conns' \subseteq Managers /\ reset' \subseteq conns'
  BY <1>1, <1>2, <1>3, <1>4
<1>9. asked' \in [Managers -> SUBSET Classes] /\ \A g \in Managers \ conns' : asked'[g] = {}
  BY <1>1, <1>2, <1>3
<1>10. fds' = [c \in Classes |-> fds[c]]
  BY <1>1, <1>2
<1> QED BY <1>5, <1>7, <1>8, <1>9, <1>10, SubscribersAfter

\* Sessions of winvde_mgmt.c and commands of winvde_debugopt.c keep the subscriptions,
\* of up to four managers.
THEOREM ManagementInvariant == ManagementSpec => []ManagementInv
<1>1. ManagementInit => ManagementInv
  <2> SUFFICES ASSUME ManagementInit PROVE ManagementInv
    OBVIOUS
  <2>1. << >> \in Seq(Managers) /\ Lists(<< >>, {})
    BY NothingListed
  <2>2. ManagementTypeOK
    BY <2>1 DEF ManagementInit, ManagementTypeOK, NoAnswer, Answers
  <2>3. SubscribersAsAsked
    BY <2>1 DEF ManagementInit, SubscribersAsAsked, Lists
  <2> QED BY <2>2, <2>3 DEF ManagementInv, StrangersAskNothing, ManagementInit
<1>2. ManagementInv /\ [ManagementNext]_mgmtVars => ManagementInv'
  <2> SUFFICES ASSUME ManagementInv, [ManagementNext]_mgmtVars PROVE ManagementInv'
    OBVIOUS
  <2>1. CASE UNCHANGED mgmtVars
    BY <2>1 DEF mgmtVars, ManagementInv, ManagementTypeOK, SubscribersAsAsked,
                StrangersAskNothing
  <2>2. ASSUME NEW f \in Managers, Logout(f) \/ Shutdown(f) \/ MgmtEof(f) PROVE ManagementInv'
    <3>1. EndSession(f)
      BY <2>2 DEF Logout, Shutdown, MgmtEof
    <3>2. running' \in BOOLEAN /\ answer'.rv \in Answers /\ answer'.on \subseteq Classes
      <4>1. running' \in BOOLEAN
        BY <2>2 DEF Logout, Shutdown, MgmtEof, ManagementInv, ManagementTypeOK
      <4>2. answer'.rv \in Answers /\ answer'.on \subseteq Classes
        BY <2>2 DEF Logout, Shutdown, MgmtEof, Reply, Answers, ManagementInv, ManagementTypeOK
      <4> QED BY <4>1, <4>2
    <3> QED BY <3>1, <3>2, SessionEnds
  <2>3. ASSUME NEW f \in Managers, NEW path \in Paths, DebugAddCommand(f, path)
        PROVE  ManagementInv'
    BY <2>3, DebugAddKeeps
  <2>4. ASSUME NEW f \in Managers, NEW path \in Paths, DebugDelCommand(f, path)
        PROVE  ManagementInv'
    BY <2>4, DebugDelKeeps
  <2>5. ASSUME NEW f \in Managers,
               \/ MgmtAccept(f) \/ OtherCommand(f) \/ MgmtReset(f)
               \/ \E path \in Paths : DebugListCommand(f, path)
        PROVE  ManagementInv'
    BY <2>5, OthersKeep
  <2> QED BY <2>1, <2>2, <2>3, <2>4, <2>5 DEF ManagementNext
<1> QED BY <1>1, <1>2, PTL DEF ManagementSpec

(***************************************************************************)
(* For up to four managers, which is how many the array of debugadd has    *)
(* room for (ManagementAssumption), and any classes and paths: each array  *)
(* of debugadd and debugdel holds exactly the open connections that have   *)
(* asked for the class, each once, through every way a session ends.       *)
(***************************************************************************)
THEOREM SubscribersAreAsAsked == ManagementSpec => []SubscribersAsAsked
<1>1. ManagementInv => SubscribersAsAsked
  BY DEF ManagementInv
<1> QED BY <1>1, ManagementInvariant, PTL

-----------------------------------------------------------------------------
(***************************************************************************)
(* The taps.  A tap that is still to be opened has nothing, so what newtap *)
(* takes is all that it has; and once the last is opened the list of the   *)
(* command line is empty, so taptun_delep finds no tap there, gives back   *)
(* the endpoint alone, and adapterIndex goes on counting the tap.          *)
(***************************************************************************)
OpenedOnce ==
  /\ IsInjective(hinit_tap) /\ IsInjective(opening)
  /\ \A t \in ToSet(opening) : held[t] = {}

OpenedAtStart ==
  /\ ~started => opening = << >> /\ \A t \in Taps : held[t] = {}
  /\ started /\ opening = << >> => hinit_tap = << >>

TapInv == TapTypeOK /\ TapsWhole /\ OpenedOnce /\ OpenedAtStart

\* The taps that have something.
Opened == {t \in Taps : held[t] # {}}

Resources == {"adapter", "address", "session", "socket", "connection", "endpoint"}

LEMMA AllTaken ==
  /\ DOMAIN Taken = 1 .. 6 /\ Taken \in Seq(Resources) /\ Len(Taken) = 6
  /\ "adapter" \in ToSet(Taken) /\ "endpoint" \in ToSet(Taken)
  /\ ToSet(Taken) # {} /\ ToSet(Taken) \ {"endpoint"} # {}
<1>1. DOMAIN Taken = 1 .. 6 /\ Taken \in Seq(Resources) /\ Len(Taken) = 6
  <2>1. Taken \in Seq(Resources)
    BY DEF Taken, Resources
  <2>2. Len(Taken) = 6
    BY DEF Taken
  <2>3. DOMAIN Taken = 1 .. Len(Taken)
    BY <2>1, LenProperties
  <2> QED BY <2>1, <2>2, <2>3
<1>2. Taken[1] = "adapter" /\ Taken[6] = "endpoint"
  BY DEF Taken
<1>3. "adapter" \in ToSet(Taken) /\ "endpoint" \in ToSet(Taken)
  BY <1>1, <1>2, Places
<1> QED BY <1>1, <1>3

\* Every failure gives back all that was taken.
LEMMA FailureGivesBack ==
  \A k \in DOMAIN Taken : ToSet(SubSeq(Taken, 1, k - 1)) \ GivenBack(k) = {}
<1> TAKE k \in DOMAIN Taken
<1>1. k \in 1 .. 6 /\ \A i \in 1 .. 6 : Taken[i] \in Resources
  BY AllTaken DEF Taken, Resources
<1> DEFINE s == SubSeq(Taken, 1, k - 1)
<1>2. /\ s \in Seq(Resources) /\ Len(s) = k - 1
      /\ \A i \in 1 .. k - 1 : s[i] = Taken[i]
  <2>1. 1 \in Int /\ k - 1 \in Int /\ \A i \in 1 .. k - 1 : Taken[i] \in Resources
    BY <1>1
  <2>2. /\ s \in Seq(Resources) /\ Len(s) = IF 1 <= k - 1 THEN (k - 1) - 1 + 1 ELSE 0
        /\ \A i \in 1 .. (k - 1) - 1 + 1 : s[i] = Taken[1 + i - 1]
    BY <2>1, SubSeqProperties
  <2> HIDE DEF s
  <2> QED BY <1>1, <2>2
<1> HIDE DEF s
<1>3. ASSUME NEW i \in 1 .. k - 1 PROVE s[i] \in GivenBack(k)
  <2>1. s[i] = Taken[i] /\ i \in 1 .. 5 /\ i < k
    BY <1>1, <1>2
  <2>2. CASE i = 1
    BY <1>1, <2>1, <2>2 DEF Taken, GivenBack
  <2>3. CASE i = 2
    BY <1>1, <2>1, <2>3 DEF Taken, GivenBack
  <2>4. CASE i = 3
    BY <1>1, <2>1, <2>4 DEF Taken, GivenBack
  <2>5. CASE i = 4
    BY <1>1, <2>1, <2>5 DEF Taken, GivenBack
  <2>6. CASE i = 5
    BY <1>1, <2>1, <2>6 DEF Taken, GivenBack
  <2> QED BY <2>1, <2>2, <2>3, <2>4, <2>5, <2>6
<1>4. \A r \in ToSet(s) : r \in GivenBack(k)
  <2> TAKE r \in ToSet(s)
  <2>1. PICK i \in 1 .. Len(s) : s[i] = r
    BY <1>2, Places
  <2> QED BY <1>2, <1>3, <2>1
<1> QED BY <1>4 DEF s

LEMMA TapFacts ==
  ASSUME TapInv
  PROVE  /\ hinit_tap \in Seq(Taps) /\ opening \in Seq(Taps) /\ tapFds \in Seq(Taps)
         /\ held \in [Taps -> SUBSET ToSet(Taken)]
         /\ Lists(tapFds, {t \in Taps : "endpoint" \in held[t]})
         /\ IsFiniteSet(Opened) /\ adapterIndex = Cardinality(Opened)
<1>1. Opened \in SUBSET Taps
  BY DEF Opened
<1>2. IsFiniteSet(Opened)
  BY <1>1, FS_Subset, TapAssumption
<1>3. /\ hinit_tap \in Seq(Taps) /\ opening \in Seq(Taps) /\ tapFds \in Seq(Taps)
      /\ held \in [Taps -> SUBSET ToSet(Taken)]
  BY DEF TapInv, TapTypeOK
<1>4. Lists(tapFds, {t \in Taps : "endpoint" \in held[t]})
  BY DEF TapInv, TapsWhole, Lists
<1>5. adapterIndex = Cardinality(Opened)
  BY DEF TapInv, TapsWhole, Opened
<1> QED BY <1>2, <1>3, <1>4, <1>5

\* The counter stays within its bound.
LEMMA IndexBounded ==
  ASSUME NEW n, NEW S \in SUBSET Taps, n = Cardinality(S)
  PROVE  n \in 0 .. Cardinality(Taps)
<1>1. IsFiniteSet(S) /\ Cardinality(S) <= Cardinality(Taps)
  BY FS_Subset, TapAssumption
<1>2. Cardinality(S) \in Nat /\ Cardinality(Taps) \in Nat
  BY <1>1, FS_CardinalityType, TapAssumption
<1> QED BY <1>1, <1>2

LEMMA TapInitInv == TapInit => TapInv
<1> SUFFICES ASSUME TapInit PROVE TapInv
  OBVIOUS
<1>1. << >> \in Seq(Taps) /\ IsInjective(<< >>) /\ ToSet(<< >>) = {}
  BY NothingListed DEF Lists
<1>2. {t \in Taps : held[t] # {}} = {} /\ {t \in Taps : "endpoint" \in held[t]} = {}
  BY DEF TapInit
<1>3. Cardinality({t \in Taps : held[t] # {}}) = 0
  BY <1>2, FS_EmptySet
<1>4. adapterIndex \in 0 .. Cardinality(Taps)
  BY <1>3, IndexBounded DEF TapInit
<1>5. TapTypeOK
  BY <1>1, <1>4 DEF TapInit, TapTypeOK
<1>6. TapsWhole
  BY <1>1, <1>2, <1>3 DEF TapInit, TapsWhole
<1>7. OpenedOnce /\ OpenedAtStart
  BY <1>1 DEF TapInit, OpenedOnce, OpenedAtStart
<1> QED BY <1>5, <1>6, <1>7 DEF TapInv

LEMMA TapOptionKeeps ==
  ASSUME TapInv, NEW t \in Taps, TapOption(t)
  PROVE  TapInv'
<1>1. /\ ~started /\ ~Contains(hinit_tap, t) /\ hinit_tap' = Append(hinit_tap, t)
      /\ UNCHANGED <<started, opening, adapterIndex, held, tapFds>>
  BY DEF TapOption
<1>2. Lists(hinit_tap, ToSet(hinit_tap)) /\ t \notin ToSet(hinit_tap)
  BY <1>1, TapFacts, Places DEF TapInv, OpenedOnce, Lists
<1>3. hinit_tap' \in Seq(Taps) /\ IsInjective(hinit_tap')
  <2>1. Append(hinit_tap, t) \in Seq(Taps) /\ Lists(Append(hinit_tap, t), ToSet(hinit_tap) \cup {t})
    BY <1>2, TapFacts, AppendLists
  <2> QED BY <1>1, <2>1 DEF Lists
<1> QED BY <1>1, <1>3 DEF TapInv, TapTypeOK, TapsWhole, OpenedOnce, OpenedAtStart

LEMMA TaptunInitKeeps ==
  ASSUME TapInv, TaptunInit
  PROVE  TapInv'
<1>1. /\ ~started /\ started' = TRUE /\ opening' = hinit_tap
      /\ UNCHANGED <<hinit_tap, adapterIndex, held, tapFds>>
  BY DEF TaptunInit
<1>2. \A t \in ToSet(hinit_tap) : t \in Taps
  BY TapFacts, Places
<1>3. OpenedOnce'
  BY <1>1, <1>2 DEF TapInv, OpenedOnce, OpenedAtStart
<1> QED BY <1>1, <1>3 DEF TapInv, TapTypeOK, TapsWhole, OpenedAtStart

\* What taptun_init does behind each tap.
LEMMA NextTapKeeps ==
  ASSUME TapInv, opening # << >>, NextTap
  PROVE  /\ hinit_tap' \in Seq(Taps) /\ opening' \in Seq(Taps) /\ started' = started
         /\ IsInjective(hinit_tap') /\ IsInjective(opening')
         /\ Head(opening) \in Taps /\ started /\ held[Head(opening)] = {}
         /\ \A t \in ToSet(opening') : t \in ToSet(opening) /\ t # Head(opening)
         /\ opening' = << >> => hinit_tap' = << >>
<1>1. /\ opening' = Tail(opening) /\ started' = started
      /\ hinit_tap' = IF Len(opening) = 1 THEN << >> ELSE hinit_tap
  BY DEF NextTap
<1>2. /\ Head(opening) \in Taps /\ opening' \in Seq(Taps) /\ Len(opening') = Len(opening) - 1
      /\ \A i \in 1 .. Len(opening') : opening'[i] = opening[i + 1]
  BY <1>1, TapFacts, HeadTailProperties
<1>3. /\ Len(opening) \in Nat \ {0}
      /\ \A i, j \in 1 .. Len(opening) : opening[i] = opening[j] => i = j
      /\ \A i \in 1 .. Len(opening) : opening[i] \in ToSet(opening)
  <2>1. Len(opening) \in Nat \ {0}
    BY TapFacts, EmptySeq
  <2> QED BY <2>1, TapFacts, Places DEF TapInv, OpenedOnce
<1>4. Head(opening) = opening[1] /\ 1 \in 1 .. Len(opening)
  BY <1>3, TapFacts
<1>5. held[Head(opening)] = {}
  BY <1>3, <1>4 DEF TapInv, OpenedOnce
<1>6. \A i, j \in 1 .. Len(opening') : opening'[i] = opening'[j] => i = j
  BY <1>2, <1>3
<1>7. ASSUME NEW t \in ToSet(opening') PROVE t \in ToSet(opening) /\ t # Head(opening)
  <2>1. PICK i \in 1 .. Len(opening') : opening'[i] = t
    BY <1>2, Places
  <2>2. i + 1 \in 1 .. Len(opening) /\ i + 1 # 1 /\ opening[i + 1] = t
    BY <1>2, <1>3, <2>1
  <2> QED BY <1>3, <1>4, <2>2
<1>8. IsInjective(opening')
  BY <1>2, <1>6, Places
<1>9. hinit_tap' \in Seq(Taps) /\ IsInjective(hinit_tap')
  BY <1>1, TapFacts, NothingListed DEF TapInv, OpenedOnce, Lists
<1>10. opening' = << >> => hinit_tap' = << >>
  <2>1. opening' = << >> => Len(opening') = 0
    BY EmptySeq
  <2> QED BY <1>1, <1>2, <1>3, <2>1
<1>11. started
  BY DEF TapInv, OpenedAtStart
<1> QED BY <1>1, <1>2, <1>5, <1>7, <1>8, <1>9, <1>10, <1>11

LEMMA NewTapFailsKeeps ==
  ASSUME TapInv, NEW k \in DOMAIN Taken, NewTapFails(k)
  PROVE  TapInv'
<1> DEFINE t == Head(opening)
<1>1. /\ opening # << >> /\ NextTap /\ UNCHANGED <<adapterIndex, tapFds>>
      /\ held' = [held EXCEPT ![t] = ToSet(SubSeq(Taken, 1, k - 1)) \ GivenBack(k)]
  BY DEF NewTapFails
<1>2. /\ hinit_tap' \in Seq(Taps) /\ opening' \in Seq(Taps) /\ started' = started
      /\ IsInjective(hinit_tap') /\ IsInjective(opening')
      /\ t \in Taps /\ started /\ held[t] = {}
      /\ \A u \in ToSet(opening') : u \in ToSet(opening) /\ u # t
      /\ opening' = << >> => hinit_tap' = << >>
  BY <1>1, NextTapKeeps
<1>3. held' = [held EXCEPT ![t] = {}]
  BY <1>1, FailureGivesBack
<1> HIDE DEF t
<1>4. held' = held
  BY <1>2, <1>3, TapFacts
<1>5. TapTypeOK' /\ TapsWhole'
  BY <1>1, <1>2, <1>4 DEF TapInv, TapTypeOK, TapsWhole
<1>6. OpenedOnce'
  BY <1>2, <1>4 DEF TapInv, OpenedOnce
<1>7. OpenedAtStart'
  BY <1>2 DEF OpenedAtStart
<1> QED BY <1>5, <1>6, <1>7 DEF TapInv

LEMMA NewTapKeeps ==
  ASSUME TapInv, NewTap
  PROVE  TapInv'
<1> DEFINE t == Head(opening)
<1>1. /\ opening # << >> /\ NextTap /\ held' = [held EXCEPT ![t] = ToSet(Taken)]
      /\ tapFds' = <<t>> \o tapFds /\ adapterIndex' = adapterIndex + 1
  BY DEF NewTap
<1>2. /\ hinit_tap' \in Seq(Taps) /\ opening' \in Seq(Taps) /\ started' = started
      /\ IsInjective(hinit_tap') /\ IsInjective(opening')
      /\ t \in Taps /\ started /\ held[t] = {}
      /\ \A u \in ToSet(opening') : u \in ToSet(opening) /\ u # t
      /\ opening' = << >> => hinit_tap' = << >>
  BY <1>1, NextTapKeeps
<1> HIDE DEF t
<1>3. /\ held' \in [Taps -> SUBSET ToSet(Taken)] /\ held'[t] = ToSet(Taken)
      /\ \A u \in Taps : u # t => held'[u] = held[u]
  BY <1>1, <1>2, TapFacts
<1>4. tapFds' \in Seq(Taps) /\ Lists(tapFds', {u \in Taps : "endpoint" \in held'[u]})
  <2> DEFINE S == {u \in Taps : "endpoint" \in held[u]}
  <2>1. t \notin S /\ {u \in Taps : "endpoint" \in held'[u]} = S \cup {t}
    BY <1>2, <1>3, AllTaken
  <2>2. Lists(tapFds, S) /\ tapFds \in Seq(Taps)
    BY TapFacts
  <2> HIDE DEF S
  <2>3. <<t>> \o tapFds \in Seq(Taps) /\ Lists(<<t>> \o tapFds, S \cup {t})
    BY <1>2, <2>1, <2>2, ConsLists
  <2> QED BY <1>1, <2>1, <2>3
<1>5. adapterIndex' = Cardinality(Opened')
  <2>1. t \notin Opened /\ Opened' = Opened \cup {t}
    BY <1>2, <1>3, AllTaken DEF Opened
  <2>2. Cardinality(Opened \cup {t}) = Cardinality(Opened) + 1
    BY <2>1, TapFacts, FS_AddElement
  <2> QED BY <1>1, <2>1, <2>2, TapFacts
<1>6. adapterIndex' \in 0 .. Cardinality(Taps)
  <2>1. Opened' \in SUBSET Taps
    BY DEF Opened
  <2> QED BY <1>5, <2>1, IndexBounded
<1>7. TapTypeOK'
  BY <1>2, <1>3, <1>4, <1>6 DEF TapInv, TapTypeOK
<1>8. TapsWhole'
  <2>1. \A u \in Taps : held'[u] \in {{}, ToSet(Taken), ToSet(Taken) \ {"endpoint"}}
    BY <1>3 DEF TapInv, TapsWhole
  <2>2. IsInjective(tapFds') /\ ToSet(tapFds') = {u \in Taps : "endpoint" \in held'[u]}
    BY <1>4 DEF Lists
  <2>3. adapterIndex' = Cardinality({u \in Taps : held'[u] # {}})
    BY <1>5 DEF Opened
  <2> QED BY <2>1, <2>2, <2>3 DEF TapsWhole
<1>9. OpenedOnce'
  <2>1. \A u \in ToSet(opening') : held'[u] = {}
    <3> TAKE u \in ToSet(opening')
    <3>1. u \in ToSet(opening) /\ u # t /\ u \in Taps
      BY <1>2, Places
    <3>2. held[u] = {}
      BY <3>1 DEF TapInv, OpenedOnce
    <3> QED BY <1>3, <3>1, <3>2
  <2> QED BY <1>2, <2>1 DEF OpenedOnce
<1>10. OpenedAtStart'
  BY <1>2 DEF OpenedAtStart
<1> QED BY <1>7, <1>8, <1>9, <1>10 DEF TapInv

LEMMA CloseTapKeeps ==
  ASSUME TapInv, NEW t \in Taps, CloseTap(t)
  PROVE  TapInv'
<1>1. PICK i \in DOMAIN tapFds : tapFds[i] = t /\ tapFds' = RemoveAt(tapFds, i)
  BY DEF CloseTap
<1>2. /\ opening = << >> /\ UNCHANGED <<hinit_tap, started, opening, adapterIndex>>
      /\ held' = [held EXCEPT ![t] = IF Contains(hinit_tap, t) THEN {} ELSE @ \ {"endpoint"}]
  BY DEF CloseTap
<1> DEFINE S == {u \in Taps : "endpoint" \in held[u]}
<1>3. tapFds \in Seq(Taps) /\ Lists(tapFds, S) /\ i \in 1 .. Len(tapFds) /\ t \in S
  BY <1>1, TapFacts, Places DEF Lists
<1>4. started /\ hinit_tap = << >>
  BY <1>2, <1>3 DEF TapInv, OpenedAtStart
<1>5. ~Contains(hinit_tap, t)
  BY <1>4, NothingListed, Places DEF Lists
<1>6. held[t] = ToSet(Taken)
  BY <1>3 DEF TapInv, TapsWhole
<1>7. /\ held' \in [Taps -> SUBSET ToSet(Taken)] /\ held'[t] = ToSet(Taken) \ {"endpoint"}
      /\ \A u \in Taps : u # t => held'[u] = held[u]
  BY <1>2, <1>5, <1>6, TapFacts
<1>8. {u \in Taps : "endpoint" \in held'[u]} = S \ {t}
  BY <1>7
<1> HIDE DEF S
<1>9. tapFds' \in Seq(Taps) /\ Lists(tapFds', S \ {t})
  BY <1>1, <1>3, RemoveAtLists
<1>10. {u \in Taps : held'[u] # {}} = {u \in Taps : held[u] # {}}
  BY <1>6, <1>7, AllTaken
<1>11. TapTypeOK'
  BY <1>2, <1>7, <1>9 DEF TapInv, TapTypeOK
<1>12. TapsWhole'
  <2>1. \A u \in Taps : held'[u] \in {{}, ToSet(Taken), ToSet(Taken) \ {"endpoint"}}
    BY <1>7 DEF TapInv, TapsWhole
  <2>2. IsInjective(tapFds') /\ ToSet(tapFds') = {u \in Taps : "endpoint" \in held'[u]}
    BY <1>8, <1>9 DEF Lists
  <2>3. adapterIndex' = Cardinality({u \in Taps : held'[u] # {}})
    BY <1>2, <1>10 DEF TapInv, TapsWhole
  <2> QED BY <2>1, <2>2, <2>3 DEF TapsWhole
<1>13. OpenedOnce'
  <2>1. ToSet(opening') = {}
    BY <1>2, NothingListed DEF Lists
  <2> QED BY <1>2, <2>1 DEF TapInv, OpenedOnce
<1>14. OpenedAtStart'
  BY <1>2, <1>4 DEF OpenedAtStart
<1> QED BY <1>11, <1>12, <1>13, <1>14 DEF TapInv

\* Every step of newtap, of its labels and of taptun_delep keeps the taps whole.
THEOREM TapsInvariant == TapSpec => []TapInv
<1>1. TapInv /\ [TapNext]_tapVars => TapInv'
  <2> SUFFICES ASSUME TapInv, [TapNext]_tapVars PROVE TapInv'
    OBVIOUS
  <2>1. CASE UNCHANGED tapVars
    BY <2>1 DEF tapVars, TapInv, TapTypeOK, TapsWhole, OpenedOnce, OpenedAtStart
  <2>2. CASE TaptunInit
    BY <2>2, TaptunInitKeeps
  <2>3. CASE NewTap
    BY <2>3, NewTapKeeps
  <2>4. ASSUME NEW t \in Taps, TapOption(t) PROVE TapInv'
    BY <2>4, TapOptionKeeps
  <2>5. ASSUME NEW t \in Taps, CloseTap(t) PROVE TapInv'
    BY <2>5, CloseTapKeeps
  <2>6. ASSUME NEW k \in DOMAIN Taken, NewTapFails(k) PROVE TapInv'
    BY <2>6, NewTapFailsKeeps
  <2> QED BY <2>1, <2>2, <2>3, <2>4, <2>5, <2>6 DEF TapNext
<1> QED BY <1>1, TapInitInv, PTL DEF TapSpec

(***************************************************************************)
(* For any number of taps: every label that newtap of winvde_tuntap.c      *)
(* jumps to leaves the tap without anything, and the closing of endpoints  *)
(* later never makes adapterIndex name an adapter that is there.           *)
(***************************************************************************)
THEOREM TapsStayWhole == TapSpec => []TapsWhole
<1>1. TapInv => TapsWhole
  BY DEF TapInv
<1> QED BY <1>1, TapsInvariant, PTL

-----------------------------------------------------------------------------
(***************************************************************************)
(* Start and end.  What EndsClean says of a file is not enough to clean up *)
(* by its name: a file that is a switch's is under its own name, a switch  *)
(* that listens has ctl.sock, one that has only made its directory has     *)
(* none, and the directory of a switch is not one that a crash has left.   *)
(***************************************************************************)
OwnNames ==
  /\ \A d \in DirNames : ctl[d] \in Switches => CtlDir[ctl[d]] = d
  /\ \A m \in MgmtNames : mgmt[m] \in Switches => MgmtSocket[mgmt[m]] = m
  /\ \A p \in PidNames : pid[p] \in Switches => PidFile[pid[p]] = p

HasCtl ==
  /\ \A s \in Switches : Listens(s) => ctl[CtlDir[s]] = s
  /\ \A d \in DirNames : ctl[d] \in Switches => phase[ctl[d]] # "made"

HasMgmt == \A s \in Switches : phase[s] = "serving" =>
             MgmtSocket[s] \in MgmtNames /\ mgmt[MgmtSocket[s]] = s

OrphansApart == \A s \in WithDirectory : CtlDir[s] \notin orphans

LifeInv == LifeTypeOK /\ NothingLeft /\ OwnNames /\ HasCtl /\ HasMgmt /\ OrphansApart

LEMMA LifeInvInit == LifeInit => LifeInv
<1> SUFFICES ASSUME LifeInit PROVE LifeInv
  OBVIOUS
<1>1. LifeTypeOK
  BY LifecycleAssumption DEF LifeInit, LifeTypeOK, Phases
<1>2. WithDirectory = {}
  BY DEF LifeInit, WithDirectory
<1>3. NothingLeft
  BY <1>2, LifecycleAssumption DEF LifeInit, NothingLeft
<1> QED BY <1>1, <1>2, <1>3, LifecycleAssumption
        DEF LifeInit, LifeInv, OwnNames, HasCtl, HasMgmt, OrphansApart, Listens

LEMMA MakeDirInv ==
  ASSUME LifeInv, NEW s \in Switches, MakeDir(s)
  PROVE  LifeInv'
<1>1. LifeTypeOK'
  BY DEF LifeInv, MakeDir, Goto, DirNames, LifeTypeOK, Phases
<1>2. NothingLeft'
  BY DEF LifeInv, MakeDir, Goto, LifeTypeOK, NothingLeft, WithDirectory
<1>3. OwnNames'
  BY DEF LifeInv, MakeDir, OwnNames
<1>4. HasCtl'
  BY DEF LifeInv, MakeDir, Goto, HasCtl, Listens, NothingLeft
<1>5. HasMgmt'
  BY DEF LifeInv, MakeDir, Goto, HasMgmt
<1>6. OrphansApart'
  BY DEF LifeInv, MakeDir, Goto, OrphansApart, NothingLeft, WithDirectory
<1> QED BY <1>1, <1>2, <1>3, <1>4, <1>5, <1>6 DEF LifeInv

LEMMA MakeDirFailsInv ==
  ASSUME LifeInv, NEW s \in Switches, MakeDirFails(s)
  PROVE  LifeInv'
<1>1. LifeTypeOK'
  BY DEF LifeInv, MakeDirFails, LifeTypeOK, Refuse
<1>2. NothingLeft'
  BY DEF LifeInv, MakeDirFails, NothingLeft, WithDirectory
<1>3. OwnNames'
  BY DEF LifeInv, MakeDirFails, OwnNames
<1>4. HasCtl'
  BY DEF LifeInv, MakeDirFails, HasCtl, Listens
<1>5. HasMgmt'
  BY DEF LifeInv, MakeDirFails, HasMgmt
<1>6. OrphansApart'
  BY DEF LifeInv, MakeDirFails, OrphansApart, WithDirectory
<1> QED BY <1>1, <1>2, <1>3, <1>4, <1>5, <1>6 DEF LifeInv

LEMMA BindCtlInv ==
  ASSUME LifeInv, NEW s \in Switches, BindCtl(s)
  PROVE  LifeInv'
<1>1. LifeTypeOK'
  BY DEF LifeInv, BindCtl, Goto, LifeTypeOK, Phases
<1>2. NothingLeft'
  BY DEF LifeInv, BindCtl, Goto, NothingLeft, WithDirectory
<1>3. OwnNames'
  BY DEF LifeInv, BindCtl, OwnNames
<1>4. HasCtl'
  BY DEF LifeInv, BindCtl, Goto, LifeTypeOK, HasCtl, Listens, NothingLeft, WithDirectory
<1>5. HasMgmt'
  BY DEF LifeInv, BindCtl, Goto, HasMgmt
<1>6. OrphansApart'
  BY DEF LifeInv, BindCtl, Goto, OrphansApart, WithDirectory
<1> QED BY <1>1, <1>2, <1>3, <1>4, <1>5, <1>6 DEF LifeInv

LEMMA BindCtlFailsInv ==
  ASSUME LifeInv, NEW s \in Switches, BindCtlFails(s)
  PROVE  LifeInv'
<1>1. LifeTypeOK'
  BY DEF LifeInv, BindCtlFails, Goto, LifeTypeOK, Phases, NothingLeft, WithDirectory
<1>2. NothingLeft'
  BY DEF LifeInv, BindCtlFails, Goto, NothingLeft, HasCtl, WithDirectory
<1>3. OwnNames'
  BY DEF LifeInv, BindCtlFails, OwnNames
<1>4. HasCtl'
  BY DEF LifeInv, BindCtlFails, Goto, HasCtl, Listens
<1>5. HasMgmt'
  BY DEF LifeInv, BindCtlFails, Goto, HasMgmt
<1>6. OrphansApart'
  BY DEF LifeInv, BindCtlFails, Goto, LifeTypeOK, OrphansApart, NothingLeft, WithDirectory
<1> QED BY <1>1, <1>2, <1>3, <1>4, <1>5, <1>6 DEF LifeInv

LEMMA BindMgmtInv ==
  ASSUME LifeInv, NEW s \in Switches, BindMgmt(s)
  PROVE  LifeInv'
<1>1. LifeTypeOK'
  BY DEF LifeInv, BindMgmt, Goto, LifeTypeOK, Phases, SavePidfile
<1>2. NothingLeft'
  BY DEF LifeInv, BindMgmt, Goto, LifeTypeOK, NothingLeft, WithDirectory, SavePidfile
<1>3. OwnNames'
  BY DEF LifeInv, BindMgmt, OwnNames, SavePidfile
<1>4. HasCtl'
  BY DEF LifeInv, BindMgmt, Goto, HasCtl, Listens
<1>5. HasMgmt'
  BY LifecycleAssumption DEF LifeInv, BindMgmt, Goto, MgmtNames, LifeTypeOK, HasMgmt
<1>6. OrphansApart'
  BY DEF LifeInv, BindMgmt, Goto, OrphansApart, WithDirectory
<1> QED BY <1>1, <1>2, <1>3, <1>4, <1>5, <1>6 DEF LifeInv

LEMMA BindMgmtFailsInv ==
  ASSUME LifeInv, NEW s \in Switches, BindMgmtFails(s)
  PROVE  LifeInv'
<1>1. LifeTypeOK'
  BY DEF LifeInv, BindMgmtFails, Goto, LifeTypeOK, Phases, Refuse, SavePidfile
<1>2. NothingLeft'
  BY DEF LifeInv, BindMgmtFails, Goto, LifeTypeOK, NothingLeft, WithDirectory, SavePidfile
<1>3. OwnNames'
  BY DEF LifeInv, BindMgmtFails, OwnNames, SavePidfile
<1>4. HasCtl'
  BY DEF LifeInv, BindMgmtFails, Goto, HasCtl, Listens
<1>5. HasMgmt'
  BY DEF LifeInv, BindMgmtFails, Goto, HasMgmt
<1>6. OrphansApart'
  BY DEF LifeInv, BindMgmtFails, Goto, OrphansApart, WithDirectory
<1> QED BY <1>1, <1>2, <1>3, <1>4, <1>5, <1>6 DEF LifeInv

LEMMA NoMgmtOptionInv ==
  ASSUME LifeInv, NEW s \in Switches, NoMgmtOption(s)
  PROVE  LifeInv'
<1>1. LifeTypeOK'
  BY DEF LifeInv, NoMgmtOption, Goto, LifeTypeOK, Phases, SavePidfile
<1>2. NothingLeft'
  BY DEF LifeInv, NoMgmtOption, Goto, LifeTypeOK, NothingLeft, WithDirectory, SavePidfile
<1>3. OwnNames'
  BY DEF LifeInv, NoMgmtOption, OwnNames, SavePidfile
<1>4. HasCtl'
  BY DEF LifeInv, NoMgmtOption, Goto, HasCtl, Listens
<1>5. HasMgmt'
  BY DEF LifeInv, NoMgmtOption, Goto, HasMgmt
<1>6. OrphansApart'
  BY DEF LifeInv, NoMgmtOption, Goto, OrphansApart, WithDirectory
<1> QED BY <1>1, <1>2, <1>3, <1>4, <1>5, <1>6 DEF LifeInv

LEMMA FileCleanUpInv ==
  ASSUME LifeInv, NEW s \in Switches, FileCleanUp(s)
  PROVE  LifeInv'
<1>1. LifeTypeOK'
  BY DEF LifeInv, FileCleanUp, Goto, LifeTypeOK, Phases
<1>2. NothingLeft'
  BY LifecycleAssumption DEF LifeInv, FileCleanUp, Goto, LifeTypeOK, NothingLeft, OwnNames,
     WithDirectory, UnlinkMgmt
<1>3. OwnNames'
  BY LifecycleAssumption DEF LifeInv, FileCleanUp, OwnNames
<1>4. HasCtl'
  BY DEF LifeInv, FileCleanUp, Goto, HasCtl, Listens
<1>5. HasMgmt'
  BY DEF LifeInv, FileCleanUp, Goto, LifeTypeOK, HasMgmt, UnlinkMgmt
<1>6. OrphansApart'
  BY DEF LifeInv, FileCleanUp, Goto, OrphansApart, WithDirectory
<1> QED BY <1>1, <1>2, <1>3, <1>4, <1>5, <1>6 DEF LifeInv

LEMMA DatasockCleanupInv ==
  ASSUME LifeInv, NEW s \in Switches, DatasockCleanup(s)
  PROVE  LifeInv'
<1>1. LifeTypeOK'
  BY DEF LifeInv, DatasockCleanup, Goto, LifeTypeOK, Phases, OrphansApart, WithDirectory
<1>2. NothingLeft'
  BY LifecycleAssumption DEF LifeInv, DatasockCleanup, Goto, LifeTypeOK, NothingLeft, OwnNames,
     OrphansApart, WithDirectory, Connects, Listens
<1>3. OwnNames'
  BY LifecycleAssumption DEF LifeInv, DatasockCleanup, LifeTypeOK, OwnNames
<1>4. HasCtl'
  BY LifecycleAssumption DEF LifeInv, DatasockCleanup, Goto, LifeTypeOK, HasCtl, Listens,
     NothingLeft, WithDirectory
<1>5. HasMgmt'
  BY DEF LifeInv, DatasockCleanup, Goto, HasMgmt
<1>6. OrphansApart'
  BY DEF LifeInv, DatasockCleanup, Goto, OrphansApart, WithDirectory
<1> QED BY <1>1, <1>2, <1>3, <1>4, <1>5, <1>6 DEF LifeInv

LEMMA MgmtCleanupInv ==
  ASSUME LifeInv, NEW s \in Switches, MgmtCleanup(s)
  PROVE  LifeInv'
<1>1. LifeTypeOK'
  BY DEF LifeInv, MgmtCleanup, Goto, LifeTypeOK, Phases
<1>2. NothingLeft'
  BY LifecycleAssumption DEF LifeInv, MgmtCleanup, Goto, NothingLeft, WithDirectory
<1>3. OwnNames'
  BY LifecycleAssumption DEF LifeInv, MgmtCleanup, OwnNames
<1>4. HasCtl'
  BY DEF LifeInv, MgmtCleanup, Goto, HasCtl, Listens
<1>5. HasMgmt'
  BY DEF LifeInv, MgmtCleanup, Goto, HasMgmt
<1>6. OrphansApart'
  BY DEF LifeInv, MgmtCleanup, Goto, OrphansApart, WithDirectory
<1> QED BY <1>1, <1>2, <1>3, <1>4, <1>5, <1>6 DEF LifeInv

LEMMA CrashSwitchInv ==
  ASSUME LifeInv, NEW s \in Switches, CrashSwitch(s)
  PROVE  LifeInv'
<1>f. /\ CtlDir[s] \in DirNames /\ NoFile \notin Switches /\ Stale \notin Switches
      /\ LifeTypeOK /\ NothingLeft
  BY LifecycleAssumption DEF DirNames, LifeInv
<1>p. /\ phase'[s] = "down" /\ \A t \in Switches \ {s} : phase'[t] = phase[t]
      /\ WithDirectory' = WithDirectory \ {s}
      /\ s \in WithDirectory <=> phase[s] # "removed"
  BY <1>f DEF CrashSwitch, Goto, LifeTypeOK, Phases, WithDirectory
<1>d. /\ dirs' = dirs
      /\ s \in WithDirectory => orphans' = orphans \cup {CtlDir[s]}
      /\ s \notin WithDirectory => orphans' = orphans
  BY <1>p DEF CrashSwitch
<1>own. /\ \A d \in DirNames : ctl'[d] = IF ctl[d] = s THEN Stale ELSE ctl[d]
        /\ \A m \in MgmtNames : mgmt'[m] = IF mgmt[m] = s THEN Stale ELSE mgmt[m]
        /\ \A p \in PidNames : pid'[p] = IF pid[p] = s THEN Stale ELSE pid[p]
  BY DEF CrashSwitch
<1>1. LifeTypeOK'
  BY <1>f, LifecycleAssumption DEF CrashSwitch, Goto, LifeTypeOK, Phases, NothingLeft, WithDirectory
<1>2. NothingLeft'
  <2>1. \A d \in DirNames : ctl'[d] \in Switches => ctl'[d] \in WithDirectory'
    BY <1>f, <1>p, <1>own DEF NothingLeft
  <2>2. \A m \in MgmtNames : mgmt'[m] \in Switches => phase'[mgmt'[m]] = "serving"
    BY <1>f, <1>p, <1>own DEF NothingLeft
  <2>3. \A p \in PidNames : pid'[p] \in Switches => phase'[pid'[p]] \in {"serving", "failing"}
    BY <1>f, <1>p, <1>own DEF NothingLeft
  <2>4. dirs' = {CtlDir[t] : t \in WithDirectory'} \cup orphans'
    <3>1. dirs = {CtlDir[t] : t \in WithDirectory} \cup orphans
      BY <1>f DEF NothingLeft
    <3> QED BY <1>p, <1>d, <3>1
  <2>5. \A t, u \in WithDirectory' : CtlDir[t] = CtlDir[u] => t = u
    BY <1>f, <1>p DEF NothingLeft
  <2> QED BY <2>1, <2>2, <2>3, <2>4, <2>5 DEF NothingLeft
<1>3. OwnNames'
  BY <1>f, <1>own DEF LifeInv, OwnNames
<1>4. HasCtl'
  BY <1>f, <1>p, <1>own, LifecycleAssumption DEF LifeInv, HasCtl, Listens, DirNames
<1>5. HasMgmt'
  BY <1>p, <1>own DEF LifeInv, HasMgmt
<1>6. OrphansApart'
  <2>1. \A t \in WithDirectory \ {s} : s \in WithDirectory => CtlDir[t] # CtlDir[s]
    BY <1>f DEF NothingLeft
  <2>2. \A t \in WithDirectory : CtlDir[t] \notin orphans
    BY DEF LifeInv, OrphansApart
  <2>3. \A t \in WithDirectory' : CtlDir[t] \notin orphans'
    BY <1>p, <1>d, <2>1, <2>2
  <2> QED BY <2>3 DEF OrphansApart
<1> QED BY <1>1, <1>2, <1>3, <1>4, <1>5, <1>6 DEF LifeInv

LEMMA LifeInvNext == LifeInv /\ [LifeNext]_lifeVars => LifeInv'
<1> SUFFICES ASSUME LifeInv, [LifeNext]_lifeVars PROVE LifeInv'
  OBVIOUS
<1>1. ASSUME NEW s \in Switches,
             \/ MakeDir(s) \/ MakeDirFails(s) \/ BindCtl(s) \/ BindCtlFails(s)
             \/ BindMgmt(s) \/ BindMgmtFails(s) \/ NoMgmtOption(s)
             \/ FileCleanUp(s) \/ DatasockCleanup(s) \/ MgmtCleanup(s)
             \/ CrashSwitch(s)
      PROVE  LifeInv'
  BY <1>1, MakeDirInv, MakeDirFailsInv, BindCtlInv, BindCtlFailsInv, BindMgmtInv,
     BindMgmtFailsInv, NoMgmtOptionInv, FileCleanUpInv, DatasockCleanupInv, MgmtCleanupInv,
     CrashSwitchInv
<1>2. CASE UNCHANGED lifeVars
  BY <1>2 DEF lifeVars, LifeInv, LifeTypeOK, NothingLeft, OwnNames, HasCtl, HasMgmt,
              OrphansApart, WithDirectory, Listens
<1> QED BY <1>1, <1>2 DEF LifeNext

(***************************************************************************)
(* For any switches that share a file system: what a start relies on when  *)
(* it makes or removes a file by its name holds over all starts and ends.  *)
(***************************************************************************)
THEOREM LifeInvariant == LifeSpec => []LifeInv
<1>1. LifeInit => LifeInv
  BY LifeInvInit
<1>2. LifeInv /\ [LifeNext]_lifeVars => LifeInv'
  BY LifeInvNext
<1> QED BY <1>1, <1>2, PTL DEF LifeSpec

(***************************************************************************)
(* Whatever the other switches do, a switch that serves is reached by its  *)
(* two sockets, and an orderly end leaves no socket, no pid file and no    *)
(* directory behind.                                                       *)
(***************************************************************************)
THEOREM SwitchesEndClean == LifeSpec => []EndsClean
<1>1. LifeInv => EndsClean
  <2> SUFFICES ASSUME LifeInv PROVE EndsClean
    OBVIOUS
  <2>1. ASSUME NEW s \in Switches, phase[s] = "serving"
        PROVE  Connects(CtlDir[s]) /\ ctl[CtlDir[s]] = s /\ mgmt[MgmtSocket[s]] = s
    BY <2>1 DEF LifeInv, HasCtl, HasMgmt, Listens, Connects
  <2> QED BY <2>1 DEF LifeInv, EndsClean, ServedReachable
<1> QED BY <1>1, LifeInvariant, PTL

-----------------------------------------------------------------------------
(***************************************************************************)
(* The bit arrays, for elements and words of any number of bits.  An index *)
(* is its word and its place there; of the members of a word those whose   *)
(* bit an element has are told apart, and they are all that are used.      *)
(***************************************************************************)
LEMMA WordFacts == Bits \in Nat /\ Bits >= 1 /\ WordSize \in Nat /\ WordSize = 2 * Bits
BY BitArraysAssumption DEF WordSize

LEMMA IndexSplits ==
  ASSUME NEW i \in Nat
  PROVE  /\ WordOf(i) \in Nat /\ BitOf(i) \in 0 .. Bits - 1
         /\ OwnBit(i) => i = WordOf(i) * WordSize + BitOf(i)
<1>1. /\ i \div WordSize \in Nat /\ i % WordSize \in Nat
      /\ i = WordSize * (i \div WordSize) + (i % WordSize)
  BY WordFacts
<1>2. (i % WordSize) % Bits \in 0 .. Bits - 1
  BY <1>1, WordFacts
<1>3. i % WordSize < Bits => (i % WordSize) % Bits = i % WordSize
  <2> DEFINE r == i % WordSize
  <2>1. /\ r \in Nat /\ r \div Bits \in Nat /\ r % Bits \in Nat
        /\ r = Bits * (r \div Bits) + (r % Bits)
    BY <1>1, WordFacts
  <2> HIDE DEF r
  <2>2. r \div Bits >= 1 => Bits * (r \div Bits) >= Bits
    BY <2>1, WordFacts
  <2>3. r < Bits => r \div Bits = 0
    BY <2>1, <2>2, WordFacts
  <2>4. r < Bits => r % Bits = r
    BY <2>1, <2>3, WordFacts
  <2> QED BY <2>4 DEF r
<1>4. WordSize * (i \div WordSize) = (i \div WordSize) * WordSize
  BY <1>1, WordFacts
<1> QED BY <1>1, <1>2, <1>3, <1>4 DEF WordOf, BitOf, OwnBit

LEMMA IndexOnce ==
  ASSUME NEW w \in Nat, NEW u \in Nat, NEW j \in 0 .. Bits - 1, NEW k \in 0 .. Bits - 1,
         w * WordSize + j = u * WordSize + k
  PROVE  w = u /\ j = k
<1>1. j \in 0 .. WordSize - 1 /\ k \in 0 .. WordSize - 1
  BY WordFacts
<1>2. WordSize \in Nat /\ WordSize >= 1
  BY WordFacts
<1> QED BY <1>1, <1>2

LEMMA WordWithin ==
  ASSUME NEW n \in Nat, NEW i \in Nat, i < n
  PROVE  WordOf(i) \in 0 .. WordsFor(n) - 1
<1> DEFINE d == WordSize
           c == n + d - 1
<1>1. d \in Nat /\ d >= 1 /\ c \in Nat
  BY WordFacts
<1>2. /\ i \div d \in Nat /\ i % d \in 0 .. d - 1 /\ i = d * (i \div d) + (i % d)
      /\ c \div d \in Nat /\ c % d \in 0 .. d - 1 /\ c = d * (c \div d) + (c % d)
  BY <1>1
<1>3. d * (i \div d) < d * (c \div d)
  BY <1>1, <1>2
<1>4. i \div d < c \div d
  <2> SUFFICES ASSUME c \div d <= i \div d PROVE FALSE
    BY <1>2
  <2>1. d * (c \div d) <= d * (i \div d)
    BY <1>1, <1>2
  <2> QED BY <1>1, <1>2, <1>3, <2>1
<1> QED BY <1>2, <1>4 DEF WordOf, WordsFor

\* The array a of n members stands for the set S.
StandsFor(a, n, S) ==
  /\ a \in [0 .. WordsFor(n) - 1 -> SUBSET (0 .. Bits - 1)]
  /\ \A w \in 0 .. WordsFor(n) - 1, j \in 0 .. Bits - 1 : j \in a[w] <=> w * WordSize + j \in S
  /\ S \subseteq {i \in 0 .. n - 1 : OwnBit(i)}

LEMMA CheckTells ==
  ASSUME NEW n \in Nat, NEW a, NEW S, StandsFor(a, n, S), NEW i \in 0 .. n - 1, OwnBit(i)
  PROVE  BitCheck(a, i) <=> i \in S
<1>1. /\ WordOf(i) \in 0 .. WordsFor(n) - 1 /\ BitOf(i) \in 0 .. Bits - 1
      /\ i = WordOf(i) * WordSize + BitOf(i)
  BY IndexSplits, WordWithin
<1> QED BY <1>1 DEF StandsFor, BitCheck

LEMMA LoopVisits ==
  ASSUME NEW n \in Nat, NEW a, NEW S, StandsFor(a, n, S)
  PROVE  BitForAll(a) = S
<1>1. ASSUME NEW i \in S PROVE i \in BitForAll(a)
  <2>1. i \in 0 .. n - 1 /\ OwnBit(i)
    BY DEF StandsFor
  <2>2. /\ WordOf(i) \in 0 .. WordsFor(n) - 1 /\ i = WordOf(i) * WordSize + BitOf(i)
        /\ BitOf(i) \in a[WordOf(i)]
    BY <2>1, IndexSplits, WordWithin, CheckTells DEF BitCheck
  <2> QED BY <2>2 DEF StandsFor, BitForAll
<1>2. ASSUME NEW i \in BitForAll(a) PROVE i \in S
  <2>1. PICK w \in 0 .. WordsFor(n) - 1 : \E j \in a[w] : i = w * WordSize + j
    BY DEF BitForAll, StandsFor
  <2>2. PICK j \in 0 .. Bits - 1 : j \in a[w] /\ i = w * WordSize + j
    BY <2>1 DEF StandsFor
  <2> QED BY <2>2 DEF StandsFor
<1> QED BY <1>1, <1>2

LEMMA ChangeStands ==
  ASSUME NEW n \in Nat, NEW a, NEW S, StandsFor(a, n, S), NEW i \in 0 .. n - 1, OwnBit(i),
         NEW c, NEW B \in SUBSET (0 .. Bits - 1), c = [a EXCEPT ![WordOf(i)] = B],
         NEW R, R \subseteq {k \in 0 .. n - 1 : OwnBit(k)},
         \A k \in Nat : k # i => (k \in R <=> k \in S),
         \A j \in 0 .. Bits - 1 : j # BitOf(i) => (j \in B <=> j \in a[WordOf(i)]),
         BitOf(i) \in B <=> i \in R
  PROVE  StandsFor(c, n, R)
<1>1. /\ WordOf(i) \in 0 .. WordsFor(n) - 1 /\ WordOf(i) \in Nat /\ BitOf(i) \in 0 .. Bits - 1
      /\ i = WordOf(i) * WordSize + BitOf(i)
  BY IndexSplits, WordWithin
<1>2. /\ c \in [0 .. WordsFor(n) - 1 -> SUBSET (0 .. Bits - 1)]
      /\ c[WordOf(i)] = B
      /\ \A w \in 0 .. WordsFor(n) - 1 : w # WordOf(i) => c[w] = a[w]
  BY <1>1 DEF StandsFor
<1>3. ASSUME NEW w \in 0 .. WordsFor(n) - 1, NEW j \in 0 .. Bits - 1
      PROVE  j \in c[w] <=> w * WordSize + j \in R
  <2>1. j \in a[w] <=> w * WordSize + j \in S
    BY DEF StandsFor
  <2>w. w \in Nat /\ w * WordSize + j \in Nat
    BY WordFacts
  <2>2. CASE w = WordOf(i) /\ j = BitOf(i)
    BY <1>1, <1>2, <2>2
  <2>3. CASE ~(w = WordOf(i) /\ j = BitOf(i))
    <3>1. w * WordSize + j # i
      BY <1>1, <2>3, <2>w, IndexOnce
    <3>2. j \in c[w] <=> j \in a[w]
      BY <1>2, <2>3
    <3> QED BY <2>1, <2>w, <3>1, <3>2
  <2> QED BY <2>2, <2>3
<1> QED BY <1>2, <1>3 DEF StandsFor

LEMMA SetStands ==
  ASSUME NEW n \in Nat, NEW a, NEW S, StandsFor(a, n, S), NEW i \in 0 .. n - 1, OwnBit(i)
  PROVE  StandsFor(BitSet(a, i), n, S \cup {i}) /\ StandsFor(BitClr(a, i), n, S \ {i})
<1>1. /\ WordOf(i) \in 0 .. WordsFor(n) - 1 /\ BitOf(i) \in 0 .. Bits - 1
      /\ a[WordOf(i)] \in SUBSET (0 .. Bits - 1)
  BY IndexSplits, WordWithin DEF StandsFor
<1>2. S \subseteq {k \in 0 .. n - 1 : OwnBit(k)}
  BY DEF StandsFor
<1>3. StandsFor(BitSet(a, i), n, S \cup {i})
  <2> DEFINE B == a[WordOf(i)] \cup {BitOf(i)}
             R == S \cup {i}
  <2>1. BitSet(a, i) = [a EXCEPT ![WordOf(i)] = B]
    BY DEF BitSet
  <2>2. B \in SUBSET (0 .. Bits - 1) /\ R \subseteq {k \in 0 .. n - 1 : OwnBit(k)}
    BY <1>1, <1>2
  <2>3. /\ \A k \in Nat : k # i => (k \in R <=> k \in S)
        /\ \A j \in 0 .. Bits - 1 : j # BitOf(i) => (j \in B <=> j \in a[WordOf(i)])
        /\ BitOf(i) \in B <=> i \in R
    OBVIOUS
  <2> HIDE DEF B, R
  <2>4. StandsFor(BitSet(a, i), n, R)
    BY <2>1, <2>2, <2>3, ChangeStands, ZenonT(30)
  <2> QED BY <2>4 DEF R
<1>4. StandsFor(BitClr(a, i), n, S \ {i})
  <2> DEFINE B == a[WordOf(i)] \ {BitOf(i)}
             R == S \ {i}
  <2>1. BitClr(a, i) = [a EXCEPT ![WordOf(i)] = B]
    BY DEF BitClr
  <2>2. B \in SUBSET (0 .. Bits - 1) /\ R \subseteq {k \in 0 .. n - 1 : OwnBit(k)}
    BY <1>1, <1>2
  <2>3. /\ \A k \in Nat : k # i => (k \in R <=> k \in S)
        /\ \A j \in 0 .. Bits - 1 : j # BitOf(i) => (j \in B <=> j \in a[WordOf(i)])
        /\ BitOf(i) \in B <=> i \in R
    OBVIOUS
  <2> HIDE DEF B, R
  <2>4. StandsFor(BitClr(a, i), n, R)
    BY <2>1, <2>2, <2>3, ChangeStands
  <2> QED BY <2>4 DEF R
<1> QED BY <1>3, <1>4

LEMMA ReallocStands ==
  ASSUME NEW n \in Nat, NEW a, NEW S, StandsFor(a, n, S), NEW m \in Nat, \A i \in S : i < m
  PROVE  StandsFor(BitRealloc(a, m), m, S)
<1> DEFINE c == BitRealloc(a, m)
<1>1. DOMAIN a = 0 .. WordsFor(n) - 1
  BY DEF StandsFor
<1>2. \A w \in 0 .. WordsFor(m) - 1 : c[w] = IF w \in 0 .. WordsFor(n) - 1 THEN a[w] ELSE {}
  BY <1>1 DEF BitRealloc
<1>3. c \in [0 .. WordsFor(m) - 1 -> SUBSET (0 .. Bits - 1)]
  BY <1>1 DEF BitRealloc, StandsFor
<1> HIDE DEF c
<1>4. ASSUME NEW w \in 0 .. WordsFor(m) - 1, NEW j \in 0 .. Bits - 1
      PROVE  j \in c[w] <=> w * WordSize + j \in S
  <2>1. CASE w \in 0 .. WordsFor(n) - 1
    BY <1>2, <2>1 DEF StandsFor
  <2>2. CASE w \notin 0 .. WordsFor(n) - 1
    <3> SUFFICES ASSUME w * WordSize + j \in S PROVE FALSE
      BY <1>2, <2>2
    <3> DEFINE i == w * WordSize + j
    <3>1. i \in 0 .. n - 1 /\ OwnBit(i)
      BY DEF StandsFor
    <3>2. /\ WordOf(i) \in 0 .. WordsFor(n) - 1 /\ BitOf(i) \in 0 .. Bits - 1
          /\ i = WordOf(i) * WordSize + BitOf(i) /\ WordOf(i) \in Nat
      BY <3>1, IndexSplits, WordWithin
    <3>3. WordOf(i) = w
      <4>1. w \in Nat
        OBVIOUS
      <4> QED BY <3>2, <4>1, IndexOnce
    <3> QED BY <2>2, <3>2, <3>3
  <2> QED BY <2>1, <2>2
<1>5. S \subseteq {i \in 0 .. m - 1 : OwnBit(i)}
  BY DEF StandsFor
<1> QED BY <1>3, <1>4, <1>5 DEF StandsFor, c

(***************************************************************************)
(* As long as only members are used whose bit an element has, the arrays   *)
(* stand for the sets and the trailing word counts.                        *)
(***************************************************************************)
BitInv ==
  /\ beyond \in BOOLEAN /\ size \in MinSize .. MaxSize
  /\ ~beyond => /\ StandsFor(x, size, xset) /\ StandsFor(v, MaxSize, vset)
                /\ card = Cardinality(vset)

LEMMA BitBounds ==
  ASSUME BitInv
  PROVE  MaxSize \in Nat /\ MinSize \in Nat /\ size \in Nat /\ size <= MaxSize
BY BitArraysAssumption DEF BitInv

LEMMA BitInitInv == BitInit => BitInv
<1> SUFFICES ASSUME BitInit PROVE BitInv
  OBVIOUS
<1>1. ASSUME NEW n \in Nat PROVE StandsFor(BitAlloc(n), n, {})
  BY DEF BitAlloc, StandsFor
<1>2. Cardinality({}) = 0
  BY FS_EmptySet
<1>3. beyond = FALSE /\ size = MinSize /\ MinSize \in MinSize .. MaxSize
  BY BitArraysAssumption DEF BitInit
<1>4. StandsFor(x, size, xset) /\ StandsFor(v, MaxSize, vset)
  BY <1>1, BitArraysAssumption DEF BitInit
<1>5. card = Cardinality(vset)
  BY <1>2 DEF BitInit
<1> QED BY <1>3, <1>4, <1>5 DEF BitInv

LEMMA BaChangeKeeps ==
  ASSUME BitInv, NEW i \in 0 .. MaxSize - 1, BaSet(i) \/ BaClr(i)
  PROVE  BitInv'
<1>1. /\ i < size /\ beyond' = (beyond \/ ~OwnBit(i)) /\ UNCHANGED <<size, v, card, vset>>
      /\ \/ x' = BitSet(x, i) /\ xset' = xset \cup {i}
         \/ x' = BitClr(x, i) /\ xset' = xset \ {i}
  BY DEF BaSet, BaClr, UsesMember
<1>2. i \in 0 .. size - 1
  BY <1>1, BitBounds
<1>3. ASSUME ~beyond'
      PROVE  /\ StandsFor(x', size, xset') /\ StandsFor(v, MaxSize, vset)
             /\ card = Cardinality(vset)
  <2>1. ~beyond /\ OwnBit(i)
    BY <1>1, <1>3 DEF BitInv
  <2>2. /\ StandsFor(x, size, xset) /\ StandsFor(v, MaxSize, vset)
        /\ card = Cardinality(vset)
    BY <2>1 DEF BitInv
  <2>3. StandsFor(BitSet(x, i), size, xset \cup {i}) /\ StandsFor(BitClr(x, i), size, xset \ {i})
    BY <1>2, <2>1, <2>2, BitBounds, SetStands
  <2> QED BY <1>1, <2>2, <2>3
<1>4. beyond' \in BOOLEAN /\ size' \in MinSize .. MaxSize
  BY <1>1 DEF BitInv
<1> QED BY <1>1, <1>3, <1>4 DEF BitInv

LEMMA BaReallocKeeps ==
  ASSUME BitInv, NEW m \in MinSize .. MaxSize, BaRealloc(m)
  PROVE  BitInv'
<1>1. /\ \A i \in xset : i < m
      /\ x' = BitRealloc(x, m) /\ size' = m /\ UNCHANGED <<v, card, xset, vset, beyond>>
  BY DEF BaRealloc
<1>2. m \in Nat
  BY BitBounds
<1>3. ASSUME ~beyond PROVE StandsFor(x', m, xset)
  <2>1. StandsFor(x, size, xset)
    BY <1>3 DEF BitInv
  <2> QED BY <1>1, <1>2, <2>1, BitBounds, ReallocStands
<1> QED BY <1>1, <1>3 DEF BitInv

LEMMA BacChangeKeeps ==
  ASSUME BitInv, NEW i \in 0 .. MaxSize - 1, BacSet(i) \/ BacClr(i)
  PROVE  BitInv'
<1>1. /\ beyond' = (beyond \/ ~OwnBit(i)) /\ UNCHANGED <<x, size, xset>>
      /\ \/ /\ v' = BitSet(v, i) /\ vset' = vset \cup {i}
            /\ card' = IF BitCheck(v, i) THEN card ELSE card + 1
         \/ /\ v' = BitClr(v, i) /\ vset' = vset \ {i}
            /\ card' = IF BitCheck(v, i) THEN card - 1 ELSE card
  BY DEF BacSet, BacClr, UsesMember
<1>2. ASSUME ~beyond'
      PROVE  /\ StandsFor(x, size, xset) /\ StandsFor(v', MaxSize, vset')
             /\ card' = Cardinality(vset')
  <2>1. ~beyond /\ OwnBit(i)
    BY <1>1, <1>2 DEF BitInv
  <2>2. /\ StandsFor(x, size, xset) /\ StandsFor(v, MaxSize, vset)
        /\ card = Cardinality(vset)
    BY <2>1 DEF BitInv
  <2>3. StandsFor(BitSet(v, i), MaxSize, vset \cup {i}) /\ StandsFor(BitClr(v, i), MaxSize, vset \ {i})
    BY <2>1, <2>2, BitBounds, SetStands
  <2>4. BitCheck(v, i) <=> i \in vset
    BY <2>1, <2>2, BitBounds, CheckTells
  <2>5. IsFiniteSet(vset) /\ Cardinality(vset) \in Nat
    <3>1. IsFiniteSet(0 .. MaxSize - 1)
      BY BitBounds, FS_Interval
    <3>2. vset \in SUBSET (0 .. MaxSize - 1)
      BY <2>2 DEF StandsFor
    <3> QED BY <3>1, <3>2, FS_Subset, FS_CardinalityType
  <2>6. /\ Cardinality(vset \cup {i}) = IF i \in vset THEN Cardinality(vset)
                                        ELSE Cardinality(vset) + 1
        /\ Cardinality(vset \ {i}) = IF i \in vset THEN Cardinality(vset) - 1
                                     ELSE Cardinality(vset)
    BY <2>5, FS_AddElement, FS_RemoveElement
  <2> QED BY <1>1, <2>2, <2>3, <2>4, <2>6
<1>3. beyond' \in BOOLEAN /\ size' \in MinSize .. MaxSize
  BY <1>1 DEF BitInv
<1> QED BY <1>1, <1>2, <1>3 DEF BitInv

\* The operations of bitarray.h keep arrays and sets in step.
THEOREM BitsInvariant == BitSpec => []BitInv
<1>1. BitInv /\ [BitNext]_bitVars => BitInv'
  <2> SUFFICES ASSUME BitInv, [BitNext]_bitVars PROVE BitInv'
    OBVIOUS
  <2>1. CASE UNCHANGED bitVars
    BY <2>1 DEF bitVars, BitInv
  <2>2. ASSUME NEW i \in 0 .. MaxSize - 1, BaSet(i) \/ BaClr(i) PROVE BitInv'
    BY <2>2, BaChangeKeeps
  <2>3. ASSUME NEW i \in 0 .. MaxSize - 1, BacSet(i) \/ BacClr(i) PROVE BitInv'
    BY <2>3, BacChangeKeeps
  <2>4. ASSUME NEW m \in MinSize .. MaxSize, BaRealloc(m) PROVE BitInv'
    BY <2>4, BaReallocKeeps
  <2> QED BY <2>1, <2>2, <2>3, <2>4 DEF BitNext
<1> QED BY <1>1, BitInitInv, PTL DEF BitSpec

(***************************************************************************)
(* For elements of any number of bits, half that of a word: while only the *)
(* members of the lower half of each word are used, checks, loops and the  *)
(* number of bitarray.h answer for the set.                                *)
(***************************************************************************)
THEOREM BitsStandForSets == BitSpec => []BitsAreSets
<1>1. BitInv => BitsAreSets
  <2> SUFFICES ASSUME BitInv, ~beyond PROVE BitsAreSets
    BY DEF BitsAreSets
  <2>1. /\ StandsFor(x, size, xset) /\ StandsFor(v, MaxSize, vset)
        /\ card = Cardinality(vset)
    BY DEF BitInv
  <2>2. \A i \in 0 .. size - 1 : OwnBit(i) => (BitCheck(x, i) <=> i \in xset)
    BY <2>1, BitBounds, CheckTells
  <2>3. BitForAll(x) = xset /\ BitForAll(v) = vset
    BY <2>1, BitBounds, LoopVisits
  <2> QED BY <2>1, <2>2, <2>3 DEF BitsAreSets
<1> QED BY <1>1, BitsInvariant, PTL

-----------------------------------------------------------------------------
(***************************************************************************)
(* A member whose bit an element does not have has that of another one,    *)
(* in the lower half of its word.  So whatever members are used the arrays *)
(* stand for some sets, and the trailing word counts the second one.       *)
(***************************************************************************)
Sharing(i) == WordOf(i) * WordSize + BitOf(i)

LEMMA SharingOwnsBit ==
  ASSUME NEW i \in Nat
  PROVE  /\ Sharing(i) \in 0 .. i /\ OwnBit(Sharing(i))
         /\ WordOf(Sharing(i)) = WordOf(i) /\ BitOf(Sharing(i)) = BitOf(i)
<1> DEFINE w == WordOf(i)
           r == i % WordSize
           j == BitOf(i)
           k == Sharing(i)
<1>0. WordSize \in Nat /\ WordSize >= 1 /\ Bits \in Nat /\ Bits >= 1 /\ Bits <= WordSize
  BY WordFacts
<1>1. w \in Nat /\ r \in 0 .. WordSize - 1 /\ i = WordSize * w + r
  BY <1>0 DEF WordOf
<1>2. j \in 0 .. Bits - 1 /\ j \in Nat /\ j <= r
  <2>1. r \in Nat /\ j = r % Bits
    BY <1>1 DEF BitOf
  <2> HIDE DEF r, j
  <2>2. r % Bits \in 0 .. Bits - 1 /\ r \div Bits \in Nat /\ r = Bits * (r \div Bits) + (r % Bits)
    BY <1>0, <2>1
  <2>3. Bits * (r \div Bits) \in Nat
    BY <1>0, <2>2
  <2> QED BY <1>0, <2>1, <2>2, <2>3
<1>3. k = w * WordSize + j /\ w * WordSize = WordSize * w /\ w * WordSize \in Nat
  BY <1>0, <1>1 DEF Sharing
<1>4. k \in Nat /\ k <= i
  <2> HIDE DEF w, r, j, k
  <2> QED BY <1>0, <1>1, <1>2, <1>3
<1>5. /\ k \div WordSize \in Nat /\ k % WordSize \in 0 .. WordSize - 1
      /\ k = WordSize * (k \div WordSize) + (k % WordSize)
  <2> HIDE DEF k
  <2> QED BY <1>0, <1>4
<1>6. k \div WordSize = w /\ k % WordSize = j
  <2> DEFINE u == k \div WordSize
             l == k % WordSize
  <2>1. /\ u \in Nat /\ l \in 0 .. WordSize - 1 /\ j \in 0 .. WordSize - 1
        /\ WordSize * u + l = WordSize * w + j
    <3> HIDE DEF w, j, k
    <3> QED BY <1>0, <1>2, <1>3, <1>5
  <2> HIDE DEF w, j, k, u, l
  <2>2. u = w
    <3>1. u < w => WordSize * u + WordSize <= WordSize * w
      <4>1. u < w => u + 1 <= w
        BY <1>1, <2>1
      <4>2. u + 1 <= w => WordSize * (u + 1) <= WordSize * w
        BY <1>0, <1>1, <2>1
      <4>3. WordSize * (u + 1) = WordSize * u + WordSize
        BY <1>0, <2>1
      <4> QED BY <4>1, <4>2, <4>3
    <3>2. w < u => WordSize * w + WordSize <= WordSize * u
      <4>1. w < u => w + 1 <= u
        BY <1>1, <2>1
      <4>2. w + 1 <= u => WordSize * (w + 1) <= WordSize * u
        BY <1>0, <1>1, <2>1
      <4>3. WordSize * (w + 1) = WordSize * w + WordSize
        BY <1>0, <1>1
      <4> QED BY <4>1, <4>2, <4>3
    <3>3. WordSize * u \in Nat /\ WordSize * w \in Nat
      BY <1>0, <1>1, <2>1
    <3> QED BY <1>0, <1>1, <2>1, <3>1, <3>2, <3>3
  <2>3. l = j
    <3>1. WordSize * w \in Nat
      BY <1>0, <1>1
    <3> QED BY <2>1, <2>2, <3>1
  <2> QED BY <2>2, <2>3 DEF u, l
<1>7. j % Bits = j
  <2> HIDE DEF j
  <2>1. /\ j % Bits \in 0 .. Bits - 1 /\ j \div Bits \in Nat
        /\ j = Bits * (j \div Bits) + (j % Bits)
    BY <1>0, <1>2
  <2>2. j \div Bits >= 1 => Bits * (j \div Bits) >= Bits
    <3> DEFINE d == j \div Bits
    <3>1. d \in Nat /\ Bits \in Nat /\ Bits >= 1
      BY <1>0, <2>1
    <3> HIDE DEF d
    <3>2. d >= 1 => Bits * d >= Bits
      BY <3>1
    <3> QED BY <3>2 DEF d
  <2>3. j \div Bits = 0
    BY <1>0, <1>2, <2>1, <2>2
  <2> QED BY <1>0, <2>1, <2>3
<1>8. OwnBit(k) /\ WordOf(k) = w /\ BitOf(k) = j
  <2> HIDE DEF w, j, k
  <2> QED BY <1>0, <1>2, <1>6, <1>7 DEF OwnBit, WordOf, BitOf
<1> QED BY <1>4, <1>8

\* What the members count for, whichever bit they have.
BitShape ==
  /\ BitTypeOK
  /\ \E S : StandsFor(v, MaxSize, S) /\ card = Cardinality(S)

LEMMA ShapeBounds ==
  ASSUME BitTypeOK
  PROVE  MaxSize \in Nat /\ MinSize \in Nat /\ size \in Nat /\ size <= MaxSize
BY BitArraysAssumption DEF BitTypeOK

LEMMA BitShapeStarts == BitInit => BitShape
<1> SUFFICES ASSUME BitInit PROVE BitShape
  OBVIOUS
<1>0. MaxSize \in Nat /\ MinSize \in MinSize .. MaxSize /\ 0 \in 0 .. MaxSize
  BY BitArraysAssumption
<1>1. BitTypeOK
  BY <1>0 DEF BitInit, BitAlloc, BitTypeOK
<1>2. StandsFor(v, MaxSize, {})
  BY DEF BitInit, BitAlloc, StandsFor
<1>3. card = Cardinality({})
  BY FS_EmptySet DEF BitInit
<1> QED BY <1>1, <1>2, <1>3 DEF BitShape

\* The words stay sets of bits.
LEMMA WordsKeepShape ==
  ASSUME NEW n \in Nat, NEW a \in [0 .. WordsFor(n) - 1 -> SUBSET (0 .. Bits - 1)],
         NEW i \in 0 .. n - 1
  PROVE  /\ BitSet(a, i) \in [0 .. WordsFor(n) - 1 -> SUBSET (0 .. Bits - 1)]
         /\ BitClr(a, i) \in [0 .. WordsFor(n) - 1 -> SUBSET (0 .. Bits - 1)]
<1>0. i \in Nat /\ i < n
  OBVIOUS
<1>1. WordOf(i) \in 0 .. WordsFor(n) - 1 /\ BitOf(i) \in 0 .. Bits - 1
  BY <1>0, IndexSplits, WordWithin
<1>2. /\ a[WordOf(i)] \cup {BitOf(i)} \in SUBSET (0 .. Bits - 1)
      /\ a[WordOf(i)] \ {BitOf(i)} \in SUBSET (0 .. Bits - 1)
  BY <1>1
<1> QED BY <1>1, <1>2 DEF BitSet, BitClr

LEMMA BaChangeKeepsShape ==
  ASSUME BitShape, NEW i \in 0 .. MaxSize - 1, BaSet(i) \/ BaClr(i)
  PROVE  BitShape'
<1>0. BitTypeOK /\ MaxSize \in Nat /\ size \in Nat
  BY ShapeBounds DEF BitShape
<1>1. /\ i < size /\ beyond' = (beyond \/ ~OwnBit(i)) /\ UNCHANGED <<size, v, card, vset>>
      /\ \/ x' = BitSet(x, i) /\ xset' = xset \cup {i}
         \/ x' = BitClr(x, i) /\ xset' = xset \ {i}
  BY DEF BaSet, BaClr, UsesMember
<1>2. i \in 0 .. size - 1
  BY <1>0, <1>1
<1>3. x' \in [0 .. WordsFor(size) - 1 -> SUBSET (0 .. Bits - 1)]
  BY <1>0, <1>1, <1>2, WordsKeepShape DEF BitTypeOK
<1>4. xset' \subseteq 0 .. MaxSize - 1 /\ beyond' \in BOOLEAN
  BY <1>0, <1>1 DEF BitTypeOK
<1>5. BitTypeOK'
  BY <1>0, <1>1, <1>3, <1>4 DEF BitTypeOK
<1> QED BY <1>1, <1>5 DEF BitShape

LEMMA BaReallocKeepsShape ==
  ASSUME BitShape, NEW m \in MinSize .. MaxSize, BaRealloc(m)
  PROVE  BitShape'
<1>0. BitTypeOK
  BY DEF BitShape
<1>1. /\ x' = BitRealloc(x, m) /\ size' = m /\ UNCHANGED <<v, card, xset, vset, beyond>>
  BY DEF BaRealloc
<1>2. BitRealloc(x, m) \in [0 .. WordsFor(m) - 1 -> SUBSET (0 .. Bits - 1)]
  BY <1>0 DEF BitRealloc, BitTypeOK
<1>3. BitTypeOK'
  BY <1>0, <1>1, <1>2 DEF BitTypeOK
<1> QED BY <1>1, <1>3 DEF BitShape

LEMMA BacChangeKeepsShape ==
  ASSUME BitShape, NEW i \in 0 .. MaxSize - 1, BacSet(i) \/ BacClr(i)
  PROVE  BitShape'
<1>0. BitTypeOK /\ MaxSize \in Nat
  BY ShapeBounds DEF BitShape
<1>1. /\ beyond' = (beyond \/ ~OwnBit(i)) /\ UNCHANGED <<x, size, xset>>
      /\ \/ /\ v' = BitSet(v, i) /\ vset' = vset \cup {i}
            /\ card' = IF BitCheck(v, i) THEN card ELSE card + 1
         \/ /\ v' = BitClr(v, i) /\ vset' = vset \ {i}
            /\ card' = IF BitCheck(v, i) THEN card - 1 ELSE card
  BY DEF BacSet, BacClr, UsesMember
<1>2. PICK S : StandsFor(v, MaxSize, S) /\ card = Cardinality(S)
  BY DEF BitShape
<1> DEFINE k == Sharing(i)
<1>3. /\ k \in 0 .. MaxSize - 1 /\ OwnBit(k)
      /\ BitSet(v, i) = BitSet(v, k) /\ BitClr(v, i) = BitClr(v, k)
      /\ BitCheck(v, i) <=> BitCheck(v, k)
  <2>1. /\ k \in 0 .. i /\ OwnBit(k) /\ WordOf(k) = WordOf(i) /\ BitOf(k) = BitOf(i)
    BY <1>0, SharingOwnsBit
  <2>2. k \in 0 .. MaxSize - 1
    <3> HIDE DEF k
    <3> QED BY <1>0, <2>1
  <2> HIDE DEF k
  <2> QED BY <2>1, <2>2 DEF BitSet, BitClr, BitCheck
<1> HIDE DEF k
<1>4. /\ StandsFor(BitSet(v, k), MaxSize, S \cup {k}) /\ StandsFor(BitClr(v, k), MaxSize, S \ {k})
      /\ BitCheck(v, k) <=> k \in S
  BY <1>0, <1>2, <1>3, SetStands, CheckTells
<1>5. ASSUME NEW R, StandsFor(v', MaxSize, R)
      PROVE  IsFiniteSet(R) /\ Cardinality(R) \in 0 .. MaxSize
  <2>1. R \in SUBSET (0 .. MaxSize - 1)
    BY <1>5 DEF StandsFor
  <2>2. IsFiniteSet(0 .. MaxSize - 1) /\ Cardinality(0 .. MaxSize - 1) = MaxSize
    <3>1. 0 \in Int /\ MaxSize - 1 \in Int
      BY <1>0
    <3>2. Cardinality(0 .. MaxSize - 1) = IF 0 > MaxSize - 1 THEN 0 ELSE (MaxSize - 1) - 0 + 1
      BY <3>1, FS_Interval
    <3> QED BY <1>0, <3>1, <3>2, FS_Interval
  <2>3. IsFiniteSet(R) /\ Cardinality(R) <= Cardinality(0 .. MaxSize - 1)
    BY <2>1, <2>2, FS_Subset
  <2> QED BY <1>0, <2>2, <2>3, FS_CardinalityType
<1>6. IsFiniteSet(S) /\ Cardinality(S) \in Nat
  <2>1. S \in SUBSET (0 .. MaxSize - 1)
    BY <1>2 DEF StandsFor
  <2>2. IsFiniteSet(0 .. MaxSize - 1)
    BY <1>0, FS_Interval
  <2> QED BY <2>1, <2>2, FS_Subset, FS_CardinalityType
<1>7. /\ Cardinality(S \cup {k}) = IF k \in S THEN Cardinality(S) ELSE Cardinality(S) + 1
      /\ Cardinality(S \ {k}) = IF k \in S THEN Cardinality(S) - 1 ELSE Cardinality(S)
  BY <1>6, FS_AddElement, FS_RemoveElement
<1>8. \E R : StandsFor(v', MaxSize, R) /\ card' = Cardinality(R)
  BY <1>1, <1>2, <1>3, <1>4, <1>7
<1>9. card' \in 0 .. MaxSize
  BY <1>5, <1>8
<1>10. /\ v' \in [0 .. WordsFor(MaxSize) - 1 -> SUBSET (0 .. Bits - 1)]
       /\ vset' \subseteq 0 .. MaxSize - 1 /\ beyond' \in BOOLEAN
  BY <1>0, <1>1, <1>8 DEF StandsFor, BitTypeOK
<1>11. BitTypeOK'
  BY <1>0, <1>1, <1>9, <1>10 DEF BitTypeOK
<1> QED BY <1>8, <1>11 DEF BitShape

(***************************************************************************)
(* With any members, those whose bits are shared as well, bitarray.h sets  *)
(* bits within its words only and its count stays between 0 and the number *)
(* of members.                                                             *)
(***************************************************************************)
THEOREM BitsKeepShape == BitSpec => []BitTypeOK
<1>1. BitShape /\ [BitNext]_bitVars => BitShape'
  <2> SUFFICES ASSUME BitShape, [BitNext]_bitVars PROVE BitShape'
    OBVIOUS
  <2>1. CASE UNCHANGED bitVars
    BY <2>1 DEF bitVars, BitShape, BitTypeOK
  <2>2. ASSUME NEW i \in 0 .. MaxSize - 1, BaSet(i) \/ BaClr(i) PROVE BitShape'
    BY <2>2, BaChangeKeepsShape
  <2>3. ASSUME NEW i \in 0 .. MaxSize - 1, BacSet(i) \/ BacClr(i) PROVE BitShape'
    BY <2>3, BacChangeKeepsShape
  <2>4. ASSUME NEW m \in MinSize .. MaxSize, BaRealloc(m) PROVE BitShape'
    BY <2>4, BaReallocKeepsShape
  <2> QED BY <2>1, <2>2, <2>3, <2>4 DEF BitNext
<1>2. BitShape => BitTypeOK
  BY DEF BitShape
<1> QED BY <1>1, <1>2, BitShapeStarts, PTL DEF BitSpec

-----------------------------------------------------------------------------
(***************************************************************************)
(* The shared packet buffers of winvde_packetq.c, for any number of        *)
(* endpoints and buffers and any lengths of the queues.                    *)
(***************************************************************************)

(***************************************************************************)
(* The inductive invariant: QueuesShareBuffers in its parts.  That two     *)
(* queues hold their common buffers in one order needs no more than that   *)
(* each holds a buffer once.                                               *)
(***************************************************************************)
HeldOnce == \A e \in Eps : IsInjective(q[e])

CountIsLength == \A e \in Eps : qcount[e] = Len(q[e])

PolloutIsWaiting == \A e \in Eps : e \in pollout <=> q[e] # << >>

Ordered == \A e, f \in Eps : InOrder(q[e], q[f])

QueuesInv ==
  QueuesTypeOK /\ BuffersCounted /\ HeldOnce /\ CountIsLength /\ PolloutIsWaiting /\ Ordered

-----------------------------------------------------------------------------
\* The queues as sequences: places and what is there.
LEMMA QueueFacts ==
  ASSUME QueuesTypeOK, NEW e \in Eps
  PROVE  /\ q[e] \in Seq(Buffers) /\ Len(q[e]) \in Nat /\ DOMAIN q[e] = 1 .. Len(q[e])
         /\ \A i \in 1 .. Len(q[e]) : q[e][i] \in Buffers
         /\ q[e] = << >> <=> Len(q[e]) = 0
<1>1. q[e] \in Seq(Buffers)
  BY DEF QueuesTypeOK
<1>2. Len(q[e]) \in Nat /\ DOMAIN q[e] = 1 .. Len(q[e])
  BY <1>1, LenProperties
<1>3. \A i \in 1 .. Len(q[e]) : q[e][i] \in Buffers
  BY <1>1, ElementOfSeq
<1>4. q[e] = << >> <=> Len(q[e]) = 0
  BY <1>1, EmptySeq
<1> QED BY <1>1, <1>2, <1>3, <1>4

\* The endpoints whose queue holds b.
Holders(r, b) == {e \in Eps : Contains(r[e], b)}

LEMMA HoldersFinite == \A r, b : IsFiniteSet(Holders(r, b))
<1>1. \A r, b : Holders(r, b) \in SUBSET Eps
  BY DEF Holders
<1> QED BY <1>1, FS_Subset, QueuesAssumption

LEMMA FreeIsNowhere ==
  ASSUME QueuesInv, NEW b \in Buffers, pb[b] = 0
  PROVE  \A e \in Eps : ~Contains(q[e], b)
<1>1. Cardinality(Holders(q, b)) = 0
  BY DEF QueuesInv, BuffersCounted, Holders
<1>2. Holders(q, b) = {}
  BY <1>1, HoldersFinite, FS_EmptySet
<1> QED BY <1>2 DEF Holders

\* What is left of a queue behind its first n buffers.
Behind(s, t, n) ==
  /\ t \in Seq(Buffers) /\ Len(t) = Len(s) - n
  /\ \A i \in 1 .. Len(t) : t[i] = s[i + n]

LEMMA RestOfQueue ==
  ASSUME NEW s \in Seq(Buffers), NEW n \in 0 .. Len(s)
  PROVE  Behind(s, SubSeq(s, n + 1, Len(s)), n)
<1> DEFINE m == n + 1
           t == SubSeq(s, m, Len(s))
<1>1. Len(s) \in Nat /\ n \in Nat /\ m \in Int /\ Len(s) \in Int
  BY LenProperties
<1>2. \A i \in m .. Len(s) : s[i] \in Buffers
  <2> TAKE i \in m .. Len(s)
  <2>1. i \in 1 .. Len(s)
    BY <1>1
  <2> QED BY <2>1, ElementOfSeq
<1>3. /\ t \in Seq(Buffers)
      /\ Len(t) = IF m <= Len(s) THEN Len(s) - m + 1 ELSE 0
      /\ \A i \in 1 .. Len(s) - m + 1 : t[i] = s[m + i - 1]
  <2> HIDE DEF m
  <2> QED BY <1>1, <1>2, SubSeqProperties
<1>4. Len(t) = Len(s) - n
  BY <1>1, <1>3
<1>5. \A i \in 1 .. Len(t) : t[i] = s[i + n]
  <2> TAKE i \in 1 .. Len(t)
  <2>1. i \in 1 .. Len(s) - m + 1 /\ m + i - 1 = i + n
    BY <1>1, <1>4
  <2> QED BY <1>3, <2>1
<1> QED BY <1>3, <1>4, <1>5 DEF Behind

(***************************************************************************)
(* Letting go of the first n buffers of a queue: each of them is there     *)
(* once, so it is counted once.                                            *)
(***************************************************************************)
LEMMA UsedOnce ==
  ASSUME NEW s \in Seq(Buffers), IsInjective(s), NEW n \in 0 .. Len(s), NEW b
  PROVE  UsesIn(s, n, b) = IF \E i \in 1 .. n : s[i] = b THEN 1 ELSE 0
<1> DEFINE U == {i \in 1 .. n : s[i] = b}
<1>1. CASE \E i \in 1 .. n : s[i] = b
  <2>1. PICK i \in 1 .. n : s[i] = b
    BY <1>1
  <2>2. \A j \in 1 .. n : j \in DOMAIN s
    BY LenProperties
  <2>3. U = {i}
    BY <2>1, <2>2 DEF IsInjective
  <2>4. Cardinality(U) = 1
    BY <2>3, FS_Singleton
  <2> QED BY <1>1, <2>4 DEF UsesIn
<1>2. CASE ~\E i \in 1 .. n : s[i] = b
  <2>1. U = {}
    BY <1>2
  <2>2. Cardinality(U) = 0
    BY <2>1, FS_EmptySet
  <2> QED BY <1>2, <2>2 DEF UsesIn
<1> QED BY <1>1, <1>2

LEMMA Released ==
  ASSUME QueuesInv, NEW e \in Eps, NEW n \in 0 .. Len(q[e]), LetGo(e, n),
         NEW t, Behind(q[e], t, n), q' = [q EXCEPT ![e] = t]
  PROVE  /\ q' \in [Eps -> Seq(Buffers)] /\ pb' \in [Buffers -> Int]
         /\ BuffersCounted' /\ HeldOnce' /\ Ordered'
<1> DEFINE s == q[e]
<1>s. /\ s \in Seq(Buffers) /\ Len(s) \in Nat /\ DOMAIN s = 1 .. Len(s)
      /\ IsInjective(s) /\ n \in Nat
  BY QueueFacts DEF QueuesInv, HeldOnce
<1>t. /\ t \in Seq(Buffers) /\ Len(t) \in Nat /\ DOMAIN t = 1 .. Len(t)
      /\ Len(t) = Len(s) - n /\ \A i \in DOMAIN t : i + n \in DOMAIN s /\ t[i] = s[i + n]
  <2>1. t \in Seq(Buffers) /\ Len(t) = Len(s) - n
    BY DEF Behind
  <2>2. Len(t) \in Nat /\ DOMAIN t = 1 .. Len(t)
    BY <2>1, LenProperties
  <2>3. ASSUME NEW i \in DOMAIN t PROVE i + n \in DOMAIN s /\ t[i] = s[i + n]
    BY <1>s, <2>1, <2>2 DEF Behind
  <2> QED BY <2>1, <2>2, <2>3
<1>q. /\ q \in [Eps -> Seq(Buffers)] /\ pb \in [Buffers -> Int]
      /\ q'[e] = t /\ \A f \in Eps : f # e => q'[f] = q[f]
  BY DEF QueuesInv, QueuesTypeOK
<1> HIDE DEF s
<1>has. \A b : Contains(t, b) <=> Contains(s, b) /\ ~\E i \in 1 .. n : s[i] = b
  <2> TAKE b
  <2>1. ASSUME Contains(t, b) PROVE Contains(s, b) /\ ~\E i \in 1 .. n : s[i] = b
    <3>1. PICK i \in DOMAIN t : t[i] = b
      BY <1>t, <2>1 DEF Contains
    <3>2. i + n \in DOMAIN s /\ s[i + n] = b
      BY <1>t, <3>1
    <3>3. ASSUME NEW j \in 1 .. n, s[j] = b PROVE FALSE
      <4>1. j \in DOMAIN s /\ j # i + n
        BY <1>s, <1>t, <3>1, <3>2
      <4> QED BY <1>s, <3>2, <3>3, <4>1 DEF IsInjective
    <3> QED BY <1>s, <3>2, <3>3 DEF Contains
  <2>2. ASSUME NEW k \in 1 .. Len(s), s[k] = b, ~\E i \in 1 .. n : s[i] = b
        PROVE  Contains(t, b)
    <3>1. k \notin 1 .. n
      BY <2>2
    <3>2. k - n \in 1 .. Len(t) /\ k - n + n = k
      BY <1>s, <1>t, <3>1
    <3>3. t[k - n] = b
      BY <1>t, <2>2, <3>2
    <3> QED BY <3>2, <3>3 DEF Contains
  <2> QED BY <2>1, <2>2 DEF Contains
<1>1. q' \in [Eps -> Seq(Buffers)]
  BY <1>q, <1>t
<1>uses. \A b \in Buffers : UsesIn(s, n, b) = IF \E i \in 1 .. n : s[i] = b THEN 1 ELSE 0
  <2>1. n \in 0 .. Len(s)
    BY DEF s
  <2> QED BY <1>s, <2>1, UsedOnce
<1>2. pb' = [b \in Buffers |-> pb[b] - UsesIn(s, n, b)]
  BY DEF LetGo, s
<1>3. pb' \in [Buffers -> Int]
  <2>1. \A b \in Buffers : UsesIn(s, n, b) \in Int /\ pb[b] \in Int
    BY <1>q, <1>uses
  <2>2. \A b \in Buffers : pb[b] - UsesIn(s, n, b) \in Int
    BY <2>1
  <2> QED BY <1>2, <2>2
<1>4. ASSUME NEW b \in Buffers PROVE pb'[b] = Cardinality(Holders(q', b))
  <2>1. pb[b] = Cardinality(Holders(q, b))
    BY DEF QueuesInv, BuffersCounted, Holders
  <2>2. CASE \E i \in 1 .. n : s[i] = b
    <3>1. e \in Holders(q, b)
      BY <1>s, <2>2 DEF Holders, Contains, s
    <3>2. Holders(q', b) = Holders(q, b) \ {e}
      BY <1>q, <1>has, <2>2 DEF Holders, s
    <3>3. Cardinality(Holders(q', b)) = Cardinality(Holders(q, b)) - 1
      BY <3>1, <3>2, HoldersFinite, FS_RemoveElement
    <3> QED BY <1>2, <1>uses, <2>1, <2>2, <3>3
  <2>3. CASE ~\E i \in 1 .. n : s[i] = b
    <3>1. Holders(q', b) = Holders(q, b)
      BY <1>q, <1>has, <2>3 DEF Holders, s
    <3>2. pb[b] - 0 = pb[b]
      BY <1>q
    <3> QED BY <1>2, <1>uses, <2>1, <2>3, <3>1, <3>2
  <2> QED BY <2>2, <2>3
<1>5. BuffersCounted'
  BY <1>4 DEF BuffersCounted, Holders
<1>6. HeldOnce'
  <2>1. IsInjective(t)
    <3> SUFFICES ASSUME NEW i \in DOMAIN t, NEW j \in DOMAIN t, t[i] = t[j] PROVE i = j
      BY DEF IsInjective
    <3>1. i + n = j + n
      BY <1>s, <1>t DEF IsInjective
    <3> QED BY <1>s, <1>t, <3>1
  <2> QED BY <1>q, <2>1 DEF QueuesInv, HeldOnce
<1>7. Ordered'
  <2> SUFFICES ASSUME NEW f \in Eps, NEW g \in Eps,
                      NEW i \in DOMAIN q'[f], NEW j \in DOMAIN q'[f],
                      NEW k \in DOMAIN q'[g], NEW l \in DOMAIN q'[g],
                      q'[f][i] = q'[g][k], q'[f][j] = q'[g][l], i < j
               PROVE  k < l
    BY DEF Ordered, InOrder
  <2> DEFINE shift(r) == IF r = e THEN n ELSE 0
  <2>1. \A r \in Eps : \A m \in DOMAIN q'[r] :
          m \in Nat /\ m + shift(r) \in DOMAIN q[r] /\ q'[r][m] = q[r][m + shift(r)]
    <3> TAKE r \in Eps
    <3> TAKE m \in DOMAIN q'[r]
    <3>1. CASE r = e
      BY <1>q, <1>t, <3>1 DEF s
    <3>2. CASE r # e
      <4>1. q'[r] = q[r] /\ m \in Nat /\ m + 0 = m
        BY <1>q, <3>2, QueueFacts DEF QueuesInv
      <4> QED BY <3>2, <4>1
    <3> QED BY <3>1, <3>2
  <2>2. shift(f) \in Nat /\ shift(g) \in Nat
    BY <1>s
  <2> HIDE DEF shift
  <2>3. i + shift(f) < j + shift(f)
    BY <2>1, <2>2
  <2>4. k + shift(g) < l + shift(g)
    <3>1. InOrder(q[f], q[g])
      BY DEF QueuesInv, Ordered
    <3> QED BY <2>1, <2>3, <3>1 DEF InOrder
  <2> QED BY <2>1, <2>2, <2>4
<1> QED BY <1>1, <1>3, <1>5, <1>6, <1>7
-----------------------------------------------------------------------------
LEMMA QueuesInitInv == QueuesInit => QueuesInv
<1> SUFFICES ASSUME QueuesInit PROVE QueuesInv
  OBVIOUS
<1>q. \A e \in Eps : q[e] = << >> /\ Len(q[e]) = 0 /\ DOMAIN q[e] = {}
  BY EmptySeq DEF QueuesInit
<1>1. QueuesTypeOK
  <2>1. << >> \in Seq(Buffers)
    BY EmptySeq
  <2> QED BY <2>1, QueuesAssumption DEF QueuesInit, QueuesTypeOK
<1>2. BuffersCounted
  <2>1. \A b : {e \in Eps : Contains(q[e], b)} = {}
    BY <1>q DEF Contains
  <2> QED BY <2>1, FS_EmptySet DEF QueuesInit, BuffersCounted
<1>3. HeldOnce /\ Ordered
  BY <1>q DEF HeldOnce, IsInjective, Ordered, InOrder
<1>4. CountIsLength /\ PolloutIsWaiting
  BY <1>q DEF QueuesInit, CountIsLength, PolloutIsWaiting
<1> QED BY <1>1, <1>2, <1>3, <1>4 DEF QueuesInv

\* setup_ep: an endpoint that is not there has nothing that waits.
LEMMA OpenEpInv ==
  ASSUME QueuesInv, NEW e \in Eps, OpenEp(e)
  PROVE  QueuesInv'
<1>1. q[e] = << >> /\ qcount[e] = 0
  <2>1. e \notin pollout
    BY DEF QueuesInv, QueuesTypeOK, OpenEp
  <2> QED BY <2>1, EmptySeq DEF QueuesInv, PolloutIsWaiting, CountIsLength
<1>2. q' = q /\ qcount' = qcount
  BY <1>1 DEF QueuesInv, QueuesTypeOK, OpenEp
<1>3. QueuesTypeOK'
  <2>1. qmax' \in [Eps -> Lengths]
    BY DEF QueuesInv, QueuesTypeOK, OpenEp
  <2>2. eps' \subseteq Eps /\ pollout' \subseteq eps' /\ UNCHANGED <<stdqlen, pb>>
    BY DEF QueuesInv, QueuesTypeOK, OpenEp
  <2> QED BY <1>2, <2>1, <2>2 DEF QueuesInv, QueuesTypeOK
<1>4. UNCHANGED <<pb, pollout>>
  BY DEF OpenEp
<1> QED BY <1>2, <1>3, <1>4 DEF QueuesInv, BuffersCounted, HeldOnce, CountIsLength,
                                PolloutIsWaiting, Ordered

\* rec_close_ep: the whole queue goes.
LEMMA CloseEpInv ==
  ASSUME QueuesInv, NEW e \in Eps, CloseEpQueue(e)
  PROVE  QueuesInv'
<1> DEFINE n == Len(q[e])
<1>n. n \in Nat /\ n \in 0 .. Len(q[e])
  BY QueueFacts DEF QueuesInv
<1>1. Behind(q[e], << >>, n)
  BY <1>n, EmptySeq DEF Behind
<1>2. q' = [q EXCEPT ![e] = << >>] /\ LetGo(e, n)
  BY DEF CloseEpQueue
<1>3. /\ q' \in [Eps -> Seq(Buffers)] /\ pb' \in [Buffers -> Int]
      /\ BuffersCounted' /\ HeldOnce' /\ Ordered'
  <2> HIDE DEF n
  <2> QED BY <1>n, <1>1, <1>2, Released
<1>4. q'[e] = << >> /\ \A f \in Eps : f # e => q'[f] = q[f]
  BY <1>2 DEF QueuesInv, QueuesTypeOK
<1>5. QueuesTypeOK'
  BY <1>3 DEF QueuesInv, QueuesTypeOK, CloseEpQueue
<1>6. CountIsLength'
  BY <1>4, EmptySeq DEF QueuesInv, QueuesTypeOK, CloseEpQueue, CountIsLength
<1>7. PolloutIsWaiting'
  BY <1>4 DEF QueuesInv, CloseEpQueue, PolloutIsWaiting
<1> QED BY <1>3, <1>5, <1>6, <1>7 DEF QueuesInv

\* handle_out_packet: the first n buffers go.
LEMMA HandleOutInv ==
  ASSUME QueuesInv, NEW e \in Eps, NEW n \in 0 .. Len(q[e]), HandleOutPacket(e, n)
  PROVE  QueuesInv'
<1> DEFINE t == SubSeq(q[e], n + 1, Len(q[e]))
<1>q. q[e] \in Seq(Buffers) /\ Len(q[e]) \in Nat /\ n \in Nat
  BY QueueFacts DEF QueuesInv
<1>1. Behind(q[e], t, n)
  BY <1>q, RestOfQueue
<1>2. q' = [q EXCEPT ![e] = t] /\ LetGo(e, n)
  BY DEF HandleOutPacket
<1> HIDE DEF t
<1>3. /\ q' \in [Eps -> Seq(Buffers)] /\ pb' \in [Buffers -> Int]
      /\ BuffersCounted' /\ HeldOnce' /\ Ordered'
  BY <1>1, <1>2, Released
<1>4. q'[e] = t /\ \A f \in Eps : f # e => q'[f] = q[f]
  BY <1>2 DEF QueuesInv, QueuesTypeOK
<1>5. qcount'[e] = Len(t) /\ Len(t) \in Nat /\ (t = << >> <=> Len(t) = 0)
  <2>1. t \in Seq(Buffers) /\ Len(t) = Len(q[e]) - n
    BY <1>1 DEF Behind
  <2>2. qcount'[e] = qcount[e] - n /\ qcount[e] = Len(q[e])
    BY DEF QueuesInv, QueuesTypeOK, HandleOutPacket, CountIsLength
  <2> QED BY <2>1, <2>2, LenProperties, EmptySeq
<1>6. \A f \in Eps : f # e => qcount'[f] = qcount[f]
  BY DEF QueuesInv, QueuesTypeOK, HandleOutPacket
<1>7. QueuesTypeOK'
  <2>1. qcount' \in [Eps -> Nat]
    <3>1. qcount' = [qcount EXCEPT ![e] = qcount[e] - n]
      BY DEF HandleOutPacket
    <3>2. qcount \in [Eps -> Nat] /\ qcount[e] - n \in Nat
      BY <1>5, <3>1 DEF QueuesInv, QueuesTypeOK
    <3> QED BY <3>1, <3>2
  <2> QED BY <1>3, <2>1 DEF QueuesInv, QueuesTypeOK, HandleOutPacket
<1>8. CountIsLength'
  BY <1>4, <1>5, <1>6 DEF QueuesInv, CountIsLength
<1>9. PolloutIsWaiting'
  <2>1. pollout' = IF t = << >> THEN pollout \ {e} ELSE pollout
    BY <1>5 DEF HandleOutPacket
  <2>2. t # << >> => q[e] # << >>
    <3>1. Len(t) = Len(q[e]) - n /\ (q[e] = << >> => Len(q[e]) = 0)
      BY <1>1, EmptySeq DEF Behind
    <3> QED BY <1>5, <1>q, <3>1
  <2> QED BY <1>4, <2>1, <2>2 DEF QueuesInv, PolloutIsWaiting
<1> QED BY <1>3, <1>7, <1>8, <1>9 DEF QueuesInv

(***************************************************************************)
(* A frame that has to wait: its one buffer is new to every queue, and     *)
(* last in each that takes it.                                             *)
(***************************************************************************)
LEMMA SendPacketInv ==
  ASSUME QueuesInv, NEW to \in SUBSET eps, NEW blocked \in SUBSET to, SendPacket(to, blocked)
  PROVE  QueuesInv'
<1> DEFINE waiting == {e \in to : qcount[e] # 0 \/ e \in blocked}
           added == {e \in waiting : qcount[e] < qmax[e]}
<1>a. added \subseteq eps /\ added \subseteq Eps /\ IsFiniteSet(added)
  <2>1. added \in SUBSET Eps /\ added \subseteq eps
    BY DEF QueuesInv, QueuesTypeOK
  <2> QED BY <2>1, FS_Subset, QueuesAssumption
<1>b. PICK b \in {c \in Buffers : pb[c] = 0} :
        /\ q' = [e \in Eps |-> IF e \in added THEN Append(q[e], b) ELSE q[e]]
        /\ pb' = [pb EXCEPT ![b] = Cardinality(added)]
  BY DEF SendPacket
<1>s. /\ qcount' = [e \in Eps |-> IF e \in added THEN qcount[e] + 1 ELSE qcount[e]]
      /\ pollout' = pollout \cup {e \in added : qcount[e] = 0}
      /\ UNCHANGED <<eps, qmax, stdqlen>>
  BY DEF SendPacket
<1> HIDE DEF waiting, added
<1>new. \A e \in Eps : ~Contains(q[e], b)
  BY FreeIsNowhere
<1>c. \A e \in Eps : qcount[e] = Len(q[e]) /\ qcount[e] \in Nat
  BY QueueFacts DEF QueuesInv, CountIsLength
<1>in. ASSUME NEW e \in added
       PROVE  /\ q'[e] \in Seq(Buffers) /\ q'[e] # << >>
              /\ Len(q'[e]) = Len(q[e]) + 1 /\ DOMAIN q'[e] = 1 .. Len(q[e]) + 1
              /\ \A i \in 1 .. Len(q[e]) : q'[e][i] = q[e][i]
              /\ q'[e][Len(q[e]) + 1] = b
  <2>1. e \in Eps /\ q'[e] = Append(q[e], b) /\ q[e] \in Seq(Buffers) /\ b \in Buffers
    BY <1>a, <1>b, QueueFacts DEF QueuesInv
  <2>2. /\ Append(q[e], b) \in Seq(Buffers) /\ Append(q[e], b) # << >>
        /\ Len(Append(q[e], b)) = Len(q[e]) + 1
        /\ \A i \in 1 .. Len(q[e]) : Append(q[e], b)[i] = q[e][i]
        /\ Append(q[e], b)[Len(q[e]) + 1] = b
    BY <2>1, AppendProperties
  <2> QED BY <2>1, <2>2, LenProperties
<1>out. \A e \in Eps \ added : q'[e] = q[e]
  BY <1>b
\* A place of a queue after the step: where it was before, or the last one.
<1>place. ASSUME NEW e \in Eps, NEW i \in DOMAIN q'[e]
          PROVE  \/ i \in DOMAIN q[e] /\ q'[e][i] = q[e][i] /\ q[e][i] # b
                 \/ e \in added /\ i = Len(q[e]) + 1 /\ q'[e][i] = b
  <2>q. Len(q[e]) \in Nat /\ DOMAIN q[e] = 1 .. Len(q[e])
    BY QueueFacts DEF QueuesInv
  <2>1. \A k \in 1 .. Len(q[e]) : q[e][k] # b
    BY <1>new DEF Contains
  <2>2. CASE e \in added
    <3>1. i \in 1 .. Len(q[e]) \/ i = Len(q[e]) + 1
      BY <1>in, <2>q, <2>2
    <3> QED BY <1>in, <2>q, <2>1, <2>2, <3>1
  <2>3. CASE e \notin added
    BY <1>out, <2>q, <2>1, <2>3
  <2> QED BY <2>2, <2>3
<1>range. \A e \in Eps : Len(q[e]) \in Nat /\ DOMAIN q[e] = 1 .. Len(q[e])
  BY QueueFacts DEF QueuesInv
<1>has. \A e \in Eps : \A c : Contains(q'[e], c) <=> Contains(q[e], c) \/ (e \in added /\ c = b)
  <2> TAKE e \in Eps
  <2> TAKE c
  <2>1. CASE e \in added
    <3>1. Len(q'[e]) = Len(q[e]) + 1 /\ Len(q[e]) \in Nat
      BY <1>in, <1>range, <2>1
    <3>2. \A i : i \in 1 .. Len(q[e]) + 1 <=> i \in 1 .. Len(q[e]) \/ i = Len(q[e]) + 1
      BY <3>1
    <3> QED BY <1>in, <2>1, <3>1, <3>2 DEF Contains
  <2>2. CASE e \notin added
    BY <1>out, <2>2
  <2> QED BY <2>1, <2>2
<1>1. QueuesTypeOK'
  <2>1. q' \in [Eps -> Seq(Buffers)]
    <3>1. \A e \in Eps : q'[e] \in Seq(Buffers)
      BY <1>in, <1>out, QueueFacts DEF QueuesInv
    <3> QED BY <1>b, <3>1
  <2>2. qcount' \in [Eps -> Nat]
    BY <1>s, <1>c
  <2>3. pb' \in [Buffers -> Int]
    BY <1>a, <1>b, FS_CardinalityType DEF QueuesInv, QueuesTypeOK
  <2>4. pollout' \subseteq eps'
    BY <1>a, <1>s DEF QueuesInv, QueuesTypeOK
  <2> QED BY <1>s, <2>1, <2>2, <2>3, <2>4 DEF QueuesInv, QueuesTypeOK
<1>2. BuffersCounted'
  <2> SUFFICES ASSUME NEW c \in Buffers PROVE pb'[c] = Cardinality(Holders(q', c))
    BY DEF BuffersCounted, Holders
  <2>1. CASE c = b
    <3>1. Holders(q', c) = added
      BY <1>a, <1>new, <1>has, <2>1 DEF Holders
    <3> QED BY <1>b, <2>1, <3>1 DEF QueuesInv, QueuesTypeOK
  <2>2. CASE c # b
    <3>1. Holders(q', c) = Holders(q, c)
      BY <1>has, <2>2 DEF Holders
    <3>2. pb'[c] = pb[c]
      BY <1>b, <2>2 DEF QueuesInv, QueuesTypeOK
    <3> QED BY <3>1, <3>2 DEF QueuesInv, BuffersCounted, Holders
  <2> QED BY <2>1, <2>2
<1>3. HeldOnce'
  <2> SUFFICES ASSUME NEW e \in Eps, NEW i \in DOMAIN q'[e], NEW j \in DOMAIN q'[e],
                      q'[e][i] = q'[e][j]
               PROVE  i = j
    BY DEF HeldOnce, IsInjective
  <2>1. \A k, l \in DOMAIN q[e] : q[e][k] = q[e][l] => k = l
    BY DEF QueuesInv, HeldOnce, IsInjective
  <2> QED BY <1>place, <2>1
<1>4. CountIsLength'
  <2>1. \A e \in added : qcount'[e] = Len(q'[e])
    BY <1>a, <1>s, <1>c, <1>in
  <2>2. \A e \in Eps \ added : qcount'[e] = Len(q'[e])
    BY <1>s, <1>c, <1>out
  <2> QED BY <2>1, <2>2 DEF CountIsLength
<1>5. PolloutIsWaiting'
  <2>1. \A e \in Eps : qcount[e] = 0 <=> q[e] = << >>
    BY <1>c, QueueFacts DEF QueuesInv
  <2>2. \A e \in added : e \in pollout' /\ q'[e] # << >>
    BY <1>a, <1>s, <1>in, <2>1 DEF QueuesInv, PolloutIsWaiting
  <2>3. \A e \in Eps \ added : e \in pollout' <=> q'[e] # << >>
    BY <1>s, <1>out DEF QueuesInv, PolloutIsWaiting
  <2> QED BY <2>2, <2>3 DEF PolloutIsWaiting
<1>6. Ordered'
  <2> SUFFICES ASSUME NEW e \in Eps, NEW f \in Eps,
                      NEW i \in DOMAIN q'[e], NEW j \in DOMAIN q'[e],
                      NEW k \in DOMAIN q'[f], NEW l \in DOMAIN q'[f],
                      q'[e][i] = q'[f][k], q'[e][j] = q'[f][l], i < j
               PROVE  k < l
    BY DEF Ordered, InOrder
  <2>1. i \in DOMAIN q[e] /\ q'[e][i] = q[e][i] /\ q[e][i] # b
    <3>1. j \in DOMAIN q[e] \/ j = Len(q[e]) + 1
      BY <1>place
    <3>2. i # Len(q[e]) + 1
      BY <1>range, <1>place, <3>1
    <3> QED BY <1>place, <3>2
  <2>2. k \in DOMAIN q[f] /\ q'[f][k] = q[f][k]
    BY <1>place, <2>1
  <2>3. CASE j \in DOMAIN q[e] /\ q'[e][j] = q[e][j] /\ q[e][j] # b
    <3>1. l \in DOMAIN q[f] /\ q'[f][l] = q[f][l]
      BY <1>place, <2>3
    <3>2. InOrder(q[e], q[f])
      BY DEF QueuesInv, Ordered
    <3> QED BY <2>1, <2>2, <2>3, <3>1, <3>2 DEF InOrder
  <2>4. CASE q'[e][j] = b
    <3>1. l = Len(q[f]) + 1
      BY <1>place, <2>4
    <3> QED BY <1>range, <2>2, <3>1
  <2> QED BY <1>place, <2>3, <2>4
<1> QED BY <1>1, <1>2, <1>3, <1>4, <1>5, <1>6 DEF QueuesInv

LEMMA QueuesNextInv == QueuesInv /\ [QueuesNext]_queueVars => QueuesInv'
<1> SUFFICES ASSUME QueuesInv, [QueuesNext]_queueVars PROVE QueuesInv'
  OBVIOUS
<1>1. ASSUME NEW e \in Eps, OpenEp(e) PROVE QueuesInv'
  BY <1>1, OpenEpInv
<1>2. ASSUME NEW e \in Eps, CloseEpQueue(e) PROVE QueuesInv'
  BY <1>2, CloseEpInv
<1>3. ASSUME NEW e \in Eps, NEW n \in 0 .. Len(q[e]), HandleOutPacket(e, n) PROVE QueuesInv'
  BY <1>3, HandleOutInv
<1>4. ASSUME NEW to \in SUBSET eps, NEW blocked \in SUBSET to, SendPacket(to, blocked)
      PROVE  QueuesInv'
  BY <1>4, SendPacketInv
<1>5. ASSUME NEW len \in Lengths, SetDefaultLength(len) \/ \E e \in Eps : SetLength(e, len)
      PROVE  QueuesInv'
  <2>1. UNCHANGED <<eps, q, qcount, pb, pollout>>
    BY <1>5 DEF SetDefaultLength, SetLength
  <2>2. qmax' \in [Eps -> Lengths] /\ stdqlen' \in Lengths
    BY <1>5 DEF QueuesInv, QueuesTypeOK, SetDefaultLength, SetLength
  <2> QED BY <2>1, <2>2 DEF QueuesInv, QueuesTypeOK, BuffersCounted, HeldOnce, CountIsLength,
                            PolloutIsWaiting, Ordered
<1>6. CASE UNCHANGED queueVars
  BY <1>6 DEF queueVars, QueuesInv, QueuesTypeOK, BuffersCounted, HeldOnce, CountIsLength,
              PolloutIsWaiting, Ordered
<1> QED BY <1>1, <1>2, <1>3, <1>4, <1>5, <1>6 DEF QueuesNext

(***************************************************************************)
(* The inductive invariant holds.                                          *)
(***************************************************************************)
THEOREM QueuesInvariant == QueuesSpec => []QueuesInv
<1>1. QueuesInit => QueuesInv
  BY QueuesInitInv
<1>2. QueuesInv /\ [QueuesNext]_queueVars => QueuesInv'
  BY QueuesNextInv
<1> QED BY <1>1, <1>2, PTL DEF QueuesSpec

(***************************************************************************)
(* A frame that waits for several endpoints is kept until the last of them *)
(* has done with it, and no longer; no two queues hold frames in different *)
(* orders; and POLLOUT is asked for exactly where something waits.         *)
(***************************************************************************)
THEOREM BuffersAreShared == QueuesSpec => []QueuesShareBuffers
<1>1. QueuesInv => QueuesShareBuffers
  BY DEF QueuesInv, HeldOnce, CountIsLength, PolloutIsWaiting, Ordered, QueuesShareBuffers
<1> QED BY <1>1, QueuesInvariant, PTL

-----------------------------------------------------------------------------
(***************************************************************************)
(* The command line.  The invariant says where getopt_long stands: an      *)
(* option begins at its word, and each setting has what the words before   *)
(* that one give it.  The next word is passed over with the one it is the  *)
(* value of, and a letter that no module knows changes nothing.  Each      *)
(* option goes to the function of its own entry although the numbers of    *)
(* the modules overlap: a number is only reached by a name, which carries  *)
(* its module, and a letter belongs to one module.                         *)
(***************************************************************************)
\* What a setting may hold.
SettingValues ==
  LineWords \cup {NoValue, On} \cup {ValueText(w[3]) : w \in {y \in LineWords : Len(y) = 3}}

\* Where an option begins, while the line is read and not at its end.
OptInv ==
  /\ OptTypeOK
  /\ optPhase = "start" => optind = 1 /\ settings = [o \in Settings |-> << >>]
  /\ optPhase \in {"parsing", "done"} /\ optind <= Len(line) => Begins(line)[optind]
  /\ optPhase \in {"parsing", "done"} /\ optind <= Len(line) + 1 =>
       \A o \in Settings : settings[o] = InForce(o, Given(line, o)[optind - 1])

LEMMA BeginsByWord ==
  ASSUME NEW words \in Seq(LineWords)
  PROVE  \A i \in 1 .. Len(words) :
           Begins(words)[i] <=> (i = 1 \/ ~(Begins(words)[i - 1] /\ TakesNext(words[i - 1])))
<1> DEFINE n == Len(words)
           next(i, c) == i = 1 \/ ~(c /\ TakesNext(words[i - 1]))
           step == [p \in (1 .. n) \X BOOLEAN |-> next(p[1], p[2])]
           B == [i \in 1 .. n |-> i = 1 \/ ~(Begins(words)[i - 1] /\ TakesNext(words[i - 1]))]
<1>1. n \in Nat
  BY Places
<1>2. HasRounds(n, BOOLEAN, FALSE, step)
  <2>1. step \in [(1 .. n) \X BOOLEAN -> BOOLEAN]
    OBVIOUS
  <2> HIDE DEF step
  <2> QED BY <1>1, <2>1, RoundsExist
<1>3. PICK f \in [0 .. n -> BOOLEAN] :
        f = [i \in 0 .. n |-> IF i = 0 THEN FALSE ELSE step[<<i, f[i - 1]>>]]
  BY <1>2 DEF HasRounds
<1>4. \A i \in 1 .. n : f[i] <=> next(i, f[i - 1])
  <2> TAKE i \in 1 .. n
  <2>1. i \in 0 .. n /\ i # 0 /\ f[i - 1] \in BOOLEAN
    BY <1>1
  <2>2. f[i] = step[<<i, f[i - 1]>>]
    BY <1>3, <2>1
  <2>3. step[<<i, f[i - 1]>>] = next(i, f[i - 1])
    BY <2>1
  <2> HIDE DEF step, next
  <2> QED BY <2>1, <2>2, <2>3
<1> DEFINE g == [i \in 1 .. n |-> f[i]]
<1>5. g = [i \in 1 .. n |-> i = 1 \/ ~(g[i - 1] /\ TakesNext(words[i - 1]))]
  <2> SUFFICES ASSUME NEW i \in 1 .. n
               PROVE  f[i] = (i = 1 \/ ~(g[i - 1] /\ TakesNext(words[i - 1])))
    OBVIOUS
  <2>1. i # 1 => g[i - 1] = f[i - 1]
    BY <1>1
  <2>2. f[i] \in BOOLEAN
    BY <1>1
  <2>3. f[i] <=> (i = 1 \/ ~(f[i - 1] /\ TakesNext(words[i - 1])))
    BY <1>4
  <2> HIDE DEF g, step
  <2> QED BY <2>1, <2>2, <2>3
<1>6. Begins(words) = B
  <2> HIDE DEF g
  <2> QED BY <1>5 DEF Begins
<1> HIDE DEF n
<1> QED BY <1>6 DEF n

\* The value behind a word, or that behind a letter, may be a setting.
LEMMA ValueIsOne ==
  ASSUME NEW words \in Seq(LineWords), NEW i \in 1 .. Len(words),
         Known(words[i]), TakesNext(words[i]) => i < Len(words)
  PROVE  ValueAt(words, i) \in SettingValues
<1>1. Len(words) \in Nat /\ \A k \in 1 .. Len(words) : words[k] \in LineWords
  BY Places
<1>2. CASE ~EntryOf(words[i]).arg
  BY <1>2 DEF ValueAt, SettingValues
<1>3. CASE EntryOf(words[i]).arg /\ TakesNext(words[i])
  <2>1. i + 1 \in 1 .. Len(words)
    BY <1>1, <1>3
  <2> QED BY <1>1, <1>3, <2>1 DEF ValueAt, SettingValues
<1>4. CASE EntryOf(words[i]).arg /\ ~TakesNext(words[i])
  <2>1. words[i] \in LineWords /\ Len(words[i]) = 3
    BY <1>1, <1>4, OptionsAssumption DEF TakesNext
  <2> QED BY <1>4, <2>1 DEF ValueAt, SettingValues
<1> QED BY <1>2, <1>3, <1>4

LEMMA GivenByWord ==
  ASSUME NEW words \in Seq(LineWords), NEW o
  PROVE  /\ Given(words, o) \in [0 .. Len(words) -> Seq(SettingValues)]
         /\ Given(words, o)[0] = << >>
         /\ \A i \in 1 .. Len(words) :
              Given(words, o)[i] =
                IF Gives(words, i, o) THEN Append(Given(words, o)[i - 1], ValueAt(words, i))
                ELSE Given(words, o)[i - 1]
<1> DEFINE n == Len(words)
           V == Seq(SettingValues)
           step == [p \in (1 .. n) \X V |->
                      IF Gives(words, p[1], o) THEN Append(p[2], ValueAt(words, p[1])) ELSE p[2]]
<1>1. n \in Nat
  BY Places
<1>2. \A i \in 1 .. n : Gives(words, i, o) => ValueAt(words, i) \in SettingValues
  BY ValueIsOne DEF Gives
<1>3. step \in [(1 .. n) \X V -> V]
  BY <1>2
<1>4. \A i \in 1 .. n : \A a \in V :
        step[<<i, a>>] = IF Gives(words, i, o) THEN Append(a, ValueAt(words, i)) ELSE a
  OBVIOUS
<1>5. << >> \in V
  BY EmptySeq
<1> HIDE DEF step, V
<1>6. HasRounds(n, V, << >>, step)
  BY <1>1, <1>3, <1>5, RoundsExist
<1>7. PICK f \in [0 .. n -> V] :
        f = [i \in 0 .. n |-> IF i = 0 THEN << >> ELSE step[<<i, f[i - 1]>>]]
  BY <1>6 DEF HasRounds
<1>8. f = [i \in 0 .. n |->
             IF i = 0 THEN << >>
             ELSE IF Gives(words, i, o) THEN Append(f[i - 1], ValueAt(words, i)) ELSE f[i - 1]]
  <2> SUFFICES ASSUME NEW i \in 0 .. n
               PROVE  f[i] = IF i = 0 THEN << >>
                             ELSE IF Gives(words, i, o) THEN Append(f[i - 1], ValueAt(words, i))
                             ELSE f[i - 1]
    OBVIOUS
  <2>1. f[i] = IF i = 0 THEN << >> ELSE step[<<i, f[i - 1]>>]
    BY <1>7
  <2>2. i # 0 => i \in 1 .. n /\ i - 1 \in 0 .. n
    BY <1>1
  <2>3. i # 0 => f[i - 1] \in V
    BY <2>2
  <2> QED BY <1>4, <2>1, <2>2, <2>3
<1> DEFINE G == [i \in 0 .. n |->
                   IF i = 0 THEN << >>
                   ELSE IF Gives(words, i, o)
                        THEN Append(Given(words, o)[i - 1], ValueAt(words, i))
                   ELSE Given(words, o)[i - 1]]
<1>9. Given(words, o) = G
  <2> DEFINE IsGiven(h) == h = [i \in 0 .. n |->
                   IF i = 0 THEN << >>
                   ELSE IF Gives(words, i, o) THEN Append(h[i - 1], ValueAt(words, i))
                   ELSE h[i - 1]]
  <2>1. IsGiven(f)
    BY <1>8
  <2>2. Given(words, o) = CHOOSE h : IsGiven(h)
    BY DEF Given
  <2>3. IsGiven(Given(words, o))
    <3> HIDE DEF IsGiven
    <3> QED BY <2>1, <2>2
  <2> QED BY <2>3
<1> DEFINE g == Given(words, o)
           Read == {i \in 0 .. n : g[i] \in V}
<1>10. g = [i \in 0 .. n |-> g[i]]
  BY <1>9
<1>11. g[0] = << >>
  BY <1>1, <1>9
<1>12. \A i \in 1 .. n :
         g[i] = IF Gives(words, i, o) THEN Append(g[i - 1], ValueAt(words, i)) ELSE g[i - 1]
  <2> TAKE i \in 1 .. n
  <2>1. i \in 0 .. n /\ i # 0
    BY <1>1
  <2> QED BY <1>9, <2>1
<1> HIDE DEF g, n, G
<1>13. \A i \in 0 .. n : i \in Read
  <2>1. 0 \in Read
    BY <1>1, <1>5, <1>11
  <2>2. \A i \in 1 .. n : i - 1 \in Read => i \in Read
    <3> SUFFICES ASSUME NEW i \in 1 .. n, g[i - 1] \in V PROVE i \in Read
      BY <1>1
    <3>1. Gives(words, i, o) => Append(g[i - 1], ValueAt(words, i)) \in V
      BY <1>2, AppendProperties DEF V
    <3> QED BY <1>1, <1>12, <3>1
  <2> HIDE DEF Read
  <2> QED BY <1>1, <2>1, <2>2, UpTo
<1>14. g \in [0 .. n -> V]
  BY <1>10, <1>13
<1> QED BY <1>11, <1>12, <1>14 DEF g, n, V

-----------------------------------------------------------------------------
\* An entry of a table, by the function that takes it and by its value.
LEMMA EntriesTaken ==
  ASSUME NEW e \in OptionTable
  PROVE  /\ e.mod \in DOMAIN Takes
         /\ <<e.mod, e.val>> \in Settings <=> e.val \in Takes[e.mod]
         /\ e.val \in Takes[e.mod] =>
              /\ ~e.arg <=> <<e.mod, e.val>> \in Flags \cup Prints
              /\ <<e.mod, e.val>> \in Numbers \cup Checked \cup {<<"tuntap", "t">>} => e.arg
         /\ \A m \in DOMAIN Takes :
              m # e.mod /\ e.val \in Takes[m] => e.val \in {"0x100", "0x101", "0x102"}
<1> USE DEF OptionEntry, Takes, Settings, Flags, Prints, Numbers, Checked
<1>1. CASE e \in GlobalOptions
  BY <1>1 DEF GlobalOptions
<1>2. CASE e \in DatasockOptions
  BY <1>2 DEF DatasockOptions
<1>3. CASE e \in MgmtOptions
  BY <1>3 DEF MgmtOptions
<1>4. CASE e \in TapOptions
  BY <1>4 DEF TapOptions
<1> QED BY <1>1, <1>2, <1>3, <1>4 DEF OptionTable

LEMMA EntryFits ==
  ASSUME NEW w, Known(w)
  PROVE  /\ EntryOf(w) \in OptionTable
         /\ ~IsLong(w) => IsLetter(w) /\ EntryOf(w).val = w[2]
BY DEF Known, EntryOf

\* Whoever is asked, the option goes to the function of its own entry.
LEMMA OwnersOf ==
  ASSUME NEW w \in LineWords, Known(w)
  PROVE  {m \in DOMAIN Takes : Owner(GetoptLong(w), m)} =
           IF <<EntryOf(w).mod, EntryOf(w).val>> \in Settings THEN {EntryOf(w).mod} ELSE {}
<1> DEFINE e == EntryOf(w)
           c == GetoptLong(w)
<1>1. e \in OptionTable /\ (~IsLong(w) => IsLetter(w) /\ e.val = w[2])
  BY EntryFits
<1>2. /\ e.mod \in DOMAIN Takes
      /\ <<e.mod, e.val>> \in Settings <=> e.val \in Takes[e.mod]
      /\ \A m \in DOMAIN Takes :
           m # e.mod /\ e.val \in Takes[m] => e.val \in {"0x100", "0x101", "0x102"}
  BY <1>1, EntriesTaken
<1>3. c.tag = (IF IsLong(w) THEN e.mod ELSE "global") /\ c.val = e.val
  BY DEF GetoptLong
<1>4. ~IsLong(w) => e.val \notin {"0x100", "0x101", "0x102"}
  BY <1>1, OptionsAssumption DEF IsLetter
<1> HIDE DEF e, c
<1>5. ASSUME NEW m \in DOMAIN Takes
      PROVE  Owner(c, m) <=> m = e.mod /\ e.val \in Takes[e.mod]
  <2>1. CASE m = e.mod
    BY <1>3, <1>4, <2>1 DEF Owner
  <2>2. CASE m # e.mod
    BY <1>2, <1>3, <1>4, <2>2 DEF Owner
  <2> QED BY <2>1, <2>2
<1>6. {m \in DOMAIN Takes : Owner(c, m)} =
        IF <<e.mod, e.val>> \in Settings THEN {e.mod} ELSE {}
  BY <1>2, <1>5
<1> QED BY <1>6 DEF e, c

\* optarg is what the word gives, if it gives anything.
LEMMA ValueRead ==
  ASSUME line \in Seq(LineWords), NEW w \in LineWords, optind \in 1 .. Len(line),
         w = line[optind], Known(w), TakesNext(w) => optind < Len(line)
  PROVE  IF EntryOf(w).arg
         THEN GetoptLong(w).arg = ValueAt(line, optind) /\ GetoptLong(w).arg # NoValue
         ELSE GetoptLong(w).arg = NoValue /\ ValueAt(line, optind) = On
<1>1. Len(line) \in Nat /\ \A k \in 1 .. Len(line) : line[k] \in LineWords
  BY Places
<1>2. \A y \in LineWords : Len(y) \in {2, 3} /\ y # NoValue
  <2>1. Len(NoValue) = 0
    BY EmptySeq DEF NoValue
  <2> SUFFICES ASSUME NEW y \in LineWords PROVE Len(y) \in {2, 3} /\ y # NoValue
    OBVIOUS
  <2>2. Len(y) \in {2, 3}
    BY OptionsAssumption
  <2>3. y = NoValue => Len(y) = 0
    BY <2>1
  <2>4. Len(y) # 0
    BY <2>2
  <2> QED BY <2>2, <2>3, <2>4
<1>3. \A y : ValueText(y) # NoValue
  BY DEF ValueText, NoValue
<1> DEFINE c == GetoptLong(w)
<1>4. c.arg = IF TakesNext(w) /\ optind < Len(line) THEN line[optind + 1]
              ELSE IF EntryOf(w).arg /\ Len(w) = 3 THEN ValueText(w[3]) ELSE NoValue
  BY DEF GetoptLong
<1> HIDE DEF c
<1>5. CASE ~EntryOf(w).arg
  BY <1>4, <1>5 DEF ValueAt, TakesNext, c
<1>6. CASE EntryOf(w).arg /\ TakesNext(w)
  <2>1. optind + 1 \in 1 .. Len(line)
    BY <1>1, <1>6
  <2> QED BY <1>1, <1>2, <1>4, <1>6, <2>1 DEF ValueAt, c
<1>7. CASE EntryOf(w).arg /\ ~TakesNext(w)
  <2>1. Len(w) = 3
    BY <1>2, <1>7 DEF TakesNext
  <2> QED BY <1>3, <1>4, <1>7, <2>1 DEF ValueAt, c
<1> QED BY <1>5, <1>6, <1>7

\* What is set is in force when the value has been given.
LEMMA SetIsInForce ==
  ASSUME NEW o \in Settings, NEW g \in Seq(SettingValues), settings[o] = InForce(o, g),
         NEW a \in SettingValues, NEW y \in SettingValues,
         \/ o \in Flags /\ a = NoValue /\ y = On
         \/ o \notin Flags /\ a # NoValue /\ y = a
  PROVE  SetTo(o, a) = InForce(o, IF o \in Numbers => y \in GoodValues THEN Append(g, y) ELSE g)
<1>1. Append(g, y) # << >> /\ Last(Append(g, y)) = y
  <2>1. Append(g, y)[Len(Append(g, y))] = y /\ Len(Append(g, y)) = Len(g) + 1 /\ Len(g) \in Nat
    BY AppendProperties, LenProperties
  <2> QED BY <2>1 DEF Last
<1>2. <<"tuntap", "t">> \notin Flags \cup Numbers /\ Flags \cap Numbers = {}
  BY DEF Flags, Numbers
<1>3. CASE o = <<"tuntap", "t">>
  BY <1>2, <1>3 DEF SetTo, InForce
<1>4. CASE o \in Flags
  BY <1>1, <1>2, <1>4 DEF SetTo, InForce
<1>5. CASE o # <<"tuntap", "t">> /\ o \notin Flags
  BY <1>1, <1>5 DEF SetTo, InForce
<1> QED BY <1>3, <1>4, <1>5

LEMMA OptStarts == OptInit => OptInv
<1> SUFFICES ASSUME OptInit PROVE OptInv
  OBVIOUS
<1>1. line = << >> /\ optind = 1 /\ settings = [o \in Settings |-> << >>] /\ optPhase = "start"
  BY DEF OptInit
<1>2. line \in Seq(LineWords) /\ Len(line) = 0 /\ \A S : << >> \in Seq(S)
  BY <1>1, EmptySeq
<1> QED BY <1>1, <1>2 DEF OptInv, OptTypeOK

LEMMA GiveKeepsOpt == ASSUME OptInv, NEW w \in LineWords, GiveWord(w) PROVE OptInv'
<1>1. /\ optPhase = "start" /\ optPhase' = optPhase /\ optind' = optind /\ settings' = settings
      /\ line' = Append(line, w)
  BY DEF GiveWord
<1>2. line \in Seq(LineWords)
  BY DEF OptInv, OptTypeOK
<1>3. line' \in Seq(LineWords) /\ Len(line') = Len(line) + 1 /\ Len(line) \in Nat
  BY <1>1, <1>2, AppendProperties, LenProperties
<1> QED BY <1>1, <1>3 DEF OptInv, OptTypeOK

LEMMA StartKeepsOpt == OptInv /\ StartParse => OptInv'
<1> SUFFICES ASSUME OptInv, StartParse PROVE OptInv'
  OBVIOUS
<1>1. /\ optPhase = "start" /\ optPhase' = "parsing" /\ optind' = optind /\ settings' = settings
      /\ line' = line
  BY DEF StartParse
<1>2. line \in Seq(LineWords) /\ optind = 1 /\ settings = [o \in Settings |-> << >>]
  BY <1>1 DEF OptInv, OptTypeOK
<1>3. Len(line) \in Nat /\ (1 <= Len(line) => Begins(line)[1])
  BY <1>2, BeginsByWord, LenProperties
<1>4. \A o \in Settings : settings[o] = InForce(o, Given(line, o)[optind - 1])
  <2> TAKE o \in Settings
  <2>1. Given(line, o)[0] = << >>
    BY <1>2, GivenByWord
  <2> QED BY <1>2, <2>1 DEF InForce
<1>5. OptTypeOK'
  BY <1>1 DEF OptInv, OptTypeOK
<1> HIDE DEF InForce
<1> QED BY <1>1, <1>2, <1>3, <1>4, <1>5 DEF OptInv

\* Places behind the word that is read: the next word is its value or begins.
LEMMA NextBegins ==
  ASSUME NEW words \in Seq(LineWords), NEW i \in 1 .. Len(words), Begins(words)[i]
  PROVE  /\ ~TakesNext(words[i]) /\ i + 1 <= Len(words) => Begins(words)[i + 1]
         /\ TakesNext(words[i]) /\ i + 2 <= Len(words) => Begins(words)[i + 2]
         /\ TakesNext(words[i]) /\ i + 1 <= Len(words) =>
              \A o : Given(words, o)[i + 1] = Given(words, o)[i]
<1> DEFINE n == Len(words)
<1>1. n \in Nat
  BY Places
<1>2. i + 1 <= n => (Begins(words)[i + 1] <=> ~TakesNext(words[i]))
  <2> SUFFICES ASSUME i + 1 <= n PROVE Begins(words)[i + 1] <=> ~TakesNext(words[i])
    OBVIOUS
  <2>1. i + 1 \in 1 .. n /\ i + 1 # 1 /\ (i + 1) - 1 = i
    BY <1>1
  <2> QED BY <2>1, BeginsByWord
<1>3. TakesNext(words[i]) /\ i + 2 <= n => Begins(words)[i + 2]
  <2> SUFFICES ASSUME TakesNext(words[i]), i + 2 <= n PROVE Begins(words)[i + 2]
    OBVIOUS
  <2>1. i + 2 \in 1 .. n /\ (i + 2) - 1 = i + 1 /\ i + 1 <= n
    BY <1>1
  <2> QED BY <1>2, <2>1, BeginsByWord
<1>4. ASSUME TakesNext(words[i]), i + 1 <= n, NEW o
      PROVE  Given(words, o)[i + 1] = Given(words, o)[i]
  <2>1. i + 1 \in 1 .. n /\ (i + 1) - 1 = i
    BY <1>1, <1>4
  <2>2. ~Gives(words, i + 1, o)
    BY <1>2, <1>4 DEF Gives
  <2> QED BY <2>1, <2>2, GivenByWord
<1> QED BY <1>2, <1>3, <1>4

\* The place behind a word that was read, with all that the words before it
\* give in force.
LEMMA PlaceBehind ==
  ASSUME OptInv, optPhase = "parsing", NEW i \in 1 .. Len(line), i = optind,
         line' = line, optPhase' \in {"parsing", "looping"}, settings' \in [Settings -> Seq(SettingValues)],
         optPhase' = "looping" => optind' = optind,
         optPhase' = "parsing" =>
           \/ optind' = i + (IF TakesNext(line[i]) THEN 2 ELSE 1)
           \/ optind' = i + 1 /\ i = Len(line) /\ IsLetter(line[i]),
         optPhase' = "parsing" /\ (TakesNext(line[i]) => i < Len(line) \/ IsLetter(line[i])) =>
           \A o \in Settings : settings'[o] = InForce(o, Given(line, o)[i])
  PROVE  OptInv'
<1> DEFINE n == Len(line)
<1>1. line \in Seq(LineWords) /\ n \in Nat
  BY LenProperties DEF OptInv, OptTypeOK
<1>2. Begins(line)[i]
  BY <1>1 DEF OptInv
<1>3. /\ ~TakesNext(line[i]) /\ i + 1 <= n => Begins(line)[i + 1]
      /\ TakesNext(line[i]) /\ i + 2 <= n => Begins(line)[i + 2]
      /\ TakesNext(line[i]) /\ i + 1 <= n => \A o : Given(line, o)[i + 1] = Given(line, o)[i]
  BY <1>1, <1>2, NextBegins
<1>4. OptTypeOK'
  <2>1. optind' \in 1 .. n + 2
    BY <1>1
  <2> QED BY <1>1, <2>1 DEF OptTypeOK, SettingValues
<1> HIDE DEF n
<1>5. ASSUME optPhase' = "parsing", optind' <= n PROVE Begins(line)[optind']
  <2>1. optind' = i + (IF TakesNext(line[i]) THEN 2 ELSE 1)
    BY <1>1, <1>5 DEF n
  <2> QED BY <1>1, <1>3, <1>5, <2>1
<1>6. ASSUME optPhase' = "parsing", optind' <= n + 1, NEW o \in Settings
      PROVE  settings'[o] = InForce(o, Given(line, o)[optind' - 1])
  <2>1. CASE optind' = i + 1
    <3>1. optind' - 1 = i
      BY <2>1
    <3>2. TakesNext(line[i]) => i < n \/ IsLetter(line[i])
      BY <1>1, <1>6, <2>1 DEF n
    <3> QED BY <1>6, <3>1, <3>2 DEF n
  <2>2. CASE TakesNext(line[i]) /\ optind' = i + 2
    <3>1. i < n /\ i + 1 <= n /\ optind' - 1 = i + 1
      BY <1>1, <1>6, <2>2
    <3>2. Given(line, o)[i + 1] = Given(line, o)[i]
      BY <1>3, <2>2, <3>1
    <3> QED BY <1>6, <3>1, <3>2 DEF n
  <2> QED BY <1>6, <2>1, <2>2
<1>7. optPhase' # "start" /\ optPhase' # "done"
  OBVIOUS
<1> QED BY <1>4, <1>5, <1>6, <1>7 DEF OptInv, n

LEMMA ReadKeepsOpt == OptInv /\ ReadOption => OptInv'
<1> SUFFICES ASSUME OptInv, ReadOption PROVE OptInv'
  OBVIOUS
<1> DEFINE i == optind
           n == Len(line)
           w == line[i]
           e == EntryOf(w)
           c == GetoptLong(w)
           o == <<e.mod, e.val>>
           owners == {m \in DOMAIN Takes : Owner(c, m)}
           mine == <<CHOOSE m \in owners : TRUE, c.val>>
<1>1. optPhase = "parsing" /\ i <= n /\ Known(w) /\ ~NoValueBehind(w)
  BY DEF ReadOption, Reading
<1>2. /\ line \in Seq(LineWords) /\ n \in Nat /\ i \in 1 .. n /\ w \in LineWords
      /\ settings \in [Settings -> Seq(SettingValues)]
  <2>1. line \in Seq(LineWords) /\ settings \in [Settings -> Seq(SettingValues)] /\ i \in 1 .. n + 2
    BY DEF OptInv, OptTypeOK, SettingValues
  <2>2. n \in Nat /\ \A k \in 1 .. n : line[k] \in LineWords
    BY <2>1, Places
  <2> QED BY <1>1, <2>1, <2>2
<1>3. Begins(line)[i] /\ \A r \in Settings : settings[r] = InForce(r, Given(line, r)[i - 1])
  BY <1>1, <1>2 DEF OptInv
<1>4. /\ e \in OptionTable /\ c.val = e.val
      /\ owners = IF o \in Settings THEN {e.mod} ELSE {}
  BY <1>1, <1>2, EntryFits, OwnersOf DEF GetoptLong
<1>5. o \in Settings => owners # {} /\ mine = o
  BY <1>4
<1>6. o \notin Settings => owners = {}
  BY <1>4
<1>7. \/ owners # {} /\ Ends(mine, c.arg) /\ EndSwitch
      \/ /\ ~(owners # {} /\ Ends(mine, c.arg))
         /\ settings' = IF owners = {} THEN settings ELSE [settings EXCEPT ![mine] = SetTo(mine, c.arg)]
         /\ optind' = i + (IF TakesNext(w) THEN 2 ELSE IF Grouped(w) THEN 0 ELSE 1)
         /\ optPhase' = IF Grouped(w) THEN "looping" ELSE optPhase
         /\ line' = line
  BY DEF ReadOption
<1>8. CASE EndSwitch
  BY <1>1, <1>2, <1>8 DEF EndSwitch, OptInv, OptTypeOK
<1>9. CASE /\ ~(owners # {} /\ Ends(mine, c.arg))
           /\ settings' = IF owners = {} THEN settings ELSE [settings EXCEPT ![mine] = SetTo(mine, c.arg)]
           /\ optind' = i + (IF TakesNext(w) THEN 2 ELSE IF Grouped(w) THEN 0 ELSE 1)
           /\ optPhase' = IF Grouped(w) THEN "looping" ELSE optPhase
           /\ line' = line
  <2>1. Grouped(w) => ~TakesNext(w)
    BY DEF Grouped, TakesNext
  <2>2. /\ settings' = IF o \in Settings THEN [settings EXCEPT ![o] = SetTo(o, c.arg)] ELSE settings
        /\ o \in Settings => ~Ends(o, c.arg)
    <3> HIDE DEF owners, mine, o
    <3> QED BY <1>5, <1>6, <1>9
  <2>3. o \in Settings =>
          /\ ~e.arg <=> o \in Flags
          /\ o \in Flags \/ c.arg # NoValue \/ o \in MayBeNull
    <3>1. o \in Settings => (~e.arg <=> o \in Flags \cup Prints)
      BY <1>4, EntriesTaken
    <3> HIDE DEF o
    <3> QED BY <2>2, <3>1 DEF Ends
  <2>4. \A r : Gives(line, i, r) <=>
                 /\ o = r /\ (TakesNext(w) => i < n)
                 /\ r \in Numbers => ValueAt(line, i) \in GoodValues
    BY <1>1, <1>3 DEF Gives
  <2>5. \A r \in Settings :
          /\ Given(line, r)[i - 1] \in Seq(SettingValues)
          /\ Given(line, r)[i] =
               IF Gives(line, i, r) THEN Append(Given(line, r)[i - 1], ValueAt(line, i))
               ELSE Given(line, r)[i - 1]
    <3> TAKE r \in Settings
    <3>1. i - 1 \in 0 .. n
      BY <1>2
    <3> QED BY <1>2, <3>1, GivenByWord
  <2>6. ASSUME TakesNext(w) => i < n, o \in Settings
        PROVE  SetTo(o, c.arg) = InForce(o, Given(line, o)[i])
    <3>1. IF e.arg THEN c.arg = ValueAt(line, i) /\ c.arg # NoValue
          ELSE c.arg = NoValue /\ ValueAt(line, i) = On
      BY <1>1, <1>2, <2>6, ValueRead
    <3>2. ValueAt(line, i) \in SettingValues
      BY <1>1, <1>2, <2>6, ValueIsOne
    <3>3. c.arg \in SettingValues
      BY <3>1, <3>2 DEF SettingValues
    <3>4. \/ o \in Flags /\ c.arg = NoValue /\ ValueAt(line, i) = On
          \/ o \notin Flags /\ c.arg # NoValue /\ ValueAt(line, i) = c.arg
      BY <2>3, <2>6, <3>1
    <3> DEFINE g == Given(line, o)[i - 1]
               y == ValueAt(line, i)
    <3>5. g \in Seq(SettingValues) /\ settings[o] = InForce(o, g)
      BY <1>3, <2>5, <2>6
    <3>6. Given(line, o)[i] = IF o \in Numbers => y \in GoodValues THEN Append(g, y) ELSE g
      BY <2>4, <2>5, <2>6
    <3> HIDE DEF g, y, o, c
    <3> QED BY <2>6, <3>2, <3>3, <3>4, <3>5, <3>6, SetIsInForce DEF y
  <2>7. settings' \in [Settings -> Seq(SettingValues)]
    <3>1. c.arg \in SettingValues
      <4>1. CASE TakesNext(w) => i < n
        <5>1. IF e.arg THEN c.arg = ValueAt(line, i) ELSE c.arg = NoValue
          BY <1>1, <1>2, <4>1, ValueRead
        <5>2. ValueAt(line, i) \in SettingValues
          BY <1>1, <1>2, <4>1, ValueIsOne
        <5> QED BY <5>1, <5>2 DEF SettingValues
      <4>2. CASE TakesNext(w) /\ ~(i < n)
        BY <4>2 DEF GetoptLong, TakesNext, SettingValues
      <4> QED BY <4>1, <4>2
    <3>2. On \in SettingValues
      BY DEF SettingValues
    <3>3. ASSUME o \in Settings PROVE SetTo(o, c.arg) \in Seq(SettingValues)
      <4>1. settings[o] \in Seq(SettingValues)
        BY <1>2, <3>3
      <4>2. Append(settings[o], c.arg) \in Seq(SettingValues)
        BY <3>1, <4>1, AppendProperties
      <4>3. << >> \in Seq(SettingValues) /\ <<On>> \in Seq(SettingValues) /\ <<c.arg>> \in Seq(SettingValues)
        BY <3>1, <3>2
      <4> HIDE DEF o, c
      <4> QED BY <4>1, <4>2, <4>3 DEF SetTo
    <3> HIDE DEF o, c
    <3> QED BY <1>2, <2>2, <3>3
  <2>8. ASSUME TakesNext(w) => i < n \/ IsLetter(w), NEW r \in Settings
        PROVE  settings'[r] = InForce(r, Given(line, r)[i])
    <3>1. TakesNext(w) => i < n
      BY <1>1, <1>2, <2>8 DEF NoValueBehind
    <3>2. CASE r = o
      <4>1. SetTo(o, c.arg) = InForce(o, Given(line, o)[i])
        BY <2>6, <2>8, <3>1, <3>2
      <4>2. settings'[o] = SetTo(o, c.arg)
        <5> HIDE DEF o, c
        <5> QED BY <1>2, <2>2, <2>8, <3>2
      <4> HIDE DEF o, c
      <4> QED BY <3>2, <4>1, <4>2
    <3>3. CASE r # o
      <4>1. settings'[r] = settings[r]
        <5> HIDE DEF o, c
        <5> QED BY <1>2, <2>2, <2>8, <3>3
      <4>2. ~Gives(line, i, r)
        BY <2>4, <3>3
      <4>3. Given(line, r)[i] = Given(line, r)[i - 1]
        BY <2>5, <2>8, <4>2
      <4> QED BY <1>3, <2>8, <4>1, <4>3
    <3> QED BY <3>2, <3>3
  <2>9. /\ optPhase' \in {"parsing", "looping"} /\ line' = line
        /\ optPhase' = "looping" => optind' = optind
        /\ optPhase' = "parsing" => optind' = i + (IF TakesNext(w) THEN 2 ELSE 1)
    BY <1>1, <1>2, <1>9, <2>1
  <2> HIDE DEF c, o, owners, mine, e
  <2> QED BY <1>1, <1>2, <2>7, <2>8, <2>9, PlaceBehind
<1> QED BY <1>7, <1>8, <1>9

LEMMA SkipKeepsOpt == OptInv /\ SkipLetter => OptInv'
<1> SUFFICES ASSUME OptInv, SkipLetter PROVE OptInv'
  OBVIOUS
<1> DEFINE i == optind
           n == Len(line)
           w == line[i]
<1>1. /\ optPhase = "parsing" /\ i <= n /\ IsLetter(w) /\ (~Known(w) \/ NoValueBehind(w))
      /\ optind' = i + (IF Grouped(w) THEN 0 ELSE 1)
      /\ optPhase' = IF Grouped(w) THEN "looping" ELSE optPhase
      /\ line' = line /\ settings' = settings
  BY DEF SkipLetter, Reading
<1>2. /\ line \in Seq(LineWords) /\ n \in Nat /\ i \in 1 .. n
      /\ settings \in [Settings -> Seq(SettingValues)]
  <2>1. line \in Seq(LineWords) /\ settings \in [Settings -> Seq(SettingValues)] /\ i \in 1 .. n + 2
    BY DEF OptInv, OptTypeOK, SettingValues
  <2> QED BY <1>1, <2>1, Places
<1>3. \A r \in Settings : settings[r] = InForce(r, Given(line, r)[i - 1])
  BY <1>1, <1>2 DEF OptInv
<1>4. TakesNext(w) => i = n
  BY <1>1 DEF NoValueBehind, TakesNext
<1>5. \A r \in Settings : Given(line, r)[i] = Given(line, r)[i - 1]
  <2> TAKE r \in Settings
  <2>1. ~Gives(line, i, r)
    BY <1>1, <1>2 DEF Gives, NoValueBehind
  <2> QED BY <1>2, <2>1, GivenByWord
<1>6. /\ optPhase' \in {"parsing", "looping"}
      /\ optPhase' = "looping" => optind' = optind
      /\ optPhase' = "parsing" =>
           \/ optind' = i + (IF TakesNext(w) THEN 2 ELSE 1)
           \/ optind' = i + 1 /\ i = n /\ IsLetter(w)
  BY <1>1, <1>2, <1>4
<1> QED BY <1>1, <1>2, <1>3, <1>5, <1>6, PlaceBehind

LEMMA OptStepKeepsInv == OptInv /\ [OptNext]_optVars => OptInv'
<1> SUFFICES ASSUME OptInv, [OptNext]_optVars PROVE OptInv'
  OBVIOUS
<1>1. ASSUME NEW w \in LineWords, GiveWord(w) PROVE OptInv'
  BY <1>1, GiveKeepsOpt
<1>2. CASE StartParse
  BY <1>2, StartKeepsOpt
<1>3. CASE ReadOption
  BY <1>3, ReadKeepsOpt
<1>4. CASE SkipLetter
  BY <1>4, SkipKeepsOpt
<1>5. CASE NoMoreOptions
  BY <1>5 DEF NoMoreOptions, EndSwitch, OptInv, OptTypeOK
<1>6. CASE OptionsParsed
  <2>1. line' = line /\ optind' = optind /\ settings' = settings /\ optPhase = "parsing" /\ optPhase' = "done"
    BY <1>6 DEF OptionsParsed
  <2> QED BY <2>1 DEF OptInv, OptTypeOK
<1>7. CASE UNCHANGED optVars
  <2>1. line' = line /\ optind' = optind /\ settings' = settings /\ optPhase' = optPhase
    BY <1>7 DEF optVars
  <2> QED BY <2>1 DEF OptInv, OptTypeOK
<1> QED BY <1>1, <1>2, <1>3, <1>4, <1>5, <1>6, <1>7 DEF OptNext

(***************************************************************************)
(* For any command line, of any length, that the switch starts with, every *)
(* option has what was given last of those words that begin an option of   *)
(* its own module, taps all, although the modules share their numbers.     *)
(***************************************************************************)
THEOREM OptionsAtOwner == OptSpec => []OptionsReachOwner
<1>1. OptInit => OptInv
  BY OptStarts
<1>2. OptInv /\ [OptNext]_optVars => OptInv'
  BY OptStepKeepsInv
<1>3. OptInv => OptionsReachOwner
  <2> SUFFICES ASSUME OptInv, optPhase = "done", optind = Len(line) + 1, NEW o \in Settings
               PROVE  settings[o] = InForce(o, Given(line, o)[Len(line)])
    BY DEF OptionsReachOwner
  <2>1. Len(line) \in Nat
    BY LenProperties DEF OptInv, OptTypeOK
  <2>2. optind - 1 = Len(line) /\ optind <= Len(line) + 1
    BY <2>1
  <2> QED BY <2>2 DEF OptInv
<1> QED BY <1>1, <1>2, <1>3, PTL DEF OptSpec
=============================================================================
