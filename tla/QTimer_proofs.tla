----------------------------- MODULE QTimer_proofs -----------------------------
(***************************************************************************)
(* What holds of the timers of winvde_switch for any number of timers and  *)
(* any intervals.                                                          *)
(***************************************************************************)
EXTENDS QTimer, ListsAndLoops, TLAPS

(***************************************************************************)
(* The inductive invariant is all that the runs check: that a timer's      *)
(* count down fits its type rests on its being due within its period, and  *)
(* both on its struct being in the array once, so that a tick counts once. *)
(***************************************************************************)
TimerInv == TimerTypeOK /\ StructsApart /\ DueWithinPeriod /\ CurrentIntervalRuns

LEMMA TimerFacts ==
  ASSUME TimerInv
  PROVE  /\ qt_head \in Seq(Structs) /\ qt_free \in Seq(Structs)
         /\ Lists(qt_head, InArray) /\ Lists(qt_free, InList) /\ InArray \cap InList = {}
         /\ Len(qt_head) \in Nat /\ \A i \in 1 .. Len(qt_head) : qt_head[i] \in InArray
         /\ \A i, j \in 1 .. Len(qt_head) : qt_head[i] = qt_head[j] => i = j
         /\ InArray \subseteq Structs /\ InList \subseteq Structs
<1>1. qt_head \in Seq(Structs) /\ qt_free \in Seq(Structs)
  BY DEF TimerInv, TimerTypeOK
<1>2. Lists(qt_head, InArray) /\ Lists(qt_free, InList) /\ InArray \cap InList = {}
  BY DEF TimerInv, StructsApart, Lists, InArray, InList
<1>3. /\ Len(qt_head) \in Nat /\ \A i \in 1 .. Len(qt_head) : qt_head[i] \in InArray
      /\ InArray \subseteq Structs
  BY <1>1, Places DEF InArray
<1>4. \A i, j \in 1 .. Len(qt_head) : qt_head[i] = qt_head[j] => i = j
  BY <1>1, <1>2, Places DEF Lists
<1>5. InList \subseteq Structs
  BY <1>1, Places DEF InList
<1> QED BY <1>1, <1>2, <1>3, <1>4, <1>5

(***************************************************************************)
(* The loop of sig_alarm.  The rounds are a function of their number, and  *)
(* after each the structs passed are in the cells or in the list.          *)
(***************************************************************************)
SweepType == [cells : Seq(Structs), list : Seq(Structs)]

LEMMA SweptIn ==
  ASSUME NEW at \in SweepType, NEW s \in Structs
  PROVE  Swept(at, s) \in SweepType
<1>1. Append(at.cells, s) \in Seq(Structs) /\ <<s>> \o at.list \in Seq(Structs)
  <2>1. <<s>> \in Seq(Structs)
    OBVIOUS
  <2> QED BY <2>1, AppendProperties, ConcatProperties DEF SweepType
<1> QED BY <1>1 DEF Swept, SweepType

\* The structs among the first i cells, dead or not.
Passed(i) == {qt_head[k] : k \in 1 .. i}

SweptTo(at, i) ==
  /\ at \in SweepType
  /\ Lists(at.cells, {s \in Passed(i) : ~Dead(s)})
  /\ Lists(at.list, {s \in Passed(i) : Dead(s)} \cup InList)
  /\ i # 0 /\ ~Dead(qt_head[i]) => at.cells # << >> /\ Last(at.cells) = qt_head[i]

LEMMA SweptOn ==
  ASSUME TimerInv, NEW i \in 1 .. Len(qt_head), NEW at, SweptTo(at, i - 1)
  PROVE  SweptTo(Swept(at, qt_head[i]), i)
<1> DEFINE s == qt_head[i]
           r == Swept(at, s)
           K == {u \in Passed(i - 1) : ~Dead(u)}
           F == {u \in Passed(i - 1) : Dead(u)} \cup InList
<1>1. s \in Structs /\ s \notin Passed(i - 1) /\ s \notin InList /\ Passed(i) = Passed(i - 1) \cup {s}
  <2>1. s \in InArray /\ s \in Structs /\ s \notin InList
    BY TimerFacts
  <2>2. \A k \in 1 .. i - 1 : k \in 1 .. Len(qt_head) /\ k # i
    BY TimerFacts
  <2>3. \A k \in 1 .. i - 1 : qt_head[k] # s
    BY <2>2, TimerFacts
  <2>4. 1 .. i = (1 .. i - 1) \cup {i}
    BY TimerFacts
  <2> QED BY <2>1, <2>3, <2>4 DEF Passed
<1>2. /\ at \in SweepType /\ at.cells \in Seq(Structs) /\ at.list \in Seq(Structs)
      /\ Lists(at.cells, K) /\ Lists(at.list, F)
  BY DEF SweptTo, SweepType
<1>3. r \in SweepType
  BY <1>1, <1>2, SweptIn
<1>4. CASE Dead(s)
  <2>1. r.cells = at.cells /\ r.list = <<s>> \o at.list
    BY <1>2, <1>4 DEF Swept, SweepType
  <2>2. {u \in Passed(i) : ~Dead(u)} = K /\ {u \in Passed(i) : Dead(u)} \cup InList = F \cup {s}
    BY <1>1, <1>4
  <2>3. s \notin F
    BY <1>1
  <2> HIDE DEF K, F, s, r
  <2>4. Lists(<<s>> \o at.list, F \cup {s})
    BY <1>1, <1>2, <2>3, ConsLists
  <2>5. Lists(r.list, F \cup {s}) /\ Lists(r.cells, K)
    BY <1>2, <2>1, <2>4
  <2> QED BY <1>3, <1>4, <2>2, <2>5 DEF SweptTo, s, r
<1>5. CASE ~Dead(s)
  <2>1. r.cells = Append(at.cells, s) /\ r.list = at.list
    BY <1>2, <1>5 DEF Swept, SweepType
  <2>2. {u \in Passed(i) : ~Dead(u)} = K \cup {s} /\ {u \in Passed(i) : Dead(u)} \cup InList = F
    BY <1>1, <1>5
  <2>3. s \notin K
    BY <1>1
  <2> HIDE DEF K, F, s, r
  <2>4. Lists(Append(at.cells, s), K \cup {s})
    BY <1>1, <1>2, <2>3, AppendLists
  <2>5. Lists(r.list, F) /\ Lists(r.cells, K \cup {s})
    BY <1>2, <2>1, <2>4
  <2>6. r.cells # << >> /\ Last(r.cells) = s
    BY <1>1, <1>2, <2>1, AppendProperties DEF Last
  <2> QED BY <1>3, <2>2, <2>5, <2>6 DEF SweptTo, s, r
<1> QED BY <1>4, <1>5

LEMMA SweepEnds ==
  ASSUME TimerInv
  PROVE  SweptTo(Sweep, Len(qt_head))
<1> DEFINE n == Len(qt_head)
           a == [cells |-> << >>, list |-> qt_free]
           S == SweepType
           step == [p \in (1 .. n) \X S |-> Swept(p[2], qt_head[p[1]])]
           after[i \in 0 .. n] == IF i = 0 THEN a ELSE Swept(after[i - 1], qt_head[i])
<1>n. n \in Nat
  BY TimerFacts
<1>1. a \in S
  BY TimerFacts, NothingListed DEF SweepType
<1>2. step \in [(1 .. n) \X S -> S]
  <2>1. \A p \in (1 .. n) \X S : qt_head[p[1]] \in Structs /\ p[2] \in SweepType
    BY TimerFacts
  <2> HIDE DEF n, S
  <2> QED BY <2>1, SweptIn DEF S
<1>3. after = [i \in 0 .. n |-> IF i = 0 THEN a ELSE Swept(after[i - 1], qt_head[i])]
  <2>1. HasRounds(n, S, a, step)
    <3> HIDE DEF n, S, a, step
    <3> QED BY <1>n, <1>1, <1>2, RoundsExist
  <2>2. PICK f \in [0 .. n -> S] :
          f = [i \in 0 .. n |-> IF i = 0 THEN a ELSE step[<<i, f[i - 1]>>]]
    <3> HIDE DEF n, S, a, step
    <3> QED BY <2>1 DEF HasRounds
  <2>3. \A i \in 0 .. n : i # 0 => i \in 1 .. n /\ i - 1 \in 0 .. n
    BY <1>n
  <2>4. \A i \in 0 .. n : i # 0 => step[<<i, f[i - 1]>>] = Swept(f[i - 1], qt_head[i])
    BY <2>3
  <2>5. f = [i \in 0 .. n |-> IF i = 0 THEN a ELSE Swept(f[i - 1], qt_head[i])]
    BY <2>2, <2>4
  <2> QED BY <2>5
<1>4. Sweep = after[n]
  BY DEF Sweep
<1> HIDE DEF after
<1>5. /\ \A i \in 0 .. n : i = 0 => after[i] = a
      /\ \A i \in 0 .. n : i # 0 => after[i] = Swept(after[i - 1], qt_head[i])
  BY <1>3
<1> DEFINE G == {i \in 0 .. n : SweptTo(after[i], i)}
<1>6. 0 \in G
  <2>1. after[0] = a /\ 0 \in 0 .. n
    BY <1>5, <1>n
  <2>2. Passed(0) = {}
    BY DEF Passed
  <2>3. {s \in Passed(0) : ~Dead(s)} = {} /\ {s \in Passed(0) : Dead(s)} \cup InList = InList
    BY <2>2
  <2>4. Lists(a.cells, {}) /\ Lists(a.list, InList)
    BY TimerFacts, NothingListed
  <2>5. SweptTo(a, 0)
    BY <1>1, <2>3, <2>4 DEF SweptTo
  <2> QED BY <2>1, <2>5
<1>7. ASSUME NEW i \in 1 .. n, i - 1 \in G PROVE i \in G
  <2>1. i \in 0 .. n /\ after[i] = Swept(after[i - 1], qt_head[i])
    BY <1>5, <1>n
  <2>2. SweptTo(after[i - 1], i - 1)
    BY <1>7
  <2> QED BY <2>1, <2>2, SweptOn
<1>8. n \in G
  <2>1. n \in 0 .. n
    BY <1>n
  <2> HIDE DEF G, n
  <2> QED BY <1>n, <1>6, <1>7, <2>1, UpTo
<1> QED BY <1>4, <1>8

\* What a tick leaves: the live timers in the array, the dead ones in the list.
LEMMA SweepGives ==
  ASSUME TimerInv
  PROVE  /\ Sweep.cells \in Seq(Structs) /\ Sweep.list \in Seq(Structs)
         /\ Lists(Sweep.cells, Live) /\ Lists(Sweep.list, (InArray \ Live) \cup InList)
         /\ qt_head # << >> /\ ~Dead(Last(qt_head)) =>
              Sweep.cells # << >> /\ Last(Sweep.cells) = Last(qt_head)
<1> DEFINE n == Len(qt_head)
<1>1. Passed(n) = InArray
  BY TimerFacts, Places DEF Passed, InArray
<1>2. {s \in Passed(n) : ~Dead(s)} = Live /\ {s \in Passed(n) : Dead(s)} = InArray \ Live
  BY <1>1 DEF Live
<1>3. SweptTo(Sweep, n)
  BY SweepEnds
<1>4. qt_head # << >> => n # 0
  BY TimerFacts, EmptySeq
<1>5. Last(qt_head) = qt_head[n]
  BY DEF Last
<1> QED BY <1>2, <1>3, <1>4, <1>5 DEF SweptTo, SweepType

-----------------------------------------------------------------------------
LEMMA PeriodsKnown ==
  ASSUME TimerInv, NEW s \in Structs
  PROVE  /\ MaxPeriod \in Nat /\ GC_INTERVAL \in 1 .. MaxPeriod
         /\ timer[s] \in Timer
         /\ timer[s].period \in 1 .. MaxPeriod /\ timer[s].due \in 0 .. MaxPeriod
         /\ s \in Live => timer[s].due \in 1 .. timer[s].period
BY TimerAssumption DEF TimerInv, TimerTypeOK, DueWithinPeriod, Timer

LEMMA BlankIsTimer ==
  Blank \in Timer /\ [Blank EXCEPT !.times = Forever] \in Timer
BY TimerAssumption DEF Blank, Timer, TimerCount, Forever

\* A timer that is called is due again within its period.
LEMMA RearmIn ==
  ASSUME TimerInv, NEW s \in Live
  PROVE  Rearm(s) \in 1 .. timer[s].period
<1>1. s \in Structs
  BY TimerFacts DEF Live
<1> DEFINE d == timer[s].due
           p == timer[s].period
<1>2. d \in 1 .. p /\ p \in 1 .. MaxPeriod /\ MaxPeriod \in Nat
  BY <1>1, PeriodsKnown
<1>3. Rearm(s) = IF d - 1 <= 0 THEN d - 1 + p ELSE d - 1
  BY DEF Rearm, DueNow
<1> HIDE DEF d
<1> QED BY <1>2, <1>3

LEMMA TickKeeps ==
  ASSUME TimerInv, Tick
  PROVE  TimerInv'
<1>1. /\ qt_head' = Sweep.cells /\ qt_free' = Sweep.list
      /\ timer' = [s \in Structs |->
                     IF s \in Live THEN [timer[s] EXCEPT !.due = Rearm(s)]
                     ELSE IF s \in InArray THEN Blank ELSE timer[s]]
      /\ event' \in {"gc", "tick"}
      /\ UNCHANGED <<gc_interval, gc_timer_no>>
  BY DEF Tick
<1>2. /\ qt_head' \in Seq(Structs) /\ qt_free' \in Seq(Structs)
      /\ Lists(qt_head', Live) /\ Lists(qt_free', (InArray \ Live) \cup InList)
  BY <1>1, SweepGives
<1>3. InArray' = Live /\ InList' = (InArray \ Live) \cup InList
  BY <1>2 DEF Lists, InArray, InList
<1>4. Live \subseteq InArray /\ InArray \subseteq Structs
  BY TimerFacts DEF Live
<1>5. \A s \in Live : /\ timer'[s] \in Timer /\ timer'[s].times = timer[s].times
                      /\ timer'[s].period = timer[s].period /\ timer'[s].due = Rearm(s)
  <2> TAKE s \in Live
  <2>1. s \in Structs /\ timer'[s] = [timer[s] EXCEPT !.due = Rearm(s)] /\ timer[s] \in Timer
    BY <1>1, <1>4, PeriodsKnown
  <2>2. Rearm(s) \in 0 .. MaxPeriod
    BY <2>1, RearmIn, PeriodsKnown
  <2> QED BY <2>1, <2>2 DEF Timer
<1>6. timer' \in [Structs -> Timer]
  <2>1. \A s \in Structs \ Live : timer'[s] \in Timer
    BY <1>1, BlankIsTimer, PeriodsKnown
  <2>2. \A s \in Structs : timer'[s] \in Timer
    BY <1>5, <2>1
  <2> QED BY <1>1, <2>2
<1>7. TimerTypeOK'
  BY <1>1, <1>2, <1>6 DEF TimerInv, TimerTypeOK
<1>8. StructsApart'
  <2>1. InArray' \cap InList' = {}
    BY <1>3, <1>4, TimerFacts
  <2> QED BY <1>2, <2>1 DEF StructsApart, Lists
<1>9. DueWithinPeriod'
  <2>1. \A s \in Live' : s \in Live
    BY <1>3 DEF Live
  <2>2. \A s \in Live : timer'[s].due \in 1 .. timer'[s].period
    BY <1>5, RearmIn
  <2> QED BY <2>1, <2>2 DEF DueWithinPeriod
<1>10. CurrentIntervalRuns'
  <2> SUFFICES ASSUME gc_interval' > 0
               PROVE  /\ qt_head' # << >> /\ ~Dead(Last(qt_head))'
                      /\ timer'[Last(qt_head')].period = gc_interval'
    BY DEF CurrentIntervalRuns
  <2>1. /\ qt_head # << >> /\ ~Dead(Last(qt_head))
        /\ timer[Last(qt_head)].period = gc_interval
    BY <1>1 DEF TimerInv, CurrentIntervalRuns
  <2>2. qt_head' # << >> /\ Last(qt_head') = Last(qt_head)
    BY <1>1, <2>1, SweepGives
  <2>3. Last(qt_head) \in Live
    <3>1. Len(qt_head) \in 1 .. Len(qt_head)
      BY <2>1, TimerFacts, EmptySeq
    <3>2. Last(qt_head) \in InArray
      BY <3>1, TimerFacts DEF Last
    <3> QED BY <2>1, <3>2 DEF Live
  <2>4. timer'[Last(qt_head)].times # 0 /\ timer'[Last(qt_head)].period = gc_interval
    BY <1>5, <2>1, <2>3 DEF Dead
  <2> QED BY <1>1, <2>2, <2>4 DEF Dead
<1> QED BY <1>7, <1>8, <1>9, <1>10 DEF TimerInv

-----------------------------------------------------------------------------
\* qtimer_del ends timers and does nothing else to them.
LEMMA DeletedIs ==
  ASSUME TimerInv, NEW id
  PROVE  /\ Deleted(id) \in [Structs -> Timer]
         /\ \A s \in Structs :
              /\ Deleted(id)[s].due = timer[s].due /\ Deleted(id)[s].period = timer[s].period
              /\ Deleted(id)[s].times \in {0, timer[s].times}
<1>1. \A s \in Structs : timer[s] \in Timer
  BY PeriodsKnown
<1>2. \A s \in Structs : Deleted(id)[s] \in {timer[s], [timer[s] EXCEPT !.times = 0]}
  BY DEF Deleted
<1>3. \A s \in Structs : [timer[s] EXCEPT !.times = 0] \in Timer
  BY <1>1 DEF Timer
<1>4. Deleted(id) = [s \in Structs |-> Deleted(id)[s]]
  BY DEF Deleted
<1>5. \A s \in Structs : Deleted(id)[s] \in Timer
  BY <1>1, <1>2, <1>3
<1>6. \A s \in Structs :
        /\ Deleted(id)[s].due = timer[s].due /\ Deleted(id)[s].period = timer[s].period
        /\ Deleted(id)[s].times \in {0, timer[s].times}
  BY <1>1, <1>2 DEF Timer
<1> QED BY <1>4, <1>5, <1>6

\* What qtimer_add takes: no other timer's struct.
LEMMA TakenIs ==
  ASSUME TimerInv, NEW s \in StructTaken
  PROVE  /\ s \in Structs /\ s \notin InArray
         /\ ListAfter \in Seq(Structs) /\ Lists(ListAfter, InList \ {s})
<1>1. CASE qt_free = << >>
  <2>1. s \in Structs /\ s \notin InArray /\ s \notin InList /\ ListAfter = qt_free
    BY <1>1 DEF StructTaken, ListAfter
  <2>2. InList \ {s} = InList
    BY <2>1
  <2> QED BY <2>1, <2>2, TimerFacts
<1>2. CASE qt_free # << >>
  <2>1. s = Head(qt_free) /\ ListAfter = Tail(qt_free)
    BY <1>2 DEF StructTaken, ListAfter
  <2>2. Len(qt_free) \in Nat \ {0}
    BY <1>2, TimerFacts, EmptySeq
  <2>3. /\ Tail(qt_free) \in Seq(Structs) /\ Len(Tail(qt_free)) = Len(qt_free) - 1
        /\ \A i \in 1 .. Len(qt_free) - 1 : Tail(qt_free)[i] = qt_free[i + 1]
    BY <1>2, TimerFacts, HeadTailProperties
  <2>4. s = qt_free[1] /\ 1 \in 1 .. Len(qt_free)
    BY <2>1, <2>2, TimerFacts
  <2>5. s \in InList
    BY <2>4, TimerFacts, Places DEF InList
  <2>6. Lists(Tail(qt_free), InList \ {s})
    <3> DEFINE r == Tail(qt_free)
               at == [i \in 1 .. Len(r) |-> i + 1]
    <3>1. Len(r) = Len(qt_free) - 1 /\ r \in Seq(Structs)
      BY <2>3
    <3>2. \A i \in 1 .. Len(r) : r[i] = qt_free[i + 1]
      BY <2>3
    <3> HIDE DEF r
    <3>3. /\ at \in [1 .. Len(r) -> 1 .. Len(qt_free)]
          /\ \A i, j \in 1 .. Len(r) : at[i] = at[j] => i = j
      BY <2>2, <3>1
    <3>4. \A i \in 1 .. Len(r) : at[i] # 1 /\ r[i] = qt_free[at[i]]
      BY <2>2, <3>1, <3>2
    <3>5. \A k \in 1 .. Len(qt_free) : k # 1 => \E i \in 1 .. Len(r) : at[i] = k
      <4> TAKE k \in 1 .. Len(qt_free)
      <4> HAVE k # 1
      <4>1. k - 1 \in 1 .. Len(r) /\ at[k - 1] = k
        BY <2>2, <3>1
      <4> QED BY <4>1
    <3> HIDE DEF at
    <3>6. Lists(r, InList \ {qt_free[1]})
      BY <2>4, <3>1, <3>3, <3>4, <3>5, TimerFacts, ListedLess
    <3> QED BY <2>4, <3>6 DEF r
  <2> QED BY <2>1, <2>3, <2>5, <2>6, TimerFacts
<1> QED BY <1>1, <1>2

\* No timer is added: hash/setgcint 0.
LEMMA StopKeeps ==
  ASSUME TimerInv, SetGcInterval(0)
  PROVE  TimerInv'
<1>1. /\ gc_interval' = 0 /\ event' = "set" /\ gc_timer_no' = NoTimer
      /\ timer' = Deleted(gc_timer_no) /\ UNCHANGED <<qt_head, qt_free>>
  BY DEF SetGcInterval
<1>2. TimerTypeOK'
  <2>1. gc_interval' \in 0 .. MaxPeriod
    BY <1>1, TimerAssumption
  <2>2. timer' \in [Structs -> Timer]
    BY <1>1, DeletedIs
  <2> QED BY <1>1, <2>1, <2>2 DEF TimerInv, TimerTypeOK
<1>3. DueWithinPeriod'
  <2> SUFFICES ASSUME NEW s \in Live' PROVE timer'[s].due \in 1 .. timer'[s].period
    BY DEF DueWithinPeriod
  <2>1. s \in InArray /\ timer'[s].times # 0
    BY <1>1 DEF Live, Dead, InArray
  <2>2. s \in Structs
    BY <2>1, TimerFacts
  <2>3. s \in Live
    BY <1>1, <2>1, <2>2, DeletedIs DEF Live, Dead
  <2> QED BY <1>1, <2>2, <2>3, DeletedIs, PeriodsKnown
<1>4. StructsApart'
  BY <1>1 DEF TimerInv, StructsApart, InArray, InList
<1>5. CurrentIntervalRuns'
  BY <1>1 DEF CurrentIntervalRuns
<1> QED BY <1>2, <1>3, <1>4, <1>5 DEF TimerInv

LEMMA SetKeeps ==
  ASSUME TimerInv, NEW n \in 1 .. MaxPeriod, SetGcInterval(n)
  PROVE  TimerInv'
<1>n. n > 0 /\ n \in 0 .. MaxPeriod /\ n # 0
  BY TimerAssumption
<1> DEFINE t == Deleted(gc_timer_no)
           new == [id |-> TimerCount, period |-> n, due |-> n, times |-> TimesFor(0)]
<1>1. PICK s \in StructTaken :
        /\ qt_head' = Append(qt_head, s) /\ qt_free' = ListAfter
        /\ timer' = [t EXCEPT ![s] = new] /\ gc_timer_no' = TimerCount
        /\ gc_interval' = n /\ event' = "set"
  BY <1>n DEF SetGcInterval
<1>2. /\ s \in Structs /\ s \notin InArray
      /\ qt_free' \in Seq(Structs) /\ Lists(qt_free', InList \ {s})
  BY <1>1, TakenIs
<1>3. /\ t \in [Structs -> Timer]
      /\ \A u \in Structs : /\ t[u].due = timer[u].due /\ t[u].period = timer[u].period
                            /\ t[u].times \in {0, timer[u].times}
  BY DeletedIs
<1>4. new \in Timer /\ new.times # 0
  BY <1>n DEF Timer, TimesFor, Forever, TimerCount
<1>5. new.period = n /\ new.due = n
  OBVIOUS
<1> HIDE DEF t, new
<1>6. qt_head' \in Seq(Structs) /\ Lists(qt_head', InArray \cup {s})
  BY <1>1, <1>2, TimerFacts, AppendLists
<1>7. InArray' = InArray \cup {s} /\ InList' = InList \ {s}
  BY <1>2, <1>6 DEF Lists, InArray, InList
<1>8. /\ timer' \in [Structs -> Timer] /\ timer'[s] = new
      /\ \A u \in Structs : u # s => timer'[u] = t[u]
  BY <1>1, <1>2, <1>3, <1>4
<1>9. TimerTypeOK'
  BY <1>1, <1>2, <1>6, <1>8, <1>n DEF TimerTypeOK, TimerCount
<1>10. StructsApart'
  <2>1. InArray' \cap InList' = {}
    BY <1>7, TimerFacts
  <2> QED BY <1>2, <1>6, <2>1 DEF StructsApart, Lists
<1>11. DueWithinPeriod'
  <2> SUFFICES ASSUME NEW u \in Live' PROVE timer'[u].due \in 1 .. timer'[u].period
    BY DEF DueWithinPeriod
  <2>1. u \in InArray \cup {s} /\ timer'[u].times # 0
    BY <1>7 DEF Live, Dead
  <2>2. CASE u = s
    BY <1>5, <1>8, <2>2, <1>n
  <2>3. CASE u # s
    <3>1. u \in InArray /\ u \in Structs /\ timer'[u] = t[u]
      BY <1>8, <2>1, <2>3, TimerFacts
    <3>2. u \in Live
      BY <1>3, <2>1, <3>1 DEF Live, Dead
    <3> QED BY <1>3, <3>1, <3>2, PeriodsKnown
  <2> QED BY <2>2, <2>3
<1>12. CurrentIntervalRuns'
  <2>1. qt_head' # << >> /\ Last(qt_head') = s
    BY <1>1, <1>2, TimerFacts, AppendProperties DEF Last
  <2>2. ~Dead(s)'
    BY <1>4, <1>8 DEF Dead
  <2> QED BY <1>1, <1>5, <1>8, <2>1, <2>2 DEF CurrentIntervalRuns, Dead
<1> QED BY <1>9, <1>10, <1>11, <1>12 DEF TimerInv

LEMMA TimersStart == TimerInit => TimerInv
<1> SUFFICES ASSUME TimerInit PROVE TimerInv
  OBVIOUS
<1>1. PICK s \in Structs :
        /\ qt_head = <<s>> /\ qt_free = << >>
        /\ timer = [r \in Structs |-> IF r = s THEN [Blank EXCEPT !.times = Forever] ELSE Blank]
        /\ gc_interval = GC_INTERVAL /\ gc_timer_no = TimerCount /\ event = "set"
  <2>1. (CHOOSE r \in Structs : TRUE) \in Structs
    BY TimerAssumption
  <2> QED BY <2>1 DEF TimerInit
<1>2. /\ << >> \in Seq(Structs) /\ Lists(<< >>, {})
      /\ <<s>> \in Seq(Structs) /\ Len(<<s>>) = 1 /\ <<s>>[1] = s
  BY NothingListed
<1>3. ToSet(qt_head) = {s} /\ IsInjective(qt_head)
  <2>1. qt_head \in Seq(Structs) /\ Len(qt_head) = 1 /\ qt_head[1] = s
    BY <1>1, <1>2
  <2>2. \A i \in 1 .. Len(qt_head) : i = 1 /\ qt_head[i] = s
    BY <2>1
  <2>3. s \in ToSet(qt_head) /\ \A x \in ToSet(qt_head) : x = s
    BY <2>1, <2>2, Places
  <2>4. IsInjective(qt_head)
    BY <2>1, <2>2, Places
  <2> QED BY <2>3, <2>4
<1>4. ToSet(qt_free) = {} /\ IsInjective(qt_free)
  BY <1>1, <1>2 DEF Lists
<1>5. TimerTypeOK
  <2>1. timer \in [Structs -> Timer]
    BY <1>1, BlankIsTimer
  <2>2. gc_interval \in 0 .. MaxPeriod
    BY <1>1, TimerAssumption
  <2> QED BY <1>1, <1>2, <2>1, <2>2 DEF TimerTypeOK
<1>6. StructsApart
  BY <1>3, <1>4 DEF StructsApart, InArray, InList
<1>7. /\ timer[s].period = GC_INTERVAL /\ timer[s].due = GC_INTERVAL
      /\ timer[s].times = Forever /\ Forever # 0
  BY <1>1 DEF Blank, Forever
<1>8. DueWithinPeriod
  <2>1. \A u \in Live : u = s
    BY <1>3 DEF Live, InArray
  <2>2. GC_INTERVAL \in 1 .. GC_INTERVAL
    BY TimerAssumption
  <2> QED BY <1>7, <2>1, <2>2 DEF DueWithinPeriod
<1>9. CurrentIntervalRuns
  <2>1. Last(qt_head) = s /\ qt_head # << >>
    BY <1>1, <1>2 DEF Last
  <2> QED BY <1>1, <1>7, <2>1 DEF CurrentIntervalRuns, Dead
<1> QED BY <1>5, <1>6, <1>8, <1>9 DEF TimerInv

(***************************************************************************)
(* The inductive invariant holds, for any number of timer structs and any  *)
(* intervals: ticks of sig_alarm and hash/setgcint in any order.           *)
(***************************************************************************)
THEOREM TimersInvariant == TimerSpec => []TimerInv
<1>1. TimerInv /\ [TimerNext]_timerVars => TimerInv'
  <2> SUFFICES ASSUME TimerInv, [TimerNext]_timerVars PROVE TimerInv'
    OBVIOUS
  <2>1. CASE UNCHANGED timerVars
    BY <2>1 DEF timerVars, TimerInv, TimerTypeOK, StructsApart, DueWithinPeriod, CurrentIntervalRuns,
                InArray, InList, Live, Dead
  <2>2. CASE Tick
    BY <2>2, TickKeeps
  <2>3. ASSUME NEW n \in 0 .. MaxPeriod, SetGcInterval(n) PROVE TimerInv'
    <3>1. CASE n = 0
      BY <2>3, <3>1, StopKeeps
    <3>2. CASE n # 0
      <4>1. n \in 1 .. MaxPeriod
        BY <3>2, TimerAssumption
      <4> QED BY <2>3, <4>1, SetKeeps
    <3> QED BY <3>1, <3>2
  <2> QED BY <2>1, <2>2, <2>3 DEF TimerNext
<1> QED BY <1>1, TimersStart, PTL DEF TimerSpec

(***************************************************************************)
(* The timers keep their types: the count down of a live one fits.         *)
(***************************************************************************)
THEOREM TimersTyped == TimerSpec => []TimerTypeOK
<1>1. TimerInv => TimerTypeOK
  BY DEF TimerInv
<1> QED BY <1>1, TimersInvariant, PTL

(***************************************************************************)
(* sig_alarm and qtimer_add never give one struct to two timers.           *)
(***************************************************************************)
THEOREM StructsStayApart == TimerSpec => []StructsApart
<1>1. TimerInv => StructsApart
  BY DEF TimerInv
<1> QED BY <1>1, TimersInvariant, PTL

(***************************************************************************)
(* No live timer waits for longer than its period.                         *)
(***************************************************************************)
THEOREM TimersFallDue == TimerSpec => []DueWithinPeriod
<1>1. TimerInv => DueWithinPeriod
  BY DEF TimerInv
<1> QED BY <1>1, TimersInvariant, PTL

(***************************************************************************)
(* The timer that hash_set_gc_interval added last is never ended by a      *)
(* later qtimer_del of the same id.                                        *)
(***************************************************************************)
THEOREM IntervalStaysInForce == TimerSpec => []CurrentIntervalRuns
<1>1. TimerInv => CurrentIntervalRuns
  BY DEF TimerInv
<1> QED BY <1>1, TimersInvariant, PTL
=============================================================================
