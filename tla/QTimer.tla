------------------------------- MODULE QTimer -------------------------------
(***************************************************************************)
(* The timers of winvde_switch (winvde_qtimer.c) and their one client, the *)
(* collector of old MAC addresses (winvde_gc.c, started in winvde_hash.c). *)
(* WM_TIMER calls sig_alarm once a second from the main loop's dispatch,   *)
(* so a tick and a command never overlap.  What the collector does when it *)
(* is called is MacTable's matter: here it returns.                        *)
(*                                                                         *)
(* A struct qt_timer is an element of Structs: in the array qt_head, in    *)
(* the list qt_free, or not allocated yet.  Times are relative to g_qtime. *)
(***************************************************************************)
EXTENDS Integers, SequencesExt

CONSTANTS
  Structs,    \* bound: the structs that malloc ever returns
  MaxPeriod,  \* bound: the longest interval that is set
  GC_INTERVAL

ASSUME TimerAssumption ==
  /\ Structs # {}
  /\ MaxPeriod \in Nat
  /\ GC_INTERVAL \in 1 .. MaxPeriod

VARIABLES
  qt_head,      \* the array's first active_timers cells
  qt_free,      \* the list linked through qt_arg, first element first
  timer,        \* the contents of the structs
  gc_interval,
  gc_timer_no,
  event         \* history: what happened last

timerVars == <<qt_head, qt_free, timer, gc_interval, gc_timer_no, event>>

Forever    == -1  \* UINT_MAX calls: the count down of qt_times is left out
NoTimer    == -1  \* what qtimer_add returns when it adds nothing
TimerCount == 0   \* timer_count, which nothing increments

Timer == [id : {TimerCount}, period : 1 .. MaxPeriod, due : 0 .. MaxPeriod,
          times : {0, Forever}]

InArray == ToSet(qt_head)
InList  == ToSet(qt_free)
Dead(s) == timer[s].times = 0
Live    == {s \in InArray : ~Dead(s)}

-----------------------------------------------------------------------------
(***************************************************************************)
(* sig_alarm: a dead timer goes to the free list and the others move up; a *)
(* timer that is due is called, here the collector, and due again.  What   *)
(* is in a struct of the list is not read again: Blank.                    *)
(***************************************************************************)
Blank == [id |-> TimerCount, period |-> GC_INTERVAL, due |-> GC_INTERVAL, times |-> 0]

DueNow(s) == timer[s].due - 1 <= 0

KeepDue(s) == timer[s].due - 1

Rearm(s) == IF DueNow(s) THEN timer[s].due - 1 + timer[s].period ELSE timer[s].due - 1

\* A round of the loop, with the cells and the list as it finds them.
Swept(at, s) ==
  IF Dead(s) THEN [at EXCEPT !.list = <<s>> \o @] ELSE [at EXCEPT !.cells = Append(@, s)]

Sweep ==
  LET after[i \in 0 .. Len(qt_head)] ==
        IF i = 0 THEN [cells |-> << >>, list |-> qt_free]
        ELSE Swept(after[i - 1], qt_head[i])
  IN  after[Len(qt_head)]

Tick ==
  /\ qt_head' = Sweep.cells
  /\ qt_free' = Sweep.list
  /\ timer' = [s \in Structs |->
                 IF s \in Live THEN [timer[s] EXCEPT !.due = Rearm(s)]
                 ELSE IF s \in InArray THEN Blank ELSE timer[s]]
  /\ event' = IF \E s \in Live : DueNow(s) THEN "gc" ELSE "tick"
  /\ UNCHANGED <<gc_interval, gc_timer_no>>

(***************************************************************************)
(* qtimer_del: the first timer with the id dies, dead already or not.      *)
(***************************************************************************)
Deleted(id) ==
  LET matches == {i \in DOMAIN qt_head : timer[qt_head[i]].id = id} IN
  [s \in Structs |->
     IF \E i \in matches : qt_head[i] = s /\ \A j \in matches : i <= j
     THEN [timer[s] EXCEPT !.times = 0]
     ELSE timer[s]]

(***************************************************************************)
(* qtimer_add takes the struct from the list, or a new one; times is 0 for *)
(* a timer that is called for ever.                                        *)
(***************************************************************************)
TimesAsGiven(times) == times

TimesFor(times) == IF times = 0 THEN Forever ELSE times

StructTaken == IF qt_free = <<>> THEN Structs \ (InArray \cup InList) ELSE {Head(qt_free)}

ListKept == qt_free

ListAfter == IF qt_free = <<>> THEN <<>> ELSE Tail(qt_free)

\* hash/setgcint N.  Nothing is added for an interval that is not positive.
SetGcInterval(n) ==
  /\ gc_interval' = n
  /\ event' = "set"
  /\ IF n > 0
     THEN \E s \in StructTaken :
            /\ qt_head' = Append(qt_head, s)
            /\ qt_free' = ListAfter
            /\ timer' = [Deleted(gc_timer_no) EXCEPT
                           ![s] = [id |-> TimerCount, period |-> n, due |-> n,
                                   times |-> TimesFor(0)]]
            /\ gc_timer_no' = TimerCount
     ELSE /\ timer' = Deleted(gc_timer_no)
          /\ gc_timer_no' = NoTimer
          /\ UNCHANGED <<qt_head, qt_free>>

\* HashInit starts the collector; it makes no difference which struct malloc returns.
TimerInit ==
  LET s == CHOOSE r \in Structs : TRUE IN
    /\ qt_head = <<s>>
    /\ qt_free = <<>>
    /\ timer = [r \in Structs |-> IF r = s THEN [Blank EXCEPT !.times = Forever] ELSE Blank]
    /\ gc_interval = GC_INTERVAL
    /\ gc_timer_no = TimerCount
    /\ event = "set"

TimerNext == Tick \/ \E n \in 0 .. MaxPeriod : SetGcInterval(n)

TimerSpec == TimerInit /\ [][TimerNext]_timerVars

-----------------------------------------------------------------------------
(***************************************************************************)
(* Type invariant.                                                         *)
(***************************************************************************)
TimerTypeOK ==
  /\ qt_head \in Seq(Structs)
  /\ qt_free \in Seq(Structs)
  /\ timer \in [Structs -> Timer]
  /\ gc_interval \in 0 .. MaxPeriod
  /\ gc_timer_no \in {TimerCount, NoTimer}
  /\ event \in {"gc", "tick", "set"}

(***************************************************************************)
(* A struct is in one place: sig_alarm recycles the dead timers while it   *)
(* moves the others up, and qtimer_add takes a struct off the list that    *)
(* the same tick may have made.  Otherwise two timers share a struct.      *)
(***************************************************************************)
StructsApart ==
  /\ IsInjective(qt_head)
  /\ IsInjective(qt_free)
  /\ InArray \cap InList = {}

(***************************************************************************)
(* A live timer is called within its period, over any changes of interval. *)
(***************************************************************************)
DueWithinPeriod == \A s \in Live : timer[s].due \in 1 .. timer[s].period

(***************************************************************************)
(* The interval set last is in force: qtimer_del, which goes by an id that *)
(* all timers share, never ends the timer added last.                      *)
(***************************************************************************)
CurrentIntervalRuns ==
  gc_interval > 0 =>
    /\ qt_head # <<>>
    /\ ~Dead(Last(qt_head))
    /\ timer[Last(qt_head)].period = gc_interval

(***************************************************************************)
(* The collector is called again and again, as long as the interval is     *)
(* positive and is not set anew for ever; ticks come for ever, since       *)
(* WM_TIMER does as long as the main loop takes its messages.              *)
(***************************************************************************)
GcKeepsRunning == []<>(gc_interval = 0 \/ event \in {"gc", "set"})

(***************************************************************************)
(* "change garbage collector interval" (winvde_hash.c:80): the collector   *)
(* is called at the interval that was set and at no other.                 *)
(***************************************************************************)
OnlyCurrentInterval == \A s \in Live : timer[s].period = gc_interval
=============================================================================
