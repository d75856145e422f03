---------------------------------- MODULE Tap ----------------------------------
(***************************************************************************)
(* The tap interfaces of winvde_tuntap.c.  newtap takes what it needs one  *)
(* thing after the other; a failure jumps to the label behind which the    *)
(* things it has are given back.  The driver (wintun) and its address are  *)
(* the system's.  init_mods opens the taps of the command line; later port *)
(* commands may close their endpoints.                                     *)
(***************************************************************************)
EXTENDS Naturals, Sequences, SequencesExt, FiniteSets

CONSTANT Taps   \* what can be written behind -t

ASSUME TapAssumption == IsFiniteSet(Taps)

VARIABLES
  hinit_tap,     \* the taps of the command line, until they have been opened
  started,       \* taptun_init has been called
  opening,       \* the taps it has yet to open
  adapterIndex,  \* the number of taps that were opened
  held,          \* held[t]: what tap t has
  tapFds         \* the taps in the descriptor table, which are all polled first

tapVars == <<hinit_tap, started, opening, adapterIndex, held, tapFds>>

\* What newtap takes, in order.
Taken == <<"adapter", "address", "session", "socket", "connection", "endpoint">>

-----------------------------------------------------------------------------
TapInit ==
  /\ hinit_tap = << >> /\ opening = << >>
  /\ started = FALSE
  /\ adapterIndex = 0
  /\ held = [t \in Taps |-> {}]
  /\ tapFds = << >>

\* taptun_parseopt, add_init_tap: the tap goes to the end of the list.
TapOption(t) ==
  /\ ~started /\ ~Contains(hinit_tap, t)
  /\ hinit_tap' = Append(hinit_tap, t)
  /\ UNCHANGED <<started, opening, adapterIndex, held, tapFds>>

TaptunInit ==
  /\ ~started
  /\ started' = TRUE
  /\ opening' = hinit_tap
  /\ UNCHANGED <<hinit_tap, adapterIndex, held, tapFds>>

\* A bug: a failure of connect jumps to cleanupAdapter.
GivenBackLate(k) ==
  (IF k >= 6 THEN {"socket", "connection", "session"} ELSE {}) \cup
  (IF k >= 2 THEN {"adapter", "address"} ELSE {})

(***************************************************************************)
(* What is given back when step k of Taken fails: all behind cleanupSocket *)
(* (5, 6), cleanupSession (4), cleanupAdapter (2, 3) or cleanupQuit (1).   *)
(* The system takes the address back with the adapter.                     *)
(***************************************************************************)
GivenBack(k) ==
  (IF k >= 5 THEN {"socket", "connection"} ELSE {}) \cup
  (IF k >= 4 THEN {"session"} ELSE {}) \cup
  (IF k >= 2 THEN {"adapter", "address"} ELSE {})

\* taptun_init goes to the next tap, and frees the list behind the last.
NextTap ==
  /\ opening' = Tail(opening)
  /\ hinit_tap' = IF Len(opening) = 1 THEN << >> ELSE hinit_tap
  /\ UNCHANGED started

NewTap ==
  /\ opening # << >>
  /\ held' = [held EXCEPT ![Head(opening)] = ToSet(Taken)]
  /\ tapFds' = <<Head(opening)>> \o tapFds
  /\ adapterIndex' = adapterIndex + 1
  /\ NextTap

NewTapFails(k) ==
  /\ opening # << >>
  /\ held' = [held EXCEPT ![Head(opening)] = ToSet(SubSeq(Taken, 1, k - 1)) \ GivenBack(k)]
  /\ UNCHANGED <<adapterIndex, tapFds>>
  /\ NextTap

(***************************************************************************)
(* taptun_delep: remove_fd calls taptun_cleanup, which looks the socket up *)
(* in hinit_tap and finds nothing, so everything but the endpoint stays.   *)
(* (taptun_handle_io looks there too, and so does nothing.)                *)
(***************************************************************************)
CloseTap(t) ==
  /\ opening = << >>
  /\ \E i \in DOMAIN tapFds : tapFds[i] = t /\ tapFds' = RemoveAt(tapFds, i)
  /\ held' = [held EXCEPT ![t] = IF Contains(hinit_tap, t) THEN {} ELSE @ \ {"endpoint"}]
  /\ UNCHANGED <<hinit_tap, started, opening, adapterIndex>>

TapNext ==
  \/ TaptunInit \/ NewTap
  \/ \E t \in Taps : TapOption(t) \/ CloseTap(t)
  \/ \E k \in DOMAIN Taken : NewTapFails(k)

TapSpec == TapInit /\ [][TapNext]_tapVars

-----------------------------------------------------------------------------
TapTypeOK ==
  /\ hinit_tap \in Seq(Taps) /\ opening \in Seq(Taps) /\ tapFds \in Seq(Taps)
  /\ started \in BOOLEAN /\ adapterIndex \in 0 .. Cardinality(Taps)
  /\ held \in [Taps -> SUBSET ToSet(Taken)]

(***************************************************************************)
(* Whatever fails in newtap, a tap has all of its resources or none; it is *)
(* in the descriptor table exactly while it has an endpoint; and the next  *)
(* tap is opened as an adapter of its own.                                 *)
(***************************************************************************)
TapsWhole ==
  /\ \A t \in Taps : held[t] \in {{}, ToSet(Taken), ToSet(Taken) \ {"endpoint"}}
  /\ ToSet(tapFds) = {t \in Taps : "endpoint" \in held[t]}
  /\ IsInjective(tapFds)
  /\ adapterIndex = Cardinality({t \in Taps : held[t] # {}})
=============================================================================
