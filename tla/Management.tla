------------------------------ MODULE Management ------------------------------
(***************************************************************************)
(* The sessions of winvde_mgmt.c (mgmt_handle_io, handle_cmd) and the      *)
(* debug classes they subscribe to (winvde_debugopt.c).  A manager asks    *)
(* for the messages of all classes that match a path; when its connection  *)
(* ends, in one of several ways, its number must be in no list, as the     *)
(* system gives the number to somebody else.                               *)
(*                                                                         *)
(* Commands that touch other components are theirs; here they succeed,     *)
(* fail (which answers an error) or return -1 (which ends the session).    *)
(* Running out of memory is left out.                                      *)
(***************************************************************************)
EXTENDS Naturals, Sequences, SequencesExt, FiniteSets

CONSTANTS
  Managers,   \* the numbers the system gives to management connections
  Paths,      \* what is written behind debug/add, debug/del and debug/list
  Classes,    \* the debug classes
  Helped,     \* those with a help text; the others are for events only
  Matching,   \* Matching[p]: the classes whose path begins with p
  AnyPath     \* the empty path, which mgmt_handle_io uses

\* debugadd reserves DBGCLSTEP entries of half their size, so four fit.
DBGCLSTEP == 8

ASSUME ManagementAssumption ==
  /\ Helped \subseteq Classes
  /\ Matching \in [Paths -> SUBSET Classes]
  /\ AnyPath \in Paths /\ Matching[AnyPath] = Classes
  /\ IsFiniteSet(Managers) /\ Cardinality(Managers) <= DBGCLSTEP \div 2

VARIABLES
  running,  \* the switch runs
  conns,    \* the connections in the descriptor table
  reset,    \* those the other side has reset
  fds,      \* fds[c]: the subscribers of class c, the array up to nfds
  asked,    \* history: the classes a connection has asked for and not withdrawn
  answer    \* the last command: who gave it, what it was, and the reply

mgmtVars == <<running, conns, reset, fds, asked, answer>>

NoAnswer == [who |-> AnyPath, command |-> "none", rv |-> "none", on |-> {}]

-----------------------------------------------------------------------------
(***************************************************************************)
(* debugadd and debugdel for descriptor f.  The array is filled at its end *)
(* and the last entry takes the place of a deleted one.                    *)
(***************************************************************************)
DebugAdd(t, f, path) ==
  [c \in Classes |-> IF c \in Matching[path] \cap Helped /\ ~Contains(t[c], f)
                     THEN Append(t[c], f) ELSE t[c]]

WithoutAt(s, i) == Front([s EXCEPT ![i] = Last(s)])

Without(s, f) ==
  IF Contains(s, f) THEN WithoutAt(s, CHOOSE i \in DOMAIN s : s[i] = f) ELSE s

\* A bug: the search stops at the first class that has the descriptor.
DebugDelFirst(t, f, path) ==
  LET having == {c \in Matching[path] : Contains(t[c], f)}
  IN  IF having = {} THEN t
      ELSE LET c == CHOOSE d \in having : TRUE IN [t EXCEPT ![c] = Without(@, f)]

DebugDel(t, f, path) ==
  [c \in Classes |-> IF c \in Matching[path] THEN Without(t[c], f) ELSE t[c]]

\* What the two answer.
AddAnswer(t, f, path) ==
  LET found == Matching[path] \cap Helped
  IN  IF found = {} THEN "EINVAL"
      ELSE IF \A c \in found : Contains(t[c], f) THEN "EEXIST" ELSE "0"

DelAnswer(t, f, path) ==
  LET found == Matching[path]
  IN  IF found = {} THEN "EINVAL"
      ELSE IF \A c \in found : ~Contains(t[c], f) THEN "ENOENT" ELSE "0"

\* debuglist: the classes it shows, and those it shows as ON.
Shown(path) == Matching[path] \cap Helped

ShownOn(t, f, path) == {c \in Shown(path) : Contains(t[c], f)}

-----------------------------------------------------------------------------
ManagementInit ==
  /\ running = TRUE
  /\ conns = {} /\ reset = {}
  /\ fds = [c \in Classes |-> << >>]
  /\ asked = [f \in Managers |-> {}]
  /\ answer = NoAnswer

Reply(f, command, rv, on) == answer' = [who |-> f, command |-> command, rv |-> rv, on |-> on]

\* A connection on which a line can be read.
Speaks(f) == running /\ f \in conns \ reset

\* mgmt_handle_io on the listening socket; MGMTPORTNEW has no subscriber.
MgmtAccept(f) ==
  /\ running /\ f \notin conns
  /\ conns' = conns \cup {f}
  /\ UNCHANGED <<running, reset, fds, asked, answer>>

(***************************************************************************)
(* The commands that handle_cmd finds here.                                *)
(***************************************************************************)
DebugAddCommand(f, path) ==
  /\ Speaks(f)
  /\ fds' = DebugAdd(fds, f, path)
  /\ asked' = [asked EXCEPT ![f] = @ \cup (Matching[path] \cap Helped)]
  /\ Reply(f, "debug/add", AddAnswer(fds, f, path), {})
  /\ UNCHANGED <<running, conns, reset>>

DebugDelCommand(f, path) ==
  /\ Speaks(f)
  /\ fds' = DebugDel(fds, f, path)
  /\ asked' = [asked EXCEPT ![f] = @ \ Matching[path]]
  /\ Reply(f, "debug/del", DelAnswer(fds, f, path), {})
  /\ UNCHANGED <<running, conns, reset>>

DebugListCommand(f, path) ==
  /\ Speaks(f)
  /\ Reply(f, "debug/list", IF Shown(path) = {} THEN "ENOENT" ELSE "0", ShownOn(fds, f, path))
  /\ UNCHANGED <<running, conns, reset, fds, asked>>

\* help and showinfo change nothing; a line that is no command is an error.
OtherCommand(f) ==
  /\ Speaks(f)
  /\ \E rv \in {"0", "EINVAL", "ENOSYS"} : Reply(f, "other", rv, {})
  /\ UNCHANGED <<running, conns, reset, fds, asked>>

\* The end of a connection: debugdel with the empty path, then remove_fd.
EndSession(f) ==
  /\ fds' = DebugDel(fds, f, AnyPath)
  /\ conns' = conns \ {f}
  /\ reset' = reset \ {f}
  /\ asked' = [asked EXCEPT ![f] = {}]

\* logout, and any handler that returns -1.
Logout(f) ==
  /\ Speaks(f)
  /\ EndSession(f)
  /\ Reply(f, "logout", "-1", {})
  /\ UNCHANGED running

\* shutdown: the session ends as with logout, then the process.
Shutdown(f) ==
  /\ Speaks(f)
  /\ EndSession(f)
  /\ Reply(f, "shutdown", "-2", {})
  /\ running' = FALSE

\* The manager closes: recv returns 0.
MgmtEof(f) ==
  /\ Speaks(f)
  /\ EndSession(f)
  /\ UNCHANGED <<running, answer>>

(***************************************************************************)
(* The manager's process dies: recv returns -1, and the handler returns    *)
(* without removing anything.  The number stays in use.                    *)
(***************************************************************************)
MgmtReset(f) ==
  /\ Speaks(f)
  /\ reset' = reset \cup {f}
  /\ UNCHANGED <<running, conns, fds, asked, answer>>

ManagementNext ==
  \E f \in Managers :
    \/ MgmtAccept(f) \/ OtherCommand(f) \/ Logout(f) \/ Shutdown(f)
    \/ MgmtEof(f) \/ MgmtReset(f)
    \/ \E path \in Paths :
         DebugAddCommand(f, path) \/ DebugDelCommand(f, path) \/ DebugListCommand(f, path)

ManagementSpec == ManagementInit /\ [][ManagementNext]_mgmtVars

-----------------------------------------------------------------------------
Answers == {"none", "0", "EINVAL", "ENOSYS", "EEXIST", "ENOENT", "-1", "-2"}

ManagementTypeOK ==
  /\ running \in BOOLEAN
  /\ conns \subseteq Managers /\ reset \subseteq conns
  /\ fds \in [Classes -> Seq(Managers)]
  /\ asked \in [Managers -> SUBSET Classes]
  /\ answer.rv \in Answers /\ answer.on \subseteq Classes

(***************************************************************************)
(* debugout writes a message to each entry of an array.  Each goes to      *)
(* exactly those connections that have asked for the class, once, and they *)
(* are open: no number is left in an array by any of the ways a session    *)
(* can end, by which somebody else would get the messages.                 *)
(***************************************************************************)
SubscribersAsAsked ==
  \A c \in Classes :
    /\ IsInjective(fds[c])
    /\ ToSet(fds[c]) = {f \in conns : c \in asked[f]}
=============================================================================
