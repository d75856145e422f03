---------------------------- MODULE Descriptors ----------------------------
(***************************************************************************)
(* The descriptor table of winvde_switch (winvde_descriptor.c): the arrays *)
(* fds and fdpp, which add_fd and remove_fd keep in step and which are one *)
(* sequence of entries here, the number nprio of priority entries, and     *)
(* fdperm, the index from a descriptor to its position.                    *)
(*                                                                         *)
(* A table is a record and the operations are functions on tables, since   *)
(* a handler of the main loop calls several of them.  Positions count from *)
(* 1; fdperm holds 0 for a descriptor that was never added.                *)
(*                                                                         *)
(* The console is added with INVALID_SOCKET for its number.  fdperm is not *)
(* enlarged for it, and as an index it is -1: the cell of INVALID_SOCKET   *)
(* is the two bytes in front of the block, which the system's memory       *)
(* management owns.  What may come of that is DataSock's AddFdFaults.      *)
(***************************************************************************)
EXTENDS Integers, Sequences

CONSTANTS
  Fds,      \* socket numbers that come and go
  Standing, \* entries made before the main loop, never removed
  INVALID_SOCKET, \* the number of the console's entry, one of Standing
  Prio,     \* types made by add_type with the priority flag
  Reads,    \* types whose handler reads the private data
  Types,
  NULL

ASSUME DescriptorsAssumption ==
  /\ Prio \subseteq Types /\ Reads \subseteq Types
  /\ INVALID_SOCKET \in Standing

Entry(D) == [fd : Fds \cup Standing, type : Types, private : D \cup {NULL}]

Size(t) == Len(t.fds)

IsPrio(e) == e.type \in Prio

EmptyTable == [fds |-> <<>>, nprio |-> 0, fdperm |-> [f \in Fds \cup Standing |-> 0]]

Registered(t) == {t.fds[i].fd : i \in 1 .. Size(t)}

(***************************************************************************)
(* add_fd: a priority entry takes the place of the first other one, which  *)
(* moves to the end and keeps its old value in fdperm.  fdperm is written  *)
(* for every number, INVALID_SOCKET as well.                               *)
(***************************************************************************)
PositionAtEnd(t, e) == Size(t) + 1

Position(t, e) == IF IsPrio(e) THEN t.nprio + 1 ELSE Size(t) + 1

AddFd(t, e) ==
  [fds    |-> [i \in 1 .. Size(t) + 1 |->
                 IF i = Position(t, e) THEN e
                 ELSE IF i = Size(t) + 1 THEN t.fds[Position(t, e)]
                 ELSE t.fds[i]],
   nprio  |-> IF IsPrio(e) THEN t.nprio + 1 ELSE t.nprio,
   fdperm |-> [t.fdperm EXCEPT ![e.fd] = Position(t, e)]]

(***************************************************************************)
(* remove_fd, after the cleanup of the entry: the entries behind it move   *)
(* up.  The loop over fdperm runs one position too far and there finds the *)
(* copy of the last entry that memmove leaves, so the last descriptor's    *)
(* index becomes the position behind the new end.  The index of the        *)
(* removed descriptor is not read before add_fd sets it again: 0.          *)
(***************************************************************************)
PermKept(t, i) == [t.fdperm EXCEPT ![t.fds[i].fd] = 0]

PermMovedUp(t, i) ==
  [f \in DOMAIN t.fdperm |->
     LET behind == {j \in i + 1 .. Size(t) : t.fds[j].fd = f} IN
     IF f = t.fds[i].fd THEN 0
     ELSE IF behind = {} THEN t.fdperm[f]
     ELSE IF Size(t) \in behind THEN Size(t)
     ELSE (CHOOSE j \in behind : TRUE) - 1]

PrioKept(t, i) == t.nprio

PrioLeft(t, i) == IF IsPrio(t.fds[i]) THEN t.nprio - 1 ELSE t.nprio

\* What comes to position j when the entries behind move up.
MovesUpButLast(t, j) == IF j + 1 = Size(t) THEN j ELSE j + 1

MovesUp(t, j) == j + 1

RemoveAt(t, i) ==
  [fds    |-> [j \in 1 .. Size(t) - 1 |->
                 IF j < i THEN t.fds[j] ELSE t.fds[MovesUp(t, j)]],
   nprio  |-> PrioLeft(t, i),
   fdperm |-> PermMovedUp(t, i)]

\* A descriptor that is not in the table is only warned about.
RemoveFd(t, f) ==
  IF f \in Registered(t)
  THEN RemoveAt(t, CHOOSE i \in 1 .. Size(t) :
                     t.fds[i].fd = f /\ \A j \in 1 .. i - 1 : t.fds[j].fd # f)
  ELSE t

(***************************************************************************)
(* mainloop_set_private_data: the entry is the one fdperm points at.  What *)
(* no handler reads stays NULL here.                                       *)
(***************************************************************************)
SetPrivateData(t, f, d) ==
  [t EXCEPT !.fds =
     [i \in DOMAIN @ |-> IF i = t.fdperm[f] /\ @[i].type \in Reads
                         THEN [@[i] EXCEPT !.private = d]
                         ELSE @[i]]]

=============================================================================
