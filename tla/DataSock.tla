------------------------------ MODULE DataSock ------------------------------
(***************************************************************************)
(* The connections of winvde_switch and its main loop: winvde_datasock.c   *)
(* (a client connects, asks for a port, gets a data socket, disconnects),  *)
(* the management connections of winvde_mgmt.c, and the poll loop of       *)
(* winvde_switch.c that calls their handlers, over the descriptor table.   *)
(*                                                                         *)
(* Whether a port can be had is SwitchPorts' matter and is open here.  A   *)
(* client sends one request, as libwinvdeplug_vde does.  Every switch that *)
(* gets to the main loop has a console: --nostdin sets a flag that nobody  *)
(* tests, and --daemon ends the process.                                   *)
(***************************************************************************)
EXTENDS Descriptors, FiniteSets

CONSTANTS
  Endpoints,  \* the memory endpoints live in
  CtlFd,      \* the listening socket of winvde_datasock
  MgmtFd,     \* the listening socket of winvde_mgmt
  MaxLeaked,  \* bound: data sockets left open by refused requests
  MaxClients, \* bound: control connections at a time
  MaxMgmt     \* bound: management connections at a time

ASSUME DataSockAssumption ==
  /\ Standing = {CtlFd, INVALID_SOCKET, MgmtFd}
  /\ CtlFd # MgmtFd /\ INVALID_SOCKET \notin {CtlFd, MgmtFd}
  /\ Fds \cap Standing = {}
  /\ Types = {"ctl_type", "wd_type", "data_type", "console_type", "mgmt_ctl", "mgmt_data"}
  /\ Prio = {"data_type"}
  /\ Reads = {"wd_type", "data_type"}
  /\ NULL \notin Endpoints
  /\ MaxLeaked \in Nat /\ MaxClients \in Nat /\ MaxMgmt \in Nat

VARIABLES
  up,        \* the process runs
  t,         \* the descriptor table
  ep,        \* the endpoints: ep[x] is NULL or the sockets of x
  asked,     \* control connections that have sent their request
  leaked,    \* data sockets left open without an entry
  pollable,  \* the descriptors of pollable_fds
  lastcount  \* last_descriptor_count

vars == <<up, t, ep, asked, leaked, pollable, lastcount>>

-----------------------------------------------------------------------------
Live == {x \in Endpoints : ep[x] # NULL}

\* Socket numbers in use; the system hands out any other.
Open == Registered(t) \cup leaked

Free == Fds \ Open

\* The entry of f, in fds and in fdpp.
EntryOf(f) == t.fds[CHOOSE i \in 1 .. Size(t) : t.fds[i].fd = f]

WithType(type) == {i \in 1 .. Size(t) : t.fds[i].type = type}

NewEntry(f, type, d) == [fd |-> f, type |-> type, private |-> d]

(***************************************************************************)
(* The main loop calls a handler for a descriptor of its array, and goes   *)
(* back to the poll as soon as one changes the number of descriptors.      *)
(***************************************************************************)
HandlesAnyway(f, type) ==
  /\ up
  /\ f \in pollable
  /\ \E i \in WithType(type) : t.fds[i].fd = f

Handles(f, type) == HandlesAnyway(f, type) /\ lastcount = Size(t)

\* The array is made again when the number of descriptors has changed.
Stale == lastcount # Size(t)

\* The console's entry counts, and has no place in the array.
Poll ==
  /\ up
  /\ Stale
  /\ pollable' = Registered(t) \ {INVALID_SOCKET}
  /\ lastcount' = Size(t)
  /\ UNCHANGED <<up, t, ep, asked, leaked>>

\* Memory is used that is not, or no longer, the program's.
Fault == up' = FALSE /\ UNCHANGED <<t, ep, asked, leaked, pollable, lastcount>>

Init ==
  /\ up = TRUE
  /\ t = AddFd(AddFd(AddFd(EmptyTable, NewEntry(CtlFd, "ctl_type", NULL)),
                     NewEntry(INVALID_SOCKET, "console_type", NULL)),
               NewEntry(MgmtFd, "mgmt_ctl", NULL))
  /\ ep = [x \in Endpoints |-> NULL]
  /\ asked = {}
  /\ leaked = {}
  /\ pollable = {}
  /\ lastcount = 0

\* A client connects to the data socket module, or a manager to the management.
Accept(f, type) ==
  /\ \/ /\ type = "wd_type" /\ Handles(CtlFd, "ctl_type")
        /\ Cardinality(WithType("wd_type")) < MaxClients
     \/ /\ type = "mgmt_data" /\ Handles(MgmtFd, "mgmt_ctl")
        /\ Cardinality(WithType("mgmt_data")) < MaxMgmt
  /\ f \in Free
  /\ t' = AddFd(t, NewEntry(f, type, NULL))
  /\ UNCHANGED <<up, ep, asked, leaked, pollable, lastcount>>

(***************************************************************************)
(* A request that is malformed or of another version, or whose client      *)
(* socket cannot be reached: the connection is removed (new_port_v1_v3 and *)
(* its caller both try).                                                   *)
(***************************************************************************)
RequestInvalid(w) ==
  /\ Handles(w, "wd_type") /\ w \notin asked
  /\ t' = RemoveFd(RemoveFd(t, w), w)
  /\ UNCHANGED <<up, ep, asked, leaked, pollable, lastcount>>

(***************************************************************************)
(* recv fails on a control connection.  len is unsigned, so -1 is neither  *)
(* negative nor zero, and reqbuf[len] = 0 is written 4 GB further on.      *)
(***************************************************************************)
RequestRecvFails(w) == Handles(w, "wd_type") /\ Fault

\* setup_ep refuses: the connection is removed, the data socket stays open.
RequestRefused(w, d) ==
  /\ Handles(w, "wd_type") /\ w \notin asked
  /\ d \in Free
  /\ Cardinality(leaked) < MaxLeaked
  /\ t' = RemoveFd(t, w)
  /\ leaked' = leaked \cup {d}
  /\ UNCHANGED <<up, ep, asked, pollable, lastcount>>

(***************************************************************************)
(* The data socket cannot be bound, or its name not be sent: close_ep      *)
(* removes both sockets of the new endpoint, the caller removes w again.   *)
(***************************************************************************)
RequestFails(w, d) ==
  /\ Handles(w, "wd_type") /\ w \notin asked
  /\ d \in Free
  /\ \E x \in Endpoints \ Live :
       t' = RemoveFd(RemoveFd(RemoveFd(AddFd(t, NewEntry(d, "data_type", x)), d), w), w)
  /\ UNCHANGED <<up, ep, asked, leaked, pollable, lastcount>>

\* A request that is granted: handle_io tells the connection its endpoint.
RequestGranted(w, d) ==
  /\ Handles(w, "wd_type") /\ w \notin asked
  /\ d \in Free
  /\ \E x \in Endpoints \ Live :
       /\ t' = SetPrivateData(AddFd(t, NewEntry(d, "data_type", x)), w, x)
       /\ ep' = [ep EXCEPT ![x] = [fd_ctl |-> w, fd_data |-> d]]
  /\ asked' = asked \cup {w}
  /\ UNCHANGED <<up, leaked, pollable, lastcount>>

(***************************************************************************)
(* close_ep, rec_close_ep and delep: the endpoint of the port that has the *)
(* control socket loses both sockets and is freed.  It need not be the one *)
(* asked for when an older endpoint kept a number that was used again.     *)
(***************************************************************************)
CloseEp(x) ==
  \E y \in Live :
    /\ ep[y].fd_ctl = ep[x].fd_ctl
    /\ t' = RemoveFd(RemoveFd(t, ep[y].fd_data), ep[y].fd_ctl)
    /\ ep' = [ep EXCEPT ![y] = NULL]
    /\ asked' = asked \cap Registered(t')
    /\ UNCHANGED <<up, leaked, pollable, lastcount>>

\* The client closes its control connection.
Eof(w) ==
  LET x == EntryOf(w).private IN
  /\ Handles(w, "wd_type")
  /\ \/ /\ x = NULL
        /\ t' = RemoveFd(t, w)
        /\ asked' = asked \ {w}
        /\ UNCHANGED <<up, ep, leaked, pollable, lastcount>>
     \/ x \in Live /\ CloseEp(x)
     \/ x # NULL /\ x \notin Live /\ Fault

\* A frame is read from a data socket for an endpoint that is freed.
FrameForFreed(d) ==
  /\ Handles(d, "data_type")
  /\ EntryOf(d).private \notin Live
  /\ Fault

(***************************************************************************)
(* A handler that calls add_fd for a new socket: realloc of fdperm may     *)
(* find its block damaged by the console's index, written in front of it.  *)
(***************************************************************************)
AddFdFaults ==
  /\ Free # {}
  /\ \/ Handles(CtlFd, "ctl_type")
     \/ Handles(MgmtFd, "mgmt_ctl")
     \/ \E w \in Fds \ asked : Handles(w, "wd_type")
  /\ Fault

\* A management connection ends, or gives a command that ends it.
MgmtClose(f) ==
  /\ Handles(f, "mgmt_data")
  /\ t' = RemoveFd(t, f)
  /\ UNCHANGED <<up, ep, asked, leaked, pollable, lastcount>>

\* port/epclose N ID on a management connection.
EpClose(f, x) ==
  /\ Handles(f, "mgmt_data")
  /\ x \in Live
  /\ CloseEp(x)

Next ==
  \/ Poll
  \/ \E f \in Fds, type \in {"wd_type", "mgmt_data"} : Accept(f, type)
  \/ \E w \in Fds : RequestInvalid(w) \/ RequestRecvFails(w) \/ Eof(w)
  \/ \E w \in Fds, d \in Fds : \/ RequestRefused(w, d)
                               \/ RequestFails(w, d)
                               \/ RequestGranted(w, d)
  \/ \E d \in Fds : FrameForFreed(d)
  \/ AddFdFaults
  \/ \E f \in Fds : MgmtClose(f)
  \/ \E f \in Fds, x \in Endpoints : EpClose(f, x)

Spec == Init /\ [][Next]_vars

-----------------------------------------------------------------------------
(***************************************************************************)
(* Type invariant; the lengths of the arrays stay in step.                 *)
(***************************************************************************)
TypeOK ==
  /\ up \in BOOLEAN
  /\ t.fds \in Seq(Entry(Endpoints))
  /\ t.nprio \in 0 .. Size(t)
  /\ t.fdperm \in [Fds \cup Standing -> Nat]
  /\ ep \in [Endpoints -> [fd_ctl : Fds, fd_data : Fds] \cup {NULL}]
  /\ asked \subseteq Registered(t) \cap Fds
  /\ leaked \subseteq Fds
  /\ pollable \subseteq (Fds \cup Standing) \ {INVALID_SOCKET}
  /\ lastcount \in Nat

(***************************************************************************)
(* add_fd and remove_fd keep the priority entries in front, in every order *)
(* of plugs, failures and disconnections: the position a new one takes is  *)
(* nprio, and fds[nprio] must not be one of them.                          *)
(***************************************************************************)
PrioFirst == \A i \in 1 .. Size(t) : IsPrio(t.fds[i]) <=> i <= t.nprio

(***************************************************************************)
(* "PERMUTATION ERROR" (winvde_switch.c:553, 561, 569, 577) is not printed *)
(* for a data socket, although remove_fd gives the last entry an index     *)
(* behind the end and add_fd moves an entry without telling fdperm: the    *)
(* poll mask that send_packet_port and handle_out_packet change is that of *)
(* the endpoint's own socket.  And mainloop_set_private_data stays inside  *)
(* fdpp, although the index of a waiting connection may lie behind the     *)
(* end: a grant adds an entry first.  Those are the numbers that are       *)
(* looked up; the console's index, which add_fd and remove_fd write in     *)
(* front of fdperm, is read by nobody.                                     *)
(***************************************************************************)
PrioPermutation ==
  /\ \A i \in 1 .. t.nprio : t.fdperm[t.fds[i].fd] = i
  /\ \A i \in WithType("wd_type") : t.fdperm[t.fds[i].fd] \in 1 .. Size(t) + 1

(***************************************************************************)
(* A descriptor has one entry, and none when it is closed, even though     *)
(* error paths remove a connection twice and close_ep removes by number.   *)
(***************************************************************************)
RegisteredOnce ==
  /\ \A i, j \in 1 .. Size(t) : t.fds[i].fd = t.fds[j].fd => i = j
  /\ Registered(t) \cap leaked = {}

(***************************************************************************)
(* The main loop makes its poll array again only when the NUMBER of        *)
(* descriptors has changed (winvde_switch.c:612).  No handler exchanges    *)
(* one descriptor for another, so the array holds all of them when polled, *)
(* less the console's.                                                     *)
(***************************************************************************)
PollsAll ==
  up /\ lastcount = Size(t) => pollable = Registered(t) \ {INVALID_SOCKET}

(***************************************************************************)
(* The main loop asserts fds[fdperm[fd]].fd == fd where it goes through    *)
(* fdperm (winvde_switch.c:553: "PERMUTATION ERROR"): so should the        *)
(* private data that a granted request sets be that of its connection.     *)
(***************************************************************************)
GrantFindsConnection ==
  [][\A w \in Fds : w \in asked' \ asked => t'.fds[t'.fdperm[w]].fd = w]_vars
=============================================================================
