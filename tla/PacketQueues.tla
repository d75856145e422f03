----------------------------- MODULE PacketQueues -----------------------------
(***************************************************************************)
(* The queues of winvde_packetq.c behind send_packet_port: a frame that an *)
(* endpoint's sender would block on waits in the endpoint's queue.  One    *)
(* copy of a frame is shared by all the queues it waits in and is freed    *)
(* with the last.  While a queue holds something, POLLOUT is in the events *)
(* of the endpoint's descriptor.                                           *)
(*                                                                         *)
(* A sender is a function of a module (struct mod_support); it says that   *)
(* it would block by returning -EWOULDBLOCK.  Endpoints of one flood are   *)
(* served in one call of handle_in_packet, one per form of the frame.      *)
(***************************************************************************)
EXTENDS Integers, Sequences, SequencesExt, FiniteSets

CONSTANTS
  Eps,       \* endpoints
  Buffers,   \* the memory packet buffers live in
  Lengths,   \* the queue lengths commands set
  StdLength  \* stdqlen at the start, 128 in the code

ASSUME QueuesAssumption ==
  IsFiniteSet(Eps) /\ Lengths \subseteq Nat /\ StdLength \in Lengths

VARIABLES
  eps,      \* the endpoints that exist
  q,        \* vdepq: the buffers that wait, first to last
  qcount,   \* vdepq_count
  qmax,     \* vdepq_max
  stdqlen,  \* vdepq_max of new endpoints
  pb,       \* count of each packet buffer, 0 when it is free
  pollout   \* the endpoints with POLLOUT in fds

queueVars == <<eps, q, qcount, qmax, stdqlen, pb, pollout>>

-----------------------------------------------------------------------------
QueuesInit ==
  /\ eps = {} /\ pollout = {}
  /\ q = [e \in Eps |-> << >>]
  /\ qcount = [e \in Eps |-> 0]
  /\ stdqlen = StdLength
  /\ qmax = [e \in Eps |-> stdqlen]
  /\ pb = [b \in Buffers |-> 0]

\* setup_ep
OpenEp(e) ==
  /\ e \notin eps
  /\ eps' = eps \cup {e}
  /\ q' = [q EXCEPT ![e] = << >>]
  /\ qcount' = [qcount EXCEPT ![e] = 0]
  /\ qmax' = [qmax EXCEPT ![e] = stdqlen]
  /\ UNCHANGED <<stdqlen, pb, pollout>>

\* How often buffer b is among the first n of queue s.
UsesIn(s, n, b) == Cardinality({i \in 1 .. n : s[i] = b})

\* A bug: a buffer is freed as soon as one queue has done with it.
LetGoAll(e, n) ==
  pb' = [b \in Buffers |-> IF UsesIn(q[e], n, b) > 0 THEN 0 ELSE pb[b]]

\* vdepq_del or vdepq_try let go of the first n buffers of e.
LetGo(e, n) == pb' = [b \in Buffers |-> pb[b] - UsesIn(q[e], n, b)]

\* rec_close_ep: vdepq_del, and the descriptor goes with its events.
CloseEpQueue(e) ==
  /\ e \in eps
  /\ eps' = eps \ {e}
  /\ LetGo(e, Len(q[e]))
  /\ q' = [q EXCEPT ![e] = << >>]
  /\ qcount' = [qcount EXCEPT ![e] = 0]
  /\ pollout' = pollout \ {e}
  /\ UNCHANGED <<qmax, stdqlen>>

(***************************************************************************)
(* A frame for the endpoints "to", where the senders of "blocked" would    *)
(* block.  Behind a frame that waits the sender is not asked.  A full      *)
(* queue drops the frame.  vdepq_add makes the buffer at its first call.   *)
(***************************************************************************)
SendPacket(to, blocked) ==
  LET waiting == {e \in to : qcount[e] # 0 \/ e \in blocked}
      added == {e \in waiting : qcount[e] < qmax[e]}
  IN  /\ added # {}
      /\ \E b \in {c \in Buffers : pb[c] = 0} :
           /\ q' = [e \in Eps |-> IF e \in added THEN Append(q[e], b) ELSE q[e]]
           /\ pb' = [pb EXCEPT ![b] = Cardinality(added)]
      /\ qcount' = [e \in Eps |-> IF e \in added THEN qcount[e] + 1 ELSE qcount[e]]
      /\ pollout' = pollout \cup {e \in added : qcount[e] = 0}
      /\ UNCHANGED <<eps, qmax, stdqlen>>

(***************************************************************************)
(* handle_out_packet: the first n frames are sent or fail for good, then   *)
(* the sender would block or the queue is empty.  It is called for any     *)
(* activity of the descriptor, as the handlers get no valid revents.       *)
(***************************************************************************)
HandleOutPacket(e, n) ==
  /\ e \in eps /\ n <= Len(q[e])
  /\ LetGo(e, n)
  /\ q' = [q EXCEPT ![e] = SubSeq(@, n + 1, Len(@))]
  /\ qcount' = [qcount EXCEPT ![e] = @ - n]
  /\ pollout' = IF qcount'[e] = 0 THEN pollout \ {e} ELSE pollout
  /\ UNCHANGED <<eps, qmax, stdqlen>>

\* defqlen and epqlen
SetDefaultLength(len) ==
  /\ stdqlen' = len
  /\ UNCHANGED <<eps, q, qcount, qmax, pb, pollout>>

SetLength(e, len) ==
  /\ e \in eps
  /\ qmax' = [qmax EXCEPT ![e] = len]
  /\ UNCHANGED <<eps, q, qcount, stdqlen, pb, pollout>>

QueuesNext ==
  \/ \E e \in Eps :
       \/ OpenEp(e) \/ CloseEpQueue(e)
       \/ \E n \in 0 .. Len(q[e]) : HandleOutPacket(e, n)
       \/ \E len \in Lengths : SetLength(e, len)
  \/ \E to \in SUBSET eps : \E blocked \in SUBSET to : SendPacket(to, blocked)
  \/ \E len \in Lengths : SetDefaultLength(len)

QueuesSpec == QueuesInit /\ [][QueuesNext]_queueVars

-----------------------------------------------------------------------------
QueuesTypeOK ==
  /\ eps \subseteq Eps /\ pollout \subseteq eps
  /\ q \in [Eps -> Seq(Buffers)]
  /\ qcount \in [Eps -> Nat]
  /\ qmax \in [Eps -> Lengths] /\ stdqlen \in Lengths
  /\ pb \in [Buffers -> Int]

(***************************************************************************)
(* No buffer is freed while a queue refers to it or kept when none does,   *)
(* whichever of the endpoints that share it close, send or change their    *)
(* length first; the count that decides between sending and queueing is    *)
(* the length of the queue; two frames never change places between two     *)
(* queues; and exactly the endpoints with something to send have POLLOUT   *)
(* in fds.                                                                 *)
(***************************************************************************)
BuffersCounted ==
  \A b \in Buffers : pb[b] = Cardinality({e \in Eps : Contains(q[e], b)})

InOrder(s, t) ==
  \A i, j \in DOMAIN s, k, l \in DOMAIN t :
    s[i] = t[k] /\ s[j] = t[l] /\ i < j => k < l

QueuesShareBuffers ==
  /\ BuffersCounted
  /\ \A e \in Eps :
       /\ IsInjective(q[e])
       /\ qcount[e] = Len(q[e])
       /\ e \in pollout <=> q[e] # << >>
       /\ \A f \in Eps : InOrder(q[e], q[f])
=============================================================================
