----------------------------- MODULE Forwarding -----------------------------
(***************************************************************************)
(* What the switch sends for a frame: the second half of handle_in_packet  *)
(* of winvde_port.c, over the tables of SwitchPorts.                       *)
(*                                                                         *)
(* A frame is the sequence of its 4-byte words: three of addresses, the    *)
(* tag when there is one, the rest.  TAG2UNTAG and UNTAG2TAG move the      *)
(* addresses by one word and are modelled by the words they leave.  The    *)
(* build is the one with VDE_PQ2, the only one that links (the other calls *)
(* packetfilter, which nothing defines).  Packet filters, which only       *)
(* plugins install, are left out.                                          *)
(***************************************************************************)
EXTENDS SwitchPorts, Sequences

Tag(v) == <<"0x8100", v>>

Untagged  == <<"dst0", "dst4_src0", "src2", "rest">>
Tagged(v) == <<"dst0", "dst4_src0", "src2", Tag(v), "rest">>

\* The frame with tag t, as in FrameVlan.
Frame(t) == IF t = NOVLAN THEN Untagged ELSE Tagged(t)

(***************************************************************************)
(* TAG2UNTAG: the addresses move up by a word, over what is there.         *)
(***************************************************************************)
Tag2UntagKeeps(f) == f

Tag2Untag(f) == [i \in 1 .. Len(f) - 1 |-> IF i <= 3 THEN f[i] ELSE f[i + 1]]

(***************************************************************************)
(* UNTAG2TAG: the addresses move down by a word, which leaves the last of  *)
(* them doubled.  The macro's first statement is the one assigned to       *)
(* packet, so that the tag is written into the moved source address.       *)
(***************************************************************************)
Untag2Tag(f, v) ==
  [i \in 1 .. Len(f) + 1 |-> IF i = 3 THEN Tag(v) ELSE IF i <= 2 THEN f[i] ELSE f[i - 1]]

(***************************************************************************)
(* A frame with tag t that came in on p goes to every port of its VLAN's   *)
(* flooding sets but p: the pairs <<port, frame sent>>.  The untagged      *)
(* frame is changed with TAG2UNTAG for the ports that take the VLAN with   *)
(* its tag.                                                                *)
(***************************************************************************)
OthersAndBack(p, ports) == ports

Others(p, ports) == ports \ {p}

Flood(p, t) ==
  LET v       == FrameVlan(p, t)
      changed == Tag2Untag(Frame(t))
      tagged  == IF t = NOVLAN THEN changed ELSE Frame(t)
      plain   == IF t = NOVLAN THEN Frame(t) ELSE changed IN
  (Others(p, bctag[v]) \X {tagged}) \cup (Others(p, bcuntag[v]) \X {plain})

(***************************************************************************)
(* The destination is known on port q.                                     *)
(***************************************************************************)
Direct(p, t, q) ==
  LET v     == FrameVlan(p, t)
      plain == portv[q].vlanuntag = v IN
  {<<r, IF t = NOVLAN THEN IF plain THEN Frame(t) ELSE Untag2Tag(Frame(t), v)
        ELSE IF plain THEN Tag2Untag(Frame(t)) ELSE Frame(t)>> : r \in Others(p, {q})}

(***************************************************************************)
(* What is sent for a frame whose destination find_in_hash finds on port   *)
(* q, or nowhere.  send_packet_port reaches a port's endpoints, so nobody  *)
(* when the port is idle.                                                  *)
(***************************************************************************)
Hub(p, t) == {q \in Known \ {0, p} : Active(q)} \X {Frame(t)}

Sent(p, t, q) ==
  IF hub THEN Hub(p, t)
  ELSE IF FrameVlan(p, t) = NOVLAN THEN {}
  ELSE IF q = Nowhere THEN Flood(p, t)
  ELSE Direct(p, t, q)

\* What find_in_hash may answer for a frame of VLAN v.
Answers(v) == {Nowhere} \cup {hash[<<m, v>>] : m \in Macs}

\* The active ports of VLAN v.
Members(v) == {q \in table[v] : Active(q)}

\* A frame with tag t that comes in on p is one the switch (not a hub) takes.
Takes(p, t) == ~hub /\ Active(p) /\ FrameVlan(p, t) # NOVLAN

Tags == Vlans \cup {NOVLAN}

-----------------------------------------------------------------------------
(***************************************************************************)
(* VLANs are separate: whatever the destination and whatever the commands  *)
(* that came before, a frame is sent only to active ports of its own VLAN  *)
(* and never back to the port it came from.                                *)
(***************************************************************************)
StaysInVlan ==
  \A p \in PortIds, t \in Tags : Takes(p, t) =>
    LET v == FrameVlan(p, t) IN
    \A q \in Answers(v) : \A s \in Sent(p, t, q) : s[1] \in Members(v) \ {p}

(***************************************************************************)
(* A frame that is flooded reaches every other active port of its VLAN,    *)
(* and each of them once: the sets for the two kinds of ports, which seven *)
(* handlers keep, cover the VLAN and never share a port.                   *)
(***************************************************************************)
FloodReachesOnce ==
  \A p \in PortIds, t \in Tags : Takes(p, t) =>
    LET sent == Sent(p, t, Nowhere) IN
    \A q \in Members(FrameVlan(p, t)) \ {p} :
      \E s \in sent : s[1] = q /\ \A r \in sent : r[1] = q => r = s

(***************************************************************************)
(* What a port is sent has the form it takes: a tagged frame goes with its *)
(* tag to the ports that take the VLAN tagged, without it and otherwise    *)
(* intact to the ports that take it untagged, and an untagged frame        *)
(* reaches the latter as it is, flooded or sent to a known destination.    *)
(***************************************************************************)
FormKept ==
  \A p \in PortIds, t \in Tags : Takes(p, t) =>
    LET v == FrameVlan(p, t) IN
    \A q \in Answers(v) : \A s \in Sent(p, t, q) :
      /\ portv[s[1]].vlanuntag = v => s[2] = Untagged
      /\ portv[s[1]].vlanuntag # v /\ t # NOVLAN => s[2] = Tagged(t)

(***************************************************************************)
(* "Broadcast the packet untouched on the ports of the same tag-ness, then *)
(* transform it to the other tag-ness for the others"                      *)
(* (winvde_port.c:2028-2029): an untagged frame is flooded with its VLAN's *)
(* tag to the ports that take the VLAN tagged.                             *)
(***************************************************************************)
FloodAddsTag ==
  \A p \in PortIds : Takes(p, NOVLAN) =>
    LET v == FrameVlan(p, NOVLAN) IN
    \A s \in Flood(p, NOVLAN) : portv[s[1]].vlanuntag # v => s[2] = Tagged(v)
=============================================================================
