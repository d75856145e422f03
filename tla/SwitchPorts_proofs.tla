------------------------- MODULE SwitchPorts_proofs -------------------------
(***************************************************************************)
(* What holds of the port table of winvde_switch, and of the frames sent   *)
(* over it, for any endpoints, addresses and users, up to 32 ports, and    *)
(* VLANs below 32: as far as the bit arrays are sets (PortsAssumption).    *)
(***************************************************************************)
EXTENDS Forwarding, WellFoundedInduction, TLAPS

(***************************************************************************)
(* A nonempty set of natural numbers has a least element: the scan of      *)
(* alloc_port for a free port ends on one.                                 *)
(***************************************************************************)
LEMMA NatMin ==
  ASSUME NEW T \in SUBSET Nat, T # {}
  PROVE  \E p \in T : \A q \in T : p <= q
<1> DEFINE R == {ss \in Nat \X Nat : ss[1] < ss[2]}
<1>1. IsWellFoundedOn(R, Nat)
  BY NatLessThanWellFounded DEF OpToRel
<1>2. PICK x \in T : \A y \in T : ~ (<<y, x>> \in R)
  <2> HIDE DEF R
  <2> QED BY <1>1, WFMin
<1>3. ASSUME NEW y \in T PROVE x <= y
  <2>1. x \in Nat /\ y \in Nat
    OBVIOUS
  <2>2. ~ (<<y, x>> \in R)
    BY <1>2
  <2>3. <<y, x>> \in R <=> y < x
    BY <2>1
  <2> HIDE DEF R
  <2> QED BY <2>1, <2>2, <2>3
<1> QED BY <1>3

-----------------------------------------------------------------------------
(***************************************************************************)
(* The records a port goes through are ports: the one alloc_port makes,    *)
(* the one close_ep_port_fd leaves.                                        *)
(***************************************************************************)
LEMMA NewPortIsPort == NewPort \in Port
BY PortsAssumption, UsersAssumption DEF NewPort, Port

LEMMA IdlePortIsPort ==
  ASSUME NEW r \in Port
  PROVE  /\ IdlePort(r) \in Port
         /\ IdlePort(r).ep = {}
         /\ IdlePort(r).ms = NULL
         /\ IdlePort(r).vlanuntag = r.vlanuntag
         /\ IdlePort(r).curuser = AnyUser
BY UsersAssumption DEF IdlePort, Port

(***************************************************************************)
(* hash_delete_port leaves no entry for the port and the others as they    *)
(* are.                                                                    *)
(***************************************************************************)
LEMMA HashDeletePortForgets ==
  ASSUME TypeOK, NEW p \in PortIds
  PROVE  /\ HashDeletePort(p) \in [Macs \X Vlans -> PortIds \cup {Nowhere}]
         /\ \A k \in Macs \X Vlans :
              /\ HashDeletePort(p)[k] # p
              /\ HashDeletePort(p)[k] # Nowhere => HashDeletePort(p)[k] = hash[k]
BY DEF TypeOK, HashDeletePort, Nowhere, PortIds

(***************************************************************************)
(* alloc_port(n), when the caller can use its answer: a port inside the    *)
(* array, made on the spot if it did not exist.                            *)
(***************************************************************************)
LEMMA AllocPortResult ==
  ASSUME TypeOK, NEW n \in 0 .. MaxPorts, ~AllocFaults(n)
  PROVE  /\ AllocPort(n) \in PortIds
         /\ AllocPort(n) < numports
         /\ ~Exists(AllocPort(n)) =>
              /\ 0 \in validvlan
              /\ AllocPortv(n) = [portv EXCEPT ![AllocPort(n)] = NewPort]
              /\ AllocTable(n) = [table EXCEPT ![0] = @ \cup {AllocPort(n)}]
         /\ Exists(AllocPort(n)) => AllocPortv(n) = portv /\ AllocTable(n) = table
<1>1. CASE AllocFails(n)
  <2>1. AllocPort(n) = NoPortFound /\ NoPortFound \in Known
    BY <1>1 DEF AllocPort, AllocFaults
  <2>2. ~AllocCreates(n)
    BY <1>1 DEF AllocCreates
  <2> QED BY <2>1, <2>2 DEF Known, AllocPortv, AllocTable
<1>2. CASE ~AllocFails(n)
  <2>1. AllocPort(n) \in PortIds /\ AllocPort(n) < numports
    <3>1. CASE n = 0
      <4>1. FreePorts # {} /\ FreePorts \in SUBSET Nat
        BY <1>2, <3>1, PortsAssumption DEF AllocFails, FreePorts, PortIds
      <4>2. \E p \in FreePorts : \A q \in FreePorts : p <= q
        BY <4>1, NatMin
      <4>3. AllocPort(n) \in FreePorts
        BY <1>2, <3>1, <4>2 DEF AllocPort
      <4> QED BY <4>3 DEF FreePorts
    <3>2. CASE n # 0
      BY <1>2, <3>2, PortsAssumption DEF AllocPort, AllocFails, PortIds, TypeOK
    <3> QED BY <3>1, <3>2
  <2>2. AllocCreates(n) <=> ~Exists(AllocPort(n))
    BY <1>2 DEF AllocCreates, Exists
  <2>3. AllocCreates(n) => 0 \in validvlan
    BY DEF AllocFaults
  <2> QED BY <2>1, <2>2, <2>3 DEF AllocPortv, AllocTable
<1> QED BY <1>1, <1>2

-----------------------------------------------------------------------------
LEMMA ExistingIsPort ==
  ASSUME TypeOK, NEW p \in PortIds, Exists(p)
  PROVE  portv[p] \in Port
BY DEF TypeOK, Exists

LEMMA InitTypeOK == Init => TypeOK
<1> SUFFICES ASSUME Init PROVE TypeOK
  OBVIOUS
<1>1. up \in BOOLEAN /\ hub \in BOOLEAN /\ numports \in 1 .. MaxPorts
  BY DEF Init
<1>2. portv \in [PortIds -> Port \cup {NULL}]
  BY DEF Init
<1>3. validvlan \subseteq Vlans
  BY PortsAssumption DEF Init
<1>4. hash \in [Macs \X Vlans -> PortIds \cup {Nowhere}]
  BY DEF Init
<1>5. owner \in [Endpoints -> Users]
  BY UsersAssumption DEF Init
<1> QED BY <1>1, <1>2, <1>3, <1>4, <1>5 DEF Init, TypeOK

(***************************************************************************)
(* close_ep_port_fd keeps the types: both the end of file of a control     *)
(* connection and port/epclose end there.                                  *)
(***************************************************************************)
LEMMA CloseTypeOK ==
  ASSUME TypeOK, NEW p \in PortIds, NEW e \in Endpoints, CloseEpPortFd(p, e)
  PROVE  TypeOK'
<1>1. p \in Known /\ portv[p] \in Port
  BY ExistingIsPort DEF CloseEpPortFd, Known
<1> DEFINE left == portv[p].ep \ {e}
<1>2. CASE left = {}
  <2>1. portv' = [portv EXCEPT ![p] = IdlePort(portv[p])]
    BY <1>2 DEF CloseEpPortFd
  <2>2. portv' \in [PortIds -> Port \cup {NULL}]
    BY <1>1, <2>1, IdlePortIsPort DEF TypeOK
  <2>3. hash' \in [Macs \X Vlans -> PortIds \cup {Nowhere}]
    BY <1>2, HashDeletePortForgets DEF CloseEpPortFd
  <2>4. bctag' \in [Vlans -> SUBSET PortIds] /\ bcuntag' \in [Vlans -> SUBSET PortIds]
    BY <1>2 DEF CloseEpPortFd, TypeOK
  <2> QED BY <2>2, <2>3, <2>4 DEF CloseEpPortFd, TypeOK
<1>3. CASE left # {}
  <2>1. portv' = [portv EXCEPT ![p].ep = left]
    BY <1>3 DEF CloseEpPortFd
  <2>2. portv' \in [PortIds -> Port \cup {NULL}]
    BY <1>1, <2>1 DEF TypeOK, Port
  <2> QED BY <1>3, <2>2 DEF CloseEpPortFd, TypeOK
<1> QED BY <1>2, <1>3

(***************************************************************************)
(* A plug request keeps the types.                                         *)
(***************************************************************************)
LEMMA SetupEpTypeOK ==
  ASSUME TypeOK, NEW n \in 0 .. MaxPorts, NEW e \in Endpoints, NEW u \in Users,
         NEW m \in Modules, SetupEp(n, e, u, m)
  PROVE  TypeOK'
<1>1. CASE AllocFaults(n)
  BY <1>1 DEF SetupEp, Fault, TypeOK, portVars, vlanVars
<1>2. CASE ~AllocFaults(n)
  <2> DEFINE p == AllocPort(n)
             r == AllocPortv(n)[p]
  <2>1. p \in PortIds /\ AllocPortv(n) \in [PortIds -> Port \cup {NULL}] /\ r \in Port
    BY <1>2, AllocPortResult, NewPortIsPort, ExistingIsPort DEF TypeOK, Exists
  <2>2. AllocTable(n) \in [Vlans -> SUBSET PortIds]
    BY <1>2, AllocPortResult DEF TypeOK
  <2>3. [r EXCEPT !.ep = @ \cup {e}, !.curuser = u, !.ms = m] \in Port
    BY <2>1 DEF Port
  <2>4. portv' \in [PortIds -> Port \cup {NULL}] /\ owner' \in [Endpoints -> Users]
    BY <1>2, <2>1, <2>3 DEF SetupEp, TypeOK
  <2>5. /\ OpenedBctag(p, r.vlanuntag, AllocTable(n)) \in [Vlans -> SUBSET PortIds]
        /\ OpenedBcuntag(p, r.vlanuntag) \in [Vlans -> SUBSET PortIds]
    BY <2>1 DEF OpenedBctag, OpenedBcuntag, TypeOK
  <2>6. bctag' \in [Vlans -> SUBSET PortIds] /\ bcuntag' \in [Vlans -> SUBSET PortIds]
    BY <1>2, <2>5 DEF SetupEp, TypeOK
  <2> QED BY <1>2, <2>2, <2>4, <2>6 DEF SetupEp, TypeOK
<1> QED BY <1>1, <1>2

(***************************************************************************)
(* The commands that create a port keep the types.                         *)
(***************************************************************************)
LEMMA CreatePortTypeOK ==
  ASSUME TypeOK, NEW n \in 0 .. MaxPorts, CreatePort(n)
  PROVE  TypeOK'
<1>1. CASE AllocFaults(n)
  BY <1>1 DEF CreatePort, Fault, TypeOK, portVars, vlanVars
<1>2. CASE ~AllocFaults(n)
  <2> DEFINE p == AllocPort(n)
  <2>1. p \in PortIds /\ AllocPortv(n) \in [PortIds -> Port \cup {NULL}]
          /\ AllocPortv(n)[p] \in Port
    BY <1>2, AllocPortResult, NewPortIsPort, ExistingIsPort DEF TypeOK, Exists
  <2>2. AllocTable(n) \in [Vlans -> SUBSET PortIds]
    BY <1>2, AllocPortResult DEF TypeOK
  <2>3. [AllocPortv(n) EXCEPT ![p].inpool = FALSE] \in [PortIds -> Port \cup {NULL}]
    BY <2>1 DEF Port
  <2> QED BY <1>2, <2>2, <2>3 DEF CreatePort, TypeOK
<1> QED BY <1>1, <1>2

(***************************************************************************)
(* The commands that set one attribute of an existing port keep the types. *)
(***************************************************************************)
LEMMA PortSetVlanTypeOK ==
  ASSUME TypeOK, NEW p \in PortIds, NEW v \in Vlans \cup {NOVLAN}, PortSetVlan(p, v)
  PROVE  TypeOK'
<1>1. portv[p] \in Port
  BY ExistingIsPort DEF PortSetVlan, Known
<1>2. portv' \in [PortIds -> Port \cup {NULL}]
  BY <1>1 DEF PortSetVlan, TypeOK, Port
<1>3. hash' \in [Macs \X Vlans -> PortIds \cup {Nowhere}]
  BY HashDeletePortForgets DEF PortSetVlan
<1>4. table' \in [Vlans -> SUBSET PortIds]
  BY DEF PortSetVlan, TypeOK
<1>5. bctag' \in [Vlans -> SUBSET PortIds] /\ bcuntag' \in [Vlans -> SUBSET PortIds]
  BY DEF PortSetVlan, TypeOK
<1> QED BY <1>2, <1>3, <1>4, <1>5 DEF PortSetVlan, TypeOK

LEMMA PortAttributeTypeOK ==
  ASSUME TypeOK, NEW p \in PortIds, p \in Known, NEW b \in BOOLEAN, NEW u \in Users,
         NEW g \in Groups
  PROVE  /\ [portv EXCEPT ![p].inpool = b] \in [PortIds -> Port \cup {NULL}]
         /\ [portv EXCEPT ![p].user = u] \in [PortIds -> Port \cup {NULL}]
         /\ [portv EXCEPT ![p].group = g] \in [PortIds -> Port \cup {NULL}]
<1>1. portv[p] \in Port
  BY ExistingIsPort DEF Known
<1> QED BY <1>1 DEF TypeOK, Port

(***************************************************************************)
(* Every step keeps the types.                                             *)
(***************************************************************************)
LEMMA NextTypeOK == TypeOK /\ [Next]_vars => TypeOK'
<1> SUFFICES ASSUME TypeOK, [Next]_vars PROVE TypeOK'
  OBVIOUS
<1>1. ASSUME NEW n \in 1 .. MaxPorts, PortSetNumPorts(n) PROVE TypeOK'
  BY <1>1 DEF PortSetNumPorts, TypeOK, vlanVars
<1>2. ASSUME NEW b \in BOOLEAN, PortSetHub(b) PROVE TypeOK'
  BY <1>2 DEF PortSetHub, TypeOK, vlanVars
<1>3. ASSUME NEW p \in PortIds, NEW v \in Vlans \cup {NOVLAN}, PortSetVlan(p, v) PROVE TypeOK'
  BY <1>3, PortSetVlanTypeOK
<1>4. CASE PortCreateAuto
  BY <1>4, CreatePortTypeOK, PortsAssumption DEF PortCreateAuto
<1>5. ASSUME NEW n \in PortIds, PortCreate(n) PROVE TypeOK'
  BY <1>5, CreatePortTypeOK, PortsAssumption DEF PortCreate, PortIds
<1>6. ASSUME NEW p \in PortIds, NEW b \in BOOLEAN, PortAllocatable(p, b) PROVE TypeOK'
  <2>1. p \in Known /\ portv' = [portv EXCEPT ![p].inpool = b]
    BY <1>6 DEF PortAllocatable
  <2>2. portv' \in [PortIds -> Port \cup {NULL}]
    BY <2>1, PortAttributeTypeOK, UsersAssumption
  <2> QED BY <1>6, <2>2 DEF PortAllocatable, TypeOK, vlanVars
<1>7. ASSUME NEW p \in PortIds, NEW u \in Users, PortSetUser(p, u) PROVE TypeOK'
  <2>1. p \in Known /\ portv' = [portv EXCEPT ![p].user = u]
    BY <1>7 DEF PortSetUser
  <2>2. portv' \in [PortIds -> Port \cup {NULL}]
    BY <2>1, PortAttributeTypeOK, UsersAssumption
  <2> QED BY <1>7, <2>2 DEF PortSetUser, TypeOK, vlanVars
<1>8. ASSUME NEW p \in PortIds, NEW g \in Groups, PortSetGroup(p, g) PROVE TypeOK'
  <2>1. p \in Known /\ portv' = [portv EXCEPT ![p].group = g]
    BY <1>8 DEF PortSetGroup
  <2>2. portv' \in [PortIds -> Port \cup {NULL}]
    BY <2>1, PortAttributeTypeOK, UsersAssumption
  <2> QED BY <1>8, <2>2 DEF PortSetGroup, TypeOK, vlanVars
<1>9. ASSUME NEW v \in Vlans, VlanCreate(v) PROVE TypeOK'
  BY <1>9 DEF VlanCreate, TypeOK, portVars
<1>10. ASSUME NEW v \in Vlans, VlanRemove(v) PROVE TypeOK'
  BY <1>10 DEF VlanRemove, TypeOK, portVars
<1>11. ASSUME NEW v \in Vlans, NEW p \in PortIds, VlanAddPort(v, p) PROVE TypeOK'
  BY <1>11 DEF VlanAddPort, TypeOK, portVars
<1>12. ASSUME NEW v \in Vlans, NEW p \in PortIds, VlanDelPort(v, p) PROVE TypeOK'
  <2>1. hash' \in [Macs \X Vlans -> PortIds \cup {Nowhere}]
    BY <1>12, HashDeletePortForgets DEF VlanDelPort
  <2> QED BY <1>12, <2>1 DEF VlanDelPort, TypeOK, portVars
<1>13. ASSUME NEW n \in 0 .. MaxPorts, NEW e \in Endpoints, NEW u \in Users,
              NEW m \in Modules, SetupEp(n, e, u, m)
       PROVE  TypeOK'
  BY <1>13, SetupEpTypeOK
<1>14. ASSUME NEW p \in PortIds, NEW e \in Endpoints, EpClose(p, e) PROVE TypeOK'
  BY <1>14, CloseTypeOK DEF EpClose
<1>15. ASSUME NEW e \in Endpoints, CloseEp(e) PROVE TypeOK'
  BY <1>15, CloseTypeOK DEF CloseEp
<1>16. ASSUME NEW p \in PortIds, NEW t \in Vlans \cup {NOVLAN}, NEW src \in Macs,
              HandleInPacket(p, t, src)
       PROVE  TypeOK'
  BY <1>16 DEF HandleInPacket, TypeOK, portVars, vlanVars
<1>17. CASE HashResize
  BY <1>17 DEF HashResize, TypeOK, portVars, vlanVars
<1>18. CASE UNCHANGED vars
  BY <1>18 DEF vars, TypeOK, portVars, vlanVars
<1> QED
  BY <1>1, <1>2, <1>3, <1>4, <1>5, <1>6, <1>7, <1>8, <1>9, <1>10, <1>11, <1>12, <1>13,
     <1>14, <1>15, <1>16, <1>17, <1>18 DEF Next

(***************************************************************************)
(* The tables keep their types: no handler, in whatever order, leaves a    *)
(* port number, a VLAN or a port record that the others could not use.     *)
(***************************************************************************)
THEOREM PortsTypeOK == Spec => []TypeOK
<1>1. Init => TypeOK
  BY InitTypeOK
<1>2. TypeOK /\ [Next]_vars => TypeOK'
  BY NextTypeOK
<1> QED BY <1>1, <1>2, PTL DEF Spec

-----------------------------------------------------------------------------
(***************************************************************************)
(* The invariant of the VLAN tables.  Its parts need each other: a flood   *)
(* set stays exact across vlan/remove because the tables hold every port   *)
(* of the VLAN, and a port opened by setup_ep is in the table of its       *)
(* untagged VLAN because vlan/delport and vlan/remove refuse that one.     *)
(***************************************************************************)
VlanInv ==
  /\ TypeOK
  /\ TablesWithinArray
  /\ UntaggedVlanDefined
  /\ FloodSetsExact
  /\ LearnedInVlan

(***************************************************************************)
(* FloodSetsExact for one VLAN and one port.                               *)
(***************************************************************************)
FloodAt(v, q) ==
  /\ q \in bctag[v] <=> q \in table[v] /\ Active(q) /\ portv[q].vlanuntag # v
  /\ q \in bcuntag[v] <=> q \in table[v] /\ Active(q) /\ portv[q].vlanuntag = v

LEMMA FloodPointwise ==
  ASSUME TypeOK
  PROVE  FloodSetsExact <=> \A v \in Vlans, q \in PortIds : FloodAt(v, q)
BY DEF FloodSetsExact, FloodAt, TypeOK

LEMMA FloodPointwiseNext ==
  ASSUME TypeOK'
  PROVE  FloodSetsExact' <=> \A v \in Vlans, q \in PortIds : FloodAt(v, q)'
BY DEF FloodSetsExact, FloodAt, TypeOK

(***************************************************************************)
(* LearnedInVlan for one entry of the MAC table.                           *)
(***************************************************************************)
LearnedAt(m, v, q) == hash[<<m, v>>] = q => Active(q) /\ q \in table[v]

LEMMA LearnedPointwise ==
  ASSUME TypeOK
  PROVE  LearnedInVlan <=> \A m \in Macs, v \in Vlans, q \in PortIds : LearnedAt(m, v, q)
<1>1. \A m \in Macs, v \in Vlans : hash[<<m, v>>] \in PortIds \cup {Nowhere}
  BY DEF TypeOK
<1>2. Nowhere \notin PortIds
  BY PortsAssumption DEF Nowhere, PortIds
<1> QED BY <1>1, <1>2 DEF LearnedInVlan, LearnedAt

LEMMA LearnedPointwiseNext ==
  ASSUME TypeOK'
  PROVE  LearnedInVlan' <=> \A m \in Macs, v \in Vlans, q \in PortIds : LearnedAt(m, v, q)'
<1>1. \A m \in Macs, v \in Vlans : hash'[<<m, v>>] \in PortIds \cup {Nowhere}
  BY DEF TypeOK
<1>2. Nowhere \notin PortIds
  BY PortsAssumption DEF Nowhere, PortIds
<1> QED BY <1>1, <1>2 DEF LearnedInVlan, LearnedAt, Active, Exists

LEMMA InitVlanInv == Init => VlanInv
<1> SUFFICES ASSUME Init PROVE VlanInv
  OBVIOUS
<1>1. TypeOK
  BY InitTypeOK
<1>2. \A p \in PortIds : ~Exists(p) /\ ~Active(p)
  BY DEF Init, Exists, Active
<1>3. TablesWithinArray /\ UntaggedVlanDefined /\ FloodSetsExact
  BY <1>2 DEF Init, TablesWithinArray, UntaggedVlanDefined, FloodSetsExact
<1>4. LearnedInVlan
  BY DEF Init, LearnedInVlan
<1> QED BY <1>1, <1>3, <1>4 DEF VlanInv

(***************************************************************************)
(* A step that leaves the tables alone, and which ports exist, are active  *)
(* and have which untagged VLAN, keeps the invariant.                      *)
(***************************************************************************)
LEMMA SameTablesVlanInv ==
  ASSUME VlanInv, TypeOK', UNCHANGED <<numports, vlanVars, hash>>,
         \A p \in PortIds : /\ Exists(p)' <=> Exists(p)
                            /\ Active(p)' <=> Active(p)
                            /\ Exists(p) => portv'[p].vlanuntag = portv[p].vlanuntag
  PROVE  VlanInv'
<1>1. TablesWithinArray'
  BY DEF VlanInv, TablesWithinArray, Known, vlanVars
<1>2. UntaggedVlanDefined'
  BY DEF VlanInv, UntaggedVlanDefined, vlanVars
<1>3. FloodSetsExact'
  <2>1. ASSUME NEW v \in Vlans, NEW q \in PortIds PROVE FloodAt(v, q)'
    <3>1. FloodAt(v, q)
      BY FloodPointwise DEF VlanInv
    <3>2. Active(q) => Exists(q)
      BY DEF Active
    <3> QED BY <3>1, <3>2 DEF FloodAt, vlanVars
  <2> QED BY <2>1, FloodPointwiseNext
<1>4. LearnedInVlan'
  <2>1. ASSUME NEW m \in Macs, NEW v \in Vlans, hash[<<m, v>>] # Nowhere
        PROVE  hash[<<m, v>>] \in PortIds
    BY <2>1 DEF VlanInv, TypeOK
  <2> QED BY <2>1 DEF VlanInv, LearnedInVlan, vlanVars
<1> QED BY <1>1, <1>2, <1>3, <1>4 DEF VlanInv

LEMMA PortSetNumPortsVlanInv ==
  ASSUME VlanInv, TypeOK', NEW n \in 1 .. MaxPorts, PortSetNumPorts(n)
  PROVE  VlanInv'
<1>1. /\ UNCHANGED <<portv, vlanVars, hash>>
      /\ numports' = n
      /\ \A p \in Known : p < n
  BY DEF PortSetNumPorts, Resizable
<1>2. \A p \in PortIds : Exists(p) => p \in Known
  BY DEF VlanInv, TablesWithinArray, Known
<1>3. TablesWithinArray'
  BY <1>1, <1>2 DEF VlanInv, TablesWithinArray, Known, Exists, vlanVars
<1>4. UntaggedVlanDefined' /\ FloodSetsExact' /\ LearnedInVlan'
  BY <1>1 DEF VlanInv, UntaggedVlanDefined, FloodSetsExact, LearnedInVlan, Exists, Active,
              vlanVars
<1> QED BY <1>3, <1>4 DEF VlanInv

(***************************************************************************)
(* port/setvlan moves the port from the table and the flood set of its old *)
(* VLAN to those of the new one, and forgets the addresses behind it.      *)
(***************************************************************************)
LEMMA PortSetVlanVlanInv ==
  ASSUME VlanInv, TypeOK', NEW p \in PortIds, NEW v \in Vlans \cup {NOVLAN},
         PortSetVlan(p, v)
  PROVE  VlanInv'
<1> DEFINE old == portv[p].vlanuntag
<1>1. /\ p \in Known
      /\ v \in validvlan \cup {NOVLAN}
      /\ portv' = [portv EXCEPT ![p].vlanuntag = v]
      /\ hash' = HashDeletePort(p)
      /\ UNCHANGED <<numports, validvlan>>
      /\ \A w \in Vlans : table'[w] = IF w = v THEN table[w] \cup {p}
                                      ELSE IF w = old THEN table[w] \ {p} ELSE table[w]
  BY DEF PortSetVlan
<1>2. p \in PortIds /\ Exists(p) /\ portv[p] \in Port /\ p < numports
  BY <1>1, ExistingIsPort DEF VlanInv, Known
<1>3. \A q \in PortIds : /\ Exists(q)' <=> Exists(q)
                         /\ Active(q)' <=> Active(q)
                         /\ q # p => portv'[q] = portv[q]
  <2>1. portv'[p] = [portv[p] EXCEPT !.vlanuntag = v]
    BY <1>1 DEF VlanInv, TypeOK
  <2>2. portv'[p] # NULL /\ portv'[p].ep = portv[p].ep
    BY <1>2, <2>1, NullIsNoPort, SMTT(45) DEF Port, VlanInv, TypeOK
  <2>3. \A q \in PortIds : q # p => portv'[q] = portv[q]
    BY <1>1 DEF VlanInv, TypeOK
  <2> QED BY <1>2, <2>2, <2>3 DEF Exists, Active
<1>4. portv'[p].vlanuntag = v
  BY <1>1, <1>2 DEF VlanInv, TypeOK, Port
<1>5. Known' = Known
  BY <1>1, <1>3 DEF Known
<1>6. TablesWithinArray'
  <2>1. \A q \in PortIds : Exists(q)' => q < numports'
    BY <1>1, <1>3 DEF VlanInv, TablesWithinArray
  <2>2. ASSUME NEW w \in Vlans
        PROVE  table'[w] \subseteq Known /\ (w \notin validvlan => table'[w] = {})
    <3>1. table[w] \subseteq Known /\ (w \notin validvlan => table[w] = {})
      BY DEF VlanInv, TablesWithinArray
    <3>2. w \notin validvlan => w # v
      BY <1>1, PortsAssumption DEF NOVLAN
    <3>3. CASE w = v
      BY <1>1, <3>1, <3>2, <3>3, ZenonT(30)
    <3>4. CASE w # v
      BY <1>1, <3>1, <3>4
    <3> QED BY <3>3, <3>4
  <2> QED BY <1>1, <1>5, <2>1, <2>2 DEF TablesWithinArray
<1>7. UntaggedVlanDefined'
  <2> SUFFICES ASSUME NEW q \in PortIds, Exists(q), portv'[q].vlanuntag # NOVLAN
               PROVE  /\ portv'[q].vlanuntag \in validvlan
                      /\ q \in table'[portv'[q].vlanuntag]
    BY <1>1, <1>3 DEF UntaggedVlanDefined
  <2>1. CASE q = p
    BY <1>1, <1>4, <2>1 DEF VlanInv, TypeOK
  <2>2. CASE q # p
    <3>1. portv[q].vlanuntag \in validvlan /\ q \in table[portv[q].vlanuntag]
      BY <1>3, <2>2 DEF VlanInv, UntaggedVlanDefined
    <3> QED BY <1>1, <1>3, <2>2, <3>1, SMTT(45) DEF VlanInv, TypeOK
  <2> QED BY <2>1, <2>2
<1>8. FloodSetsExact'
  <2>1. ASSUME NEW w \in Vlans, NEW q \in PortIds PROVE FloodAt(w, q)'
    <3>1. FloodAt(w, q)
      BY FloodPointwise DEF VlanInv
    <3>2. /\ q # p => (q \in table'[w] <=> q \in table[w])
          /\ p \in table'[w] <=> w = v \/ (w # old /\ p \in table[w])
      BY <1>1
    <3>3. CASE Active(p)
      <4>1. /\ bcuntag'[w] = IF w = v THEN bcuntag[w] \cup {p}
                             ELSE IF w = old THEN bcuntag[w] \ {p} ELSE bcuntag[w]
            /\ bctag'[w] = IF w = v THEN bctag[w] \ {p} ELSE bctag[w]
        BY <3>3 DEF PortSetVlan
      <4>2. CASE q = p
        BY <1>3, <1>4, <3>1, <3>2, <4>1, <4>2, <3>3 DEF FloodAt
      <4>3. CASE q # p
        BY <1>3, <3>1, <3>2, <4>1, <4>3 DEF FloodAt
      <4> QED BY <4>2, <4>3
    <3>4. CASE ~Active(p)
      <4>1. UNCHANGED <<bctag, bcuntag>>
        BY <3>4 DEF PortSetVlan
      <4>2. CASE q = p
        BY <1>3, <1>4, <3>1, <3>2, <4>1, <4>2, <3>4 DEF FloodAt
      <4>3. CASE q # p
        BY <1>3, <3>1, <3>2, <4>1, <4>3 DEF FloodAt
      <4> QED BY <4>2, <4>3
    <3> QED BY <3>3, <3>4
  <2> QED BY <2>1, FloodPointwiseNext
<1>9. LearnedInVlan'
  <2>1. ASSUME NEW m \in Macs, NEW w \in Vlans, NEW q \in PortIds PROVE LearnedAt(m, w, q)'
    <3>1. LearnedAt(m, w, q)
      BY LearnedPointwise DEF VlanInv
    <3>2. hash'[<<m, w>>] = q => q # p /\ hash[<<m, w>>] = q
      BY <1>1, <1>2, HashDeletePortForgets, PortsAssumption DEF VlanInv, Nowhere, PortIds
    <3>3. q # p /\ q \in table[w] => q \in table'[w]
      BY <1>1
    <3> QED BY <1>3, <3>1, <3>2, <3>3 DEF LearnedAt
  <2> QED BY <2>1, LearnedPointwiseNext
<1> QED BY <1>6, <1>7, <1>8, <1>9 DEF VlanInv

(***************************************************************************)
(* vlan/create and vlan/remove act on a VLAN that no port is in.           *)
(***************************************************************************)
LEMMA EmptyVlanVlanInv ==
  ASSUME VlanInv, TypeOK', NEW v \in Vlans, table[v] = {},
         validvlan' \in {validvlan \cup {v}, validvlan \ {v}},
         table' = [table EXCEPT ![v] = {}],
         bctag' = [bctag EXCEPT ![v] = {}],
         bcuntag' = [bcuntag EXCEPT ![v] = {}],
         UNCHANGED <<portVars, hash>>
  PROVE  VlanInv'
<1>1. \A q \in PortIds : /\ Exists(q)' <=> Exists(q)
                         /\ Active(q)' <=> Active(q)
                         /\ portv'[q] = portv[q]
  BY DEF portVars, Exists, Active
<1>2. table' = table
  BY DEF VlanInv, TypeOK
<1>3. bctag[v] = {} /\ bcuntag[v] = {}
  BY DEF VlanInv, FloodSetsExact
<1>4. bctag' = bctag /\ bcuntag' = bcuntag
  BY <1>3 DEF VlanInv, TypeOK
<1>5. Known' = Known
  BY <1>1 DEF Known, portVars
<1>6. TablesWithinArray'
  BY <1>1, <1>2, <1>5 DEF VlanInv, TablesWithinArray, portVars
<1>7. UntaggedVlanDefined'
  <2> SUFFICES ASSUME NEW q \in PortIds, Exists(q), portv[q].vlanuntag # NOVLAN
               PROVE  /\ portv[q].vlanuntag \in validvlan'
                      /\ q \in table[portv[q].vlanuntag]
    BY <1>1, <1>2 DEF UntaggedVlanDefined
  <2>1. portv[q].vlanuntag \in validvlan /\ q \in table[portv[q].vlanuntag]
    BY DEF VlanInv, UntaggedVlanDefined
  <2> QED BY <2>1
<1>8. FloodSetsExact' /\ LearnedInVlan'
  BY <1>2, <1>4 DEF VlanInv, FloodSetsExact, LearnedInVlan, portVars, Exists, Active
<1> QED BY <1>6, <1>7, <1>8 DEF VlanInv

LEMMA VlanCreateVlanInv ==
  ASSUME VlanInv, TypeOK', NEW v \in Vlans, VlanCreate(v)
  PROVE  VlanInv'
<1>1. table[v] = {}
  BY DEF VlanInv, TablesWithinArray, VlanCreate
<1> QED BY <1>1, EmptyVlanVlanInv DEF VlanCreate

LEMMA VlanRemoveVlanInv ==
  ASSUME VlanInv, TypeOK', NEW v \in Vlans, VlanRemove(v)
  PROVE  VlanInv'
BY EmptyVlanVlanInv DEF VlanRemove, Removable

(***************************************************************************)
(* vlan/addport and vlan/delport change one VLAN's table and its tagged    *)
(* flood set together.                                                     *)
(***************************************************************************)
LEMMA VlanAddPortVlanInv ==
  ASSUME VlanInv, TypeOK', NEW v \in Vlans, NEW p \in PortIds, VlanAddPort(v, p)
  PROVE  VlanInv'
<1>1. /\ p \in Known
      /\ v \in validvlan
      /\ UNCHANGED <<numports, portv, validvlan, bcuntag, hash>>
      /\ table' = [table EXCEPT ![v] = @ \cup {p}]
      /\ bctag' = IF Active(p) /\ portv[p].vlanuntag # v
                  THEN [bctag EXCEPT ![v] = @ \cup {p}] ELSE bctag
  BY DEF VlanAddPort, portVars
<1>2. \A w \in Vlans : table'[w] = IF w = v THEN table[w] \cup {p} ELSE table[w]
  BY <1>1 DEF VlanInv, TypeOK
<1>3. TablesWithinArray'
  BY <1>1, <1>2 DEF VlanInv, TablesWithinArray, Known, Exists
<1>4. UntaggedVlanDefined'
  BY <1>1, <1>2 DEF VlanInv, UntaggedVlanDefined, Exists, TypeOK
<1>5. FloodSetsExact'
  <2>1. ASSUME NEW w \in Vlans, NEW q \in PortIds PROVE FloodAt(w, q)'
    <3>1. FloodAt(w, q)
      BY FloodPointwise DEF VlanInv
    <3>2. bctag'[w] = IF w = v /\ Active(p) /\ portv[p].vlanuntag # v
                      THEN bctag[w] \cup {p} ELSE bctag[w]
      BY <1>1 DEF VlanInv, TypeOK
    <3>3. bcuntag'[w] = bcuntag[w] /\ portv'[q] = portv[q] /\ (Active(q)' <=> Active(q))
      BY <1>1 DEF Active, Exists
    <3>4. p \in table[v] /\ Active(p) /\ portv[p].vlanuntag = v => p \in bcuntag[v]
      BY FloodPointwise DEF VlanInv, FloodAt
    <3>5. Active(p) /\ portv[p].vlanuntag = v => p \in table[v]
      BY PortsAssumption DEF VlanInv, UntaggedVlanDefined, Active, NOVLAN
    <3> QED BY <1>2, <3>1, <3>2, <3>3, <3>4, <3>5 DEF FloodAt
  <2> QED BY <2>1, FloodPointwiseNext
<1>6. LearnedInVlan'
  <2>1. ASSUME NEW m \in Macs, NEW w \in Vlans, NEW q \in PortIds PROVE LearnedAt(m, w, q)'
    <3>1. LearnedAt(m, w, q)
      BY LearnedPointwise DEF VlanInv
    <3> QED BY <1>1, <1>2, <3>1 DEF LearnedAt, Active, Exists
  <2> QED BY <2>1, LearnedPointwiseNext
<1> QED BY <1>3, <1>4, <1>5, <1>6 DEF VlanInv

LEMMA VlanDelPortVlanInv ==
  ASSUME VlanInv, TypeOK', NEW v \in Vlans, NEW p \in PortIds, VlanDelPort(v, p)
  PROVE  VlanInv'
<1>1. /\ p \in Known
      /\ portv[p].vlanuntag # v
      /\ UNCHANGED <<numports, portv, validvlan, bcuntag>>
      /\ table' = [table EXCEPT ![v] = @ \ {p}]
      /\ bctag' = IF Active(p) THEN [bctag EXCEPT ![v] = @ \ {p}] ELSE bctag
      /\ hash' = HashDeletePort(p)
  BY DEF VlanDelPort, portVars
<1>2. \A w \in Vlans : table'[w] = IF w = v THEN table[w] \ {p} ELSE table[w]
  BY <1>1 DEF VlanInv, TypeOK
<1>3. TablesWithinArray'
  BY <1>1, <1>2 DEF VlanInv, TablesWithinArray, Known, Exists
<1>4. UntaggedVlanDefined'
  BY <1>1, <1>2 DEF VlanInv, UntaggedVlanDefined, Exists, TypeOK
<1>5. FloodSetsExact'
  <2>1. ASSUME NEW w \in Vlans, NEW q \in PortIds PROVE FloodAt(w, q)'
    <3>1. FloodAt(w, q)
      BY FloodPointwise DEF VlanInv
    <3>2. bctag'[w] = IF w = v /\ Active(p) THEN bctag[w] \ {p} ELSE bctag[w]
      BY <1>1 DEF VlanInv, TypeOK
    <3>3. bcuntag'[w] = bcuntag[w] /\ portv'[q] = portv[q] /\ (Active(q)' <=> Active(q))
      BY <1>1 DEF Active, Exists
    <3> QED BY <1>1, <1>2, <3>1, <3>2, <3>3 DEF FloodAt
  <2> QED BY <2>1, FloodPointwiseNext
<1>6. LearnedInVlan'
  <2>1. ASSUME NEW m \in Macs, NEW w \in Vlans, NEW q \in PortIds PROVE LearnedAt(m, w, q)'
    <3>1. LearnedAt(m, w, q)
      BY LearnedPointwise DEF VlanInv
    <3>2. hash'[<<m, w>>] = q => q # p /\ hash[<<m, w>>] = q
      BY <1>1, HashDeletePortForgets, PortsAssumption DEF VlanInv, Nowhere, PortIds
    <3> QED BY <1>1, <1>2, <3>1, <3>2 DEF LearnedAt, Active, Exists
  <2> QED BY <2>1, LearnedPointwiseNext
<1> QED BY <1>3, <1>4, <1>5, <1>6 DEF VlanInv

(***************************************************************************)
(* An endpoint leaves; with the last one the port leaves every flood set.  *)
(***************************************************************************)
LEMMA CloseVlanInv ==
  ASSUME VlanInv, TypeOK', NEW p \in PortIds, NEW e \in Endpoints, CloseEpPortFd(p, e)
  PROVE  VlanInv'
<1> DEFINE left == portv[p].ep \ {e}
<1>1. /\ p \in Known
      /\ portv[p] \in Port
      /\ UNCHANGED <<numports, validvlan, table>>
  BY ExistingIsPort DEF CloseEpPortFd, Known, VlanInv
<1>2. CASE left # {}
  <2>1. portv' = [portv EXCEPT ![p].ep = left] /\ UNCHANGED <<bctag, bcuntag, hash>>
    BY <1>2 DEF CloseEpPortFd
  <2>2. portv'[p] = [portv[p] EXCEPT !.ep = left]
    BY <2>1 DEF VlanInv, TypeOK
  <2>3. portv'[p] # NULL /\ portv'[p].ep # {} /\ portv'[p].vlanuntag = portv[p].vlanuntag
    BY <1>1, <1>2, <2>1, <2>2, NullIsNoPort, SMTT(45) DEF Port, VlanInv, TypeOK
  <2>4. portv[p] # NULL /\ portv[p].ep # {}
    BY <1>1, <1>2, NullIsNoPort
  <2>5. \A q \in PortIds : q # p => portv'[q] = portv[q]
    BY <2>1 DEF VlanInv, TypeOK
  <2>6. \A q \in PortIds : /\ Exists(q)' <=> Exists(q)
                           /\ Active(q)' <=> Active(q)
                           /\ Exists(q) => portv'[q].vlanuntag = portv[q].vlanuntag
    BY <2>3, <2>4, <2>5 DEF Exists, Active
  <2> QED BY <1>1, <2>1, <2>6, SameTablesVlanInv DEF vlanVars
<1>3. CASE left = {}
  <2>1. /\ portv' = [portv EXCEPT ![p] = IdlePort(portv[p])]
        /\ hash' = HashDeletePort(p)
        /\ \A v \in Vlans :
             /\ bctag'[v] = IF v \in validvlan THEN bctag[v] \ {p} ELSE bctag[v]
             /\ bcuntag'[v] = IF v = portv[p].vlanuntag THEN bcuntag[v] \ {p}
                              ELSE bcuntag[v]
    BY <1>3 DEF CloseEpPortFd
  <2>2. /\ Exists(p)' /\ ~Active(p)'
        /\ portv'[p].vlanuntag = portv[p].vlanuntag
    BY <1>1, <2>1, IdlePortIsPort, NullIsNoPort DEF VlanInv, TypeOK, Exists, Active
  <2>3. \A q \in PortIds : q # p => portv'[q] = portv[q]
    BY <2>1 DEF VlanInv, TypeOK
  <2>4. \A q \in PortIds : /\ Exists(q)' <=> Exists(q)
                           /\ portv'[q].vlanuntag = portv[q].vlanuntag
    BY <1>1, <2>2, <2>3 DEF Exists, Known
  <2>5. TablesWithinArray'
    BY <1>1, <2>4 DEF VlanInv, TablesWithinArray, Known
  <2>6. UntaggedVlanDefined'
    BY <1>1, <2>4 DEF VlanInv, UntaggedVlanDefined
  <2>7. FloodSetsExact'
    <3>1. ASSUME NEW w \in Vlans, NEW q \in PortIds PROVE FloodAt(w, q)'
      <4>1. FloodAt(w, q) /\ (w \notin validvlan => table[w] = {})
        BY FloodPointwise DEF VlanInv, TablesWithinArray
      <4>2. CASE q = p
        BY <1>1, <2>1, <2>2, <4>1, <4>2 DEF FloodAt
      <4>3. CASE q # p
        BY <1>1, <2>1, <2>3, <4>1, <4>3 DEF FloodAt, Active, Exists
      <4> QED BY <4>2, <4>3
    <3> QED BY <3>1, FloodPointwiseNext
  <2>8. LearnedInVlan'
    <3>1. ASSUME NEW m \in Macs, NEW w \in Vlans, NEW q \in PortIds PROVE LearnedAt(m, w, q)'
      <4>1. LearnedAt(m, w, q)
        BY LearnedPointwise DEF VlanInv
      <4>2. hash'[<<m, w>>] = q => q # p /\ hash[<<m, w>>] = q
        BY <2>1, HashDeletePortForgets, PortsAssumption DEF VlanInv, Nowhere, PortIds
      <4> QED BY <1>1, <2>3, <4>1, <4>2 DEF LearnedAt, Active, Exists
    <3> QED BY <3>1, LearnedPointwiseNext
  <2> QED BY <2>5, <2>6, <2>7, <2>8 DEF VlanInv
<1> QED BY <1>2, <1>3

(***************************************************************************)
(* A received frame is learned on an active port in the frame's VLAN.      *)
(***************************************************************************)
LEMMA HandleInPacketVlanInv ==
  ASSUME VlanInv, TypeOK', NEW p \in PortIds, NEW t \in Vlans \cup {NOVLAN},
         NEW src \in Macs, HandleInPacket(p, t, src)
  PROVE  VlanInv'
<1> DEFINE v == FrameVlan(p, t)
<1>1. Active(p) /\ v # NOVLAN /\ UNCHANGED <<portVars, vlanVars>>
  BY DEF HandleInPacket
<1>2. v \in Vlans /\ p \in table[v]
  <2>1. CASE t = NOVLAN
    BY <1>1, <2>1 DEF FrameVlan, VlanInv, TypeOK, UntaggedVlanDefined, Active
  <2>2. CASE t # NOVLAN
    BY <1>1, <2>2 DEF FrameVlan
  <2> QED BY <2>1, <2>2
<1>3. TablesWithinArray' /\ UntaggedVlanDefined' /\ FloodSetsExact'
  BY <1>1 DEF VlanInv, TablesWithinArray, UntaggedVlanDefined, FloodSetsExact, Known, Exists,
              Active, portVars, vlanVars
<1>4. LearnedInVlan'
  <2>1. ASSUME NEW m \in Macs, NEW w \in Vlans, NEW q \in PortIds PROVE LearnedAt(m, w, q)'
    <3>1. LearnedAt(m, w, q) /\ UNCHANGED <<table, portv>>
      BY <1>1, LearnedPointwise DEF VlanInv, portVars, vlanVars
    <3>2. hash' = [hash EXCEPT ![<<src, v>>] = p] \/ hash' = hash
      BY DEF HandleInPacket
    <3>3. hash'[<<m, w>>] = IF m = src /\ w = v /\ hash' # hash THEN p ELSE hash[<<m, w>>]
      BY <3>2 DEF VlanInv, TypeOK
    <3> QED BY <1>1, <1>2, <3>1, <3>3 DEF LearnedAt, Active, Exists
  <2> QED BY <2>1, LearnedPointwiseNext
<1> QED BY <1>3, <1>4 DEF VlanInv

LEMMA HashResizeVlanInv ==
  ASSUME VlanInv, TypeOK', HashResize
  PROVE  VlanInv'
<1>1. UNCHANGED <<portVars, vlanVars>> /\ \A m \in Macs, v \in Vlans : hash'[<<m, v>>] = Nowhere
  BY DEF HashResize
<1>2. TablesWithinArray' /\ UntaggedVlanDefined' /\ FloodSetsExact'
  BY <1>1 DEF VlanInv, TablesWithinArray, UntaggedVlanDefined, FloodSetsExact, Known, Exists,
              Active, portVars, vlanVars
<1>3. LearnedInVlan'
  BY <1>1 DEF LearnedInVlan
<1> QED BY <1>2, <1>3 DEF VlanInv

(***************************************************************************)
(* The tables as alloc_port leaves them to its caller: a port made on the  *)
(* spot is idle, in VLAN 0's table and in no flood set.                    *)
(***************************************************************************)
LEMMA AllocTables ==
  ASSUME VlanInv, NEW n \in 0 .. MaxPorts, ~AllocFaults(n),
         NEW p, p = AllocPort(n), NEW r, r = AllocPortv(n)[p]
  PROVE  /\ p \in PortIds /\ p < numports /\ r \in Port
         /\ AllocPortv(n) \in [PortIds -> Port \cup {NULL}]
         /\ \A q \in PortIds : q # p => AllocPortv(n)[q] = portv[q]
         /\ \A v \in Vlans :
              /\ table[v] \subseteq AllocTable(n)[v]
              /\ AllocTable(n)[v] \subseteq table[v] \cup {p}
              /\ v \notin validvlan => AllocTable(n)[v] = {}
         /\ r.vlanuntag # NOVLAN => /\ r.vlanuntag \in validvlan
                                    /\ p \in AllocTable(n)[r.vlanuntag]
         /\ r.ep = {} <=> ~Active(p)
         /\ Active(p) => AllocTable(n) = table
         /\ ~Active(p) => \A v \in Vlans : p \notin bctag[v] /\ p \notin bcuntag[v]
         /\ Exists(p) => r = portv[p]
         /\ ~Exists(p) => r = NewPort
<1>0. TypeOK
  BY DEF VlanInv
<1>1. ~Active(p) => \A v \in Vlans : p \notin bctag[v] /\ p \notin bcuntag[v]
  BY DEF VlanInv, FloodSetsExact
<1>2. CASE Exists(p)
  <2>1. p \in PortIds /\ p < numports /\ AllocPortv(n) = portv /\ AllocTable(n) = table
    BY <1>0, <1>2, AllocPortResult
  <2>2. r = portv[p] /\ r \in Port
    BY <1>0, <1>2, <2>1, ExistingIsPort
  <2>3. \A v \in Vlans : v \notin validvlan => table[v] = {}
    BY DEF VlanInv, TablesWithinArray
  <2>4. r.vlanuntag # NOVLAN => r.vlanuntag \in validvlan /\ p \in table[r.vlanuntag]
    BY <1>2, <2>1, <2>2 DEF VlanInv, UntaggedVlanDefined
  <2> QED BY <1>0, <1>1, <1>2, <2>1, <2>2, <2>3, <2>4 DEF TypeOK, Active
<1>3. CASE ~Exists(p)
  <2>1. /\ p \in PortIds /\ p < numports
        /\ 0 \in validvlan
        /\ AllocPortv(n) = [portv EXCEPT ![p] = NewPort]
        /\ AllocTable(n) = [table EXCEPT ![0] = @ \cup {p}]
    BY <1>0, <1>3, AllocPortResult
  <2>2. r = NewPort /\ r \in Port /\ AllocPortv(n) \in [PortIds -> Port \cup {NULL}]
    BY <1>0, <2>1, NewPortIsPort DEF TypeOK
  <2>3. r.ep = {} /\ r.vlanuntag = 0 /\ ~Active(p)
    BY <1>3, <2>2 DEF NewPort, Active
  <2>4. \A v \in Vlans : /\ AllocTable(n)[v] = IF v = 0 THEN table[v] \cup {p} ELSE table[v]
                         /\ v \notin validvlan => table[v] = {}
    BY <1>0, <2>1 DEF TypeOK, VlanInv, TablesWithinArray
  <2>5. 0 \in Vlans /\ p \in AllocTable(n)[0]
    BY <2>4, PortsAssumption
  <2>6. \A q \in PortIds : q # p => AllocPortv(n)[q] = portv[q]
    BY <1>0, <2>1 DEF TypeOK
  <2>7. r.vlanuntag # NOVLAN => r.vlanuntag \in validvlan /\ p \in AllocTable(n)[r.vlanuntag]
    BY <2>1, <2>3, <2>5
  <2>8. \A v \in Vlans : /\ table[v] \subseteq AllocTable(n)[v]
                         /\ AllocTable(n)[v] \subseteq table[v] \cup {p}
                         /\ v \notin validvlan => AllocTable(n)[v] = {}
    BY <2>1, <2>4
  <2> QED BY <1>1, <1>3, <2>1, <2>2, <2>3, <2>6, <2>7, <2>8
<1> QED BY <1>2, <1>3

(***************************************************************************)
(* A step that takes the port p from alloc_port keeps the invariant if it  *)
(* leaves the port's activity and the flood sets, or opens the port and    *)
(* puts it into the flood sets of its VLANs (setup_ep).                    *)
(***************************************************************************)
LEMMA AllocatedVlanInv ==
  ASSUME VlanInv, TypeOK', NEW n \in 0 .. MaxPorts, ~AllocFaults(n),
         NEW p, p = AllocPort(n), NEW r, r = AllocPortv(n)[p],
         UNCHANGED <<numports, validvlan, hash>>,
         table' = AllocTable(n),
         \A q \in PortIds : q # p => portv'[q] = portv[q],
         Exists(p)', portv'[p].vlanuntag = r.vlanuntag,
         \/ (Active(p)' <=> Active(p)) /\ UNCHANGED <<bctag, bcuntag>>
         \/ /\ ~Active(p) /\ Active(p)'
            /\ bctag' = OpenedBctag(p, r.vlanuntag, AllocTable(n))
            /\ bcuntag' = OpenedBcuntag(p, r.vlanuntag)
  PROVE  VlanInv'
<1>1. /\ p \in PortIds /\ p < numports
      /\ \A v \in Vlans : /\ table[v] \subseteq table'[v]
                          /\ table'[v] \subseteq table[v] \cup {p}
                          /\ v \notin validvlan => table'[v] = {}
      /\ r.vlanuntag # NOVLAN => r.vlanuntag \in validvlan /\ p \in table'[r.vlanuntag]
      /\ Active(p) => table' = table
      /\ ~Active(p) => \A v \in Vlans : p \notin bctag[v] /\ p \notin bcuntag[v]
      /\ Exists(p) => r = portv[p]
  BY AllocTables
<1>2. \A q \in PortIds : q # p => /\ Exists(q)' <=> Exists(q)
                                  /\ Active(q)' <=> Active(q)
  BY DEF Exists, Active
<1>3. TablesWithinArray'
  <2>1. \A q \in PortIds : Exists(q)' => q < numports'
    BY <1>1, <1>2 DEF VlanInv, TablesWithinArray
  <2>2. Known \subseteq Known' /\ p \in Known'
    BY <1>1, <1>2 DEF Known
  <2>3. \A v \in Vlans : table[v] \subseteq Known
    BY DEF VlanInv, TablesWithinArray
  <2>4. \A v \in Vlans : table'[v] \subseteq Known'
    BY <1>1, <2>2, <2>3
  <2> QED BY <1>1, <2>1, <2>4 DEF TablesWithinArray
<1>4. UntaggedVlanDefined'
  <2> SUFFICES ASSUME NEW q \in PortIds, Exists(q)', portv'[q].vlanuntag # NOVLAN
               PROVE  /\ portv'[q].vlanuntag \in validvlan
                      /\ q \in table'[portv'[q].vlanuntag]
    BY DEF UntaggedVlanDefined
  <2>1. CASE q = p
    BY <1>1, <2>1
  <2>2. CASE q # p
    <3>1. portv[q].vlanuntag \in validvlan /\ q \in table[portv[q].vlanuntag]
      BY <1>2, <2>2 DEF VlanInv, UntaggedVlanDefined
    <3> QED BY <1>1, <2>2, <3>1 DEF VlanInv, TypeOK
  <2> QED BY <2>1, <2>2
<1>5. FloodSetsExact'
  <2>1. ASSUME NEW w \in Vlans, NEW q \in PortIds PROVE FloodAt(w, q)'
    <3>1. FloodAt(w, q)
      BY FloodPointwise DEF VlanInv
    <3>2. q # p => (q \in table'[w] <=> q \in table[w])
      BY <1>1
    <3>3. CASE (Active(p)' <=> Active(p)) /\ UNCHANGED <<bctag, bcuntag>>
      <4>1. Active(p) => portv'[p].vlanuntag = portv[p].vlanuntag /\ table' = table
        BY <1>1 DEF Active
      <4> QED BY <1>1, <1>2, <3>1, <3>2, <3>3, <4>1 DEF FloodAt
    <3>4. CASE /\ ~Active(p) /\ Active(p)'
               /\ bctag' = OpenedBctag(p, r.vlanuntag, AllocTable(n))
               /\ bcuntag' = OpenedBcuntag(p, r.vlanuntag)
      <4>1. /\ bctag'[w] = IF w = r.vlanuntag THEN bctag[w] \ {p}
                           ELSE IF w \in validvlan /\ p \in table'[w] THEN bctag[w] \cup {p}
                           ELSE bctag[w]
            /\ bcuntag'[w] = IF w = r.vlanuntag THEN bcuntag[w] \cup {p} ELSE bcuntag[w]
        BY <3>4 DEF OpenedBctag, OpenedBcuntag
      <4>2. w \in validvlan \/ p \notin table'[w]
        BY <1>1
      <4>3. w = r.vlanuntag => p \in table'[w]
        BY <1>1, PortsAssumption DEF NOVLAN
      <4>4. CASE q = p
        BY <1>1, <3>4, <4>1, <4>2, <4>3, <4>4 DEF FloodAt
      <4>5. CASE q # p
        BY <1>1, <1>2, <3>1, <3>2, <4>1, <4>5 DEF FloodAt
      <4> QED BY <4>4, <4>5
    <3> QED BY <3>3, <3>4
  <2> QED BY <2>1, FloodPointwiseNext
<1>6. LearnedInVlan'
  <2>1. ASSUME NEW m \in Macs, NEW w \in Vlans, NEW q \in PortIds PROVE LearnedAt(m, w, q)'
    <3>1. LearnedAt(m, w, q)
      BY LearnedPointwise DEF VlanInv
    <3>2. Active(q) => Active(q)'
      BY <1>2
    <3> QED BY <1>1, <3>1, <3>2 DEF LearnedAt
  <2> QED BY <2>1, LearnedPointwiseNext
<1> QED BY <1>3, <1>4, <1>5, <1>6 DEF VlanInv

LEMMA FaultVlanInv ==
  ASSUME VlanInv, TypeOK', Fault
  PROVE  VlanInv'
BY SameTablesVlanInv DEF Fault, portVars, vlanVars, Exists, Active

LEMMA CreatePortVlanInv ==
  ASSUME VlanInv, TypeOK', NEW n \in 0 .. MaxPorts, CreatePort(n)
  PROVE  VlanInv'
<1>1. CASE AllocFaults(n)
  BY <1>1, FaultVlanInv DEF CreatePort
<1>2. CASE ~AllocFaults(n)
  <2>p. PICK p : p = AllocPort(n)
    OBVIOUS
  <2>r. PICK r : r = AllocPortv(n)[p]
    OBVIOUS
  <2>1. /\ p \in PortIds /\ r \in Port
        /\ AllocPortv(n) \in [PortIds -> Port \cup {NULL}]
        /\ \A q \in PortIds : q # p => AllocPortv(n)[q] = portv[q]
        /\ r.ep = {} <=> ~Active(p)
    BY <1>2, <2>p, <2>r, AllocTables
  <2>2. /\ portv' = [AllocPortv(n) EXCEPT ![p].inpool = FALSE]
        /\ table' = AllocTable(n)
        /\ UNCHANGED <<numports, validvlan, hash, bctag, bcuntag>>
    BY <1>2, <2>p DEF CreatePort
  <2>3. /\ portv'[p] = [r EXCEPT !.inpool = FALSE]
        /\ \A q \in PortIds : q # p => portv'[q] = portv[q]
    BY <2>r, <2>1, <2>2
  <2>4. /\ portv'[p] # NULL
        /\ portv'[p].vlanuntag = r.vlanuntag
        /\ portv'[p].ep = r.ep
    BY <2>1, <2>3, NullIsNoPort, ZenonT(30) DEF Port
  <2>5. Exists(p)' /\ (Active(p)' <=> Active(p))
    BY <2>1, <2>4 DEF Exists, Active
  <2> QED BY <1>2, <2>p, <2>r, <2>2, <2>3, <2>4, <2>5, AllocatedVlanInv
<1> QED BY <1>1, <1>2

(***************************************************************************)
(* The three outcomes of a plug request: refused, one more endpoint on a   *)
(* port in use, the first endpoint of a port.                              *)
(***************************************************************************)
LEMMA SetupEpVlanInv ==
  ASSUME VlanInv, TypeOK', NEW n \in 0 .. MaxPorts, NEW e \in Endpoints, NEW u \in Users,
         NEW m \in Modules, SetupEp(n, e, u, m)
  PROVE  VlanInv'
<1>1. CASE AllocFaults(n)
  BY <1>1, FaultVlanInv DEF SetupEp
<1>2. CASE ~AllocFaults(n)
  <2>p. PICK p : p = AllocPort(n)
    OBVIOUS
  <2>r. PICK r : r = AllocPortv(n)[p]
    OBVIOUS
  <2> DEFINE plugged == [r EXCEPT !.ep = @ \cup {e}, !.curuser = u, !.ms = m]
  <2>1. /\ p \in PortIds /\ r \in Port
        /\ AllocPortv(n) \in [PortIds -> Port \cup {NULL}]
        /\ \A q \in PortIds : q # p => AllocPortv(n)[q] = portv[q]
        /\ r.ep = {} <=> ~Active(p)
    BY <1>2, <2>p, <2>r, AllocTables
  <2>2. table' = AllocTable(n) /\ UNCHANGED <<numports, validvlan, hash>>
    BY <1>2 DEF SetupEp
  <2>3. CASE ~MayPlug(r, u)
    <3>1. portv' = AllocPortv(n) /\ UNCHANGED <<bctag, bcuntag>>
      BY <1>2, <2>p, <2>r, <2>3 DEF SetupEp
    <3>2. /\ Exists(p)' /\ (Active(p)' <=> Active(p))
          /\ portv'[p].vlanuntag = r.vlanuntag
          /\ \A q \in PortIds : q # p => portv'[q] = portv[q]
      BY <2>r, <2>1, <3>1, NullIsNoPort DEF Exists, Active
    <3> QED BY <1>2, <2>p, <2>r, <2>2, <3>1, <3>2, AllocatedVlanInv
  <2>4. CASE MayPlug(r, u)
    <3>1. portv' = [AllocPortv(n) EXCEPT ![p] = plugged]
      BY <1>2, <2>p, <2>r, <2>4 DEF SetupEp
    <3>2. portv'[p] = plugged /\ \A q \in PortIds : q # p => portv'[q] = portv[q]
      BY <2>1, <3>1
    <3>3. plugged \in Port /\ plugged.vlanuntag = r.vlanuntag /\ plugged.ep # {}
      BY <2>1 DEF Port
    <3>4. Exists(p)' /\ Active(p)' /\ portv'[p].vlanuntag = r.vlanuntag
      BY <3>2, <3>3, NullIsNoPort DEF Exists, Active
    <3>5. \/ Active(p) /\ UNCHANGED <<bctag, bcuntag>>
          \/ /\ ~Active(p)
             /\ bctag' = OpenedBctag(p, r.vlanuntag, AllocTable(n))
             /\ bcuntag' = OpenedBcuntag(p, r.vlanuntag)
      BY <1>2, <2>p, <2>r, <2>1, <2>4 DEF SetupEp
    <3> QED BY <1>2, <2>p, <2>r, <2>2, <3>2, <3>4, <3>5, AllocatedVlanInv
  <2> QED BY <2>3, <2>4
<1> QED BY <1>1, <1>2

(***************************************************************************)
(* Every step keeps the invariant.                                         *)
(***************************************************************************)
LEMMA NextVlanInv == VlanInv /\ [Next]_vars => VlanInv'
<1> SUFFICES ASSUME VlanInv, [Next]_vars PROVE VlanInv'
  OBVIOUS
<1>0. TypeOK /\ TypeOK'
  BY NextTypeOK DEF VlanInv
<1>1. ASSUME NEW n \in 1 .. MaxPorts, PortSetNumPorts(n) PROVE VlanInv'
  BY <1>0, <1>1, PortSetNumPortsVlanInv
<1>2. ASSUME NEW b \in BOOLEAN, PortSetHub(b) PROVE VlanInv'
  BY <1>0, <1>2, SameTablesVlanInv DEF PortSetHub, Exists, Active
<1>3. ASSUME NEW p \in PortIds, NEW v \in Vlans \cup {NOVLAN}, PortSetVlan(p, v)
      PROVE  VlanInv'
  BY <1>0, <1>3, PortSetVlanVlanInv
<1>4. CASE PortCreateAuto
  BY <1>0, <1>4, CreatePortVlanInv, PortsAssumption DEF PortCreateAuto
<1>5. ASSUME NEW n \in PortIds, PortCreate(n) PROVE VlanInv'
  BY <1>0, <1>5, CreatePortVlanInv, PortsAssumption DEF PortCreate, PortIds
<1>6. ASSUME NEW p \in PortIds, p \in Known,
             \/ \E b \in BOOLEAN : PortAllocatable(p, b)
             \/ \E u \in Users : PortSetUser(p, u)
             \/ \E g \in Groups : PortSetGroup(p, g)
      PROVE  VlanInv'
  <2>1. portv[p] \in Port
    BY <1>0, <1>6, ExistingIsPort DEF Known
  <2>2. PICK r \in Port : /\ portv' = [portv EXCEPT ![p] = r]
                          /\ r.ep = portv[p].ep /\ r.vlanuntag = portv[p].vlanuntag
    <3>1. CASE \E b \in BOOLEAN : PortAllocatable(p, b)
      BY <2>1, <3>1, ZenonT(30) DEF PortAllocatable, Port
    <3>2. CASE \E u \in Users : PortSetUser(p, u)
      BY <2>1, <3>2 DEF PortSetUser, Port
    <3>3. CASE \E g \in Groups : PortSetGroup(p, g)
      BY <2>1, <3>3 DEF PortSetGroup, Port
    <3> QED BY <1>6, <3>1, <3>2, <3>3
  <2>3. portv'[p] = r /\ \A q \in PortIds : q # p => portv'[q] = portv[q]
    BY <1>0, <2>2 DEF TypeOK
  <2>4. \A q \in PortIds : /\ Exists(q)' <=> Exists(q)
                           /\ Active(q)' <=> Active(q)
                           /\ Exists(q) => portv'[q].vlanuntag = portv[q].vlanuntag
    BY <2>1, <2>2, <2>3, NullIsNoPort DEF Exists, Active
  <2>5. UNCHANGED <<numports, vlanVars, hash>>
    BY <1>6 DEF PortAllocatable, PortSetUser, PortSetGroup
  <2> QED BY <1>0, <2>4, <2>5, SameTablesVlanInv
<1>7. ASSUME NEW v \in Vlans, VlanCreate(v) PROVE VlanInv'
  BY <1>0, <1>7, VlanCreateVlanInv
<1>8. ASSUME NEW v \in Vlans, VlanRemove(v) PROVE VlanInv'
  BY <1>0, <1>8, VlanRemoveVlanInv
<1>9. ASSUME NEW v \in Vlans, NEW p \in PortIds, VlanAddPort(v, p) PROVE VlanInv'
  BY <1>0, <1>9, VlanAddPortVlanInv
<1>10. ASSUME NEW v \in Vlans, NEW p \in PortIds, VlanDelPort(v, p) PROVE VlanInv'
  BY <1>0, <1>10, VlanDelPortVlanInv
<1>11. ASSUME NEW n \in 0 .. MaxPorts, NEW e \in Endpoints, NEW u \in Users,
              NEW m \in Modules, SetupEp(n, e, u, m)
       PROVE  VlanInv'
  BY <1>0, <1>11, SetupEpVlanInv
<1>12. ASSUME NEW p \in PortIds, NEW e \in Endpoints, EpClose(p, e) PROVE VlanInv'
  BY <1>0, <1>12, CloseVlanInv DEF EpClose
<1>13. ASSUME NEW e \in Endpoints, CloseEp(e) PROVE VlanInv'
  BY <1>0, <1>13, CloseVlanInv DEF CloseEp
<1>14. ASSUME NEW p \in PortIds, NEW t \in Vlans \cup {NOVLAN}, NEW src \in Macs,
              HandleInPacket(p, t, src)
       PROVE  VlanInv'
  BY <1>0, <1>14, HandleInPacketVlanInv
<1>15. CASE HashResize
  BY <1>0, <1>15, HashResizeVlanInv
<1>16. CASE UNCHANGED vars
  BY <1>0, <1>16, SameTablesVlanInv DEF vars, portVars, Exists, Active
<1>17. ASSUME NEW p \in PortIds, NEW b \in BOOLEAN, PortAllocatable(p, b) PROVE VlanInv'
  BY <1>6, <1>17 DEF PortAllocatable
<1>18. ASSUME NEW p \in PortIds, NEW u \in Users, PortSetUser(p, u) PROVE VlanInv'
  BY <1>6, <1>18 DEF PortSetUser
<1>19. ASSUME NEW p \in PortIds, NEW g \in Groups, PortSetGroup(p, g) PROVE VlanInv'
  BY <1>6, <1>19 DEF PortSetGroup
<1> QED
  BY <1>1, <1>2, <1>3, <1>4, <1>5, <1>7, <1>8, <1>9, <1>10, <1>11, <1>12, <1>13, <1>14,
     <1>15, <1>16, <1>17, <1>18, <1>19 DEF Next

LEMMA VlanInvHolds == Spec => []VlanInv
<1>1. Init => VlanInv
  BY InitVlanInv
<1>2. VlanInv /\ [Next]_vars => VlanInv'
  BY NextVlanInv
<1> QED BY <1>1, <1>2, PTL DEF Spec

(***************************************************************************)
(* For up to 32 ports and VLANs below 32 (PortsAssumption): no port lies   *)
(* beyond the array, and no VLAN table names a port that does not exist or *)
(* belongs to a VLAN that is not defined.  With more of either the tables  *)
(* of bitarray.h are not the sets that this speaks of.                     *)
(***************************************************************************)
THEOREM PortsWithinArray == Spec => []TablesWithinArray
<1>1. VlanInv => TablesWithinArray
  BY DEF VlanInv
<1> QED BY <1>1, VlanInvHolds, PTL

(***************************************************************************)
(* Whatever vlan and port commands came before, the VLAN of a port's       *)
(* untagged traffic is defined and has the port in its table.              *)
(***************************************************************************)
THEOREM PortsUntaggedVlan == Spec => []UntaggedVlanDefined
<1>1. VlanInv => UntaggedVlanDefined
  BY DEF VlanInv
<1> QED BY <1>1, VlanInvHolds, PTL

(***************************************************************************)
(* The flood sets are the active ports of the VLAN, split by tagging.      *)
(***************************************************************************)
THEOREM PortsFloodSets == Spec => []FloodSetsExact
<1>1. VlanInv => FloodSetsExact
  BY DEF VlanInv
<1> QED BY <1>1, VlanInvHolds, PTL

(***************************************************************************)
(* The MAC table names active ports of the address's VLAN only.            *)
(***************************************************************************)
THEOREM PortsLearned == Spec => []LearnedInVlan
<1>1. VlanInv => LearnedInVlan
  BY DEF VlanInv
<1> QED BY <1>1, VlanInvHolds, PTL

-----------------------------------------------------------------------------
(***************************************************************************)
(* The invariant of the endpoints.  It is inductive with the types alone:  *)
(* an endpoint that is being plugged is on no port yet.                    *)
(***************************************************************************)
EndpointInv ==
  /\ TypeOK
  /\ SharedByOneUser
  /\ ActiveHasModule

(***************************************************************************)
(* EndpointInv for one port record.                                        *)
(***************************************************************************)
GoodPort(r) ==
  /\ \A e \in r.ep : owner[e] = r.curuser
  /\ r.ep = {} => r.curuser = AnyUser
  /\ r.ep # {} <=> r.ms # NULL

LEMMA GoodPorts ==
  ASSUME TypeOK
  PROVE  EndpointInv <=> \A q \in PortIds : Exists(q) => GoodPort(portv[q])
BY DEF EndpointInv, SharedByOneUser, ActiveHasModule, GoodPort

LEMMA GoodPortsNext ==
  ASSUME TypeOK'
  PROVE  EndpointInv' <=> \A q \in PortIds : Exists(q)' => GoodPort(portv[q])'
BY DEF EndpointInv, SharedByOneUser, ActiveHasModule, GoodPort, Exists

LEMMA GoodNewPort == GoodPort(NewPort)
BY DEF GoodPort, NewPort

(***************************************************************************)
(* A step that leaves the owners, and the endpoints, user and module of    *)
(* the ports that exist, keeps the invariant.                              *)
(***************************************************************************)
LEMMA SamePortsEndpointInv ==
  ASSUME EndpointInv, TypeOK', owner' = owner,
         \A q \in PortIds : Exists(q)' =>
           \/ /\ Exists(q)
              /\ portv'[q].ep = portv[q].ep
              /\ portv'[q].curuser = portv[q].curuser
              /\ portv'[q].ms = portv[q].ms
           \/ /\ portv'[q].ep = {}
              /\ portv'[q].curuser = AnyUser
              /\ portv'[q].ms = NULL
  PROVE  EndpointInv'
<1>1. \A q \in PortIds : Exists(q) => GoodPort(portv[q])
  BY GoodPorts DEF EndpointInv
<1>2. \A q \in PortIds : Exists(q)' => GoodPort(portv[q])'
  BY <1>1 DEF GoodPort
<1> QED BY <1>2, GoodPortsNext

(***************************************************************************)
(* The port that alloc_port returns has endpoints of one user, or none.    *)
(***************************************************************************)
LEMMA AllocEndpoints ==
  ASSUME EndpointInv, NEW n \in 0 .. MaxPorts, ~AllocFaults(n),
         NEW p, p = AllocPort(n), NEW r, r = AllocPortv(n)[p]
  PROVE  /\ p \in PortIds /\ r \in Port /\ GoodPort(r)
         /\ AllocPortv(n) \in [PortIds -> Port \cup {NULL}]
         /\ \A q \in PortIds : q # p => AllocPortv(n)[q] = portv[q]
         /\ r = IF Exists(p) THEN portv[p] ELSE NewPort
<1>0. TypeOK
  BY DEF EndpointInv
<1>1. CASE Exists(p)
  <2>1. p \in PortIds /\ AllocPortv(n) = portv
    BY <1>0, <1>1, AllocPortResult
  <2>2. r = portv[p] /\ r \in Port /\ GoodPort(r)
    BY <1>0, <1>1, <2>1, ExistingIsPort, GoodPorts
  <2> QED BY <1>0, <1>1, <2>1, <2>2 DEF TypeOK
<1>2. CASE ~Exists(p)
  <2>1. p \in PortIds /\ AllocPortv(n) = [portv EXCEPT ![p] = NewPort]
    BY <1>0, <1>2, AllocPortResult
  <2> QED BY <1>0, <1>2, <2>1, NewPortIsPort, GoodNewPort DEF TypeOK
<1> QED BY <1>1, <1>2

LEMMA CreatePortEndpointInv ==
  ASSUME EndpointInv, TypeOK', NEW n \in 0 .. MaxPorts, CreatePort(n)
  PROVE  EndpointInv'
<1>1. CASE AllocFaults(n)
  BY <1>1, SamePortsEndpointInv DEF CreatePort, Fault, portVars, Exists
<1>2. CASE ~AllocFaults(n)
  <2>p. PICK p : p = AllocPort(n)
    OBVIOUS
  <2>r. PICK r : r = AllocPortv(n)[p]
    OBVIOUS
  <2>1. /\ p \in PortIds /\ r \in Port
        /\ AllocPortv(n) \in [PortIds -> Port \cup {NULL}]
        /\ \A q \in PortIds : q # p => AllocPortv(n)[q] = portv[q]
        /\ r = IF Exists(p) THEN portv[p] ELSE NewPort
    BY <1>2, <2>p, <2>r, AllocEndpoints
  <2>2. portv' = [AllocPortv(n) EXCEPT ![p].inpool = FALSE] /\ owner' = owner
    BY <1>2, <2>p DEF CreatePort
  <2>3. /\ portv'[p] = [r EXCEPT !.inpool = FALSE]
        /\ \A q \in PortIds : q # p => portv'[q] = portv[q]
    BY <2>r, <2>1, <2>2
  <2>4. portv'[p].ep = r.ep /\ portv'[p].curuser = r.curuser /\ portv'[p].ms = r.ms
    BY <2>1, <2>3 DEF Port
  <2>5. /\ Exists(p) => r = portv[p]
        /\ ~Exists(p) => r.ep = {} /\ r.curuser = AnyUser /\ r.ms = NULL
    BY <2>1 DEF NewPort
  <2> QED BY <2>2, <2>3, <2>4, <2>5, SamePortsEndpointInv DEF Exists
<1> QED BY <1>1, <1>2

(***************************************************************************)
(* A plugged endpoint joins endpoints of the user it was plugged for.      *)
(***************************************************************************)
LEMMA SetupEpEndpointInv ==
  ASSUME EndpointInv, TypeOK', NEW n \in 0 .. MaxPorts, NEW e \in Endpoints,
         NEW u \in Users, NEW m \in Modules, SetupEp(n, e, u, m)
  PROVE  EndpointInv'
<1>1. CASE AllocFaults(n)
  BY <1>1, SamePortsEndpointInv DEF SetupEp, Fault, portVars, Exists
<1>2. CASE ~AllocFaults(n)
  <2>p. PICK p : p = AllocPort(n)
    OBVIOUS
  <2>r. PICK r : r = AllocPortv(n)[p]
    OBVIOUS
  <2> DEFINE plugged == [r EXCEPT !.ep = @ \cup {e}, !.curuser = u, !.ms = m]
  <2>1. /\ p \in PortIds /\ r \in Port /\ GoodPort(r)
        /\ AllocPortv(n) \in [PortIds -> Port \cup {NULL}]
        /\ \A q \in PortIds : q # p => AllocPortv(n)[q] = portv[q]
        /\ r = IF Exists(p) THEN portv[p] ELSE NewPort
    BY <1>2, <2>p, <2>r, AllocEndpoints
  <2>2. CASE ~MayPlug(r, u)
    <3>1. portv' = AllocPortv(n) /\ owner' = owner
      BY <1>2, <2>p, <2>r, <2>2 DEF SetupEp
    <3>2. portv'[p] = r /\ \A q \in PortIds : q # p => portv'[q] = portv[q]
      BY <2>r, <2>1, <3>1
    <3>3. /\ Exists(p) => r = portv[p]
          /\ ~Exists(p) => r.ep = {} /\ r.curuser = AnyUser /\ r.ms = NULL
      BY <2>1 DEF NewPort
    <3> QED BY <3>1, <3>2, <3>3, SamePortsEndpointInv DEF Exists
  <2>3. CASE MayPlug(r, u)
    <3>1. /\ portv' = [AllocPortv(n) EXCEPT ![p] = plugged]
          /\ owner' = [owner EXCEPT ![e] = u]
          /\ e \notin Connected
      BY <1>2, <2>p, <2>r, <2>3 DEF SetupEp
    <3>2. portv'[p] = plugged /\ \A q \in PortIds : q # p => portv'[q] = portv[q]
      BY <2>1, <3>1
    <3>3. owner'[e] = u /\ \A f \in Endpoints : f # e => owner'[f] = owner[f]
      BY <3>1 DEF EndpointInv, TypeOK
    <3>4. plugged.ep = r.ep \cup {e} /\ plugged.curuser = u /\ plugged.ms = m
      BY <2>1 DEF Port
    <3>5. r.ep # {} => r.curuser = u
      BY <2>3 DEF MayPlug, CurUser
    <3>6. GoodPort(portv[p])'
      <4>1. \A f \in r.ep : f \in Endpoints /\ owner[f] = u
        BY <2>1, <3>5 DEF GoodPort, Port
      <4>2. \A f \in plugged.ep : owner'[f] = u
        BY <3>3, <3>4, <4>1
      <4> QED BY <3>2, <3>4, <4>2, UsersAssumption DEF GoodPort
    <3>7. ASSUME NEW q \in PortIds, q # p, Exists(q)' PROVE GoodPort(portv[q])'
      <4>1. Exists(q) /\ portv'[q] = portv[q] /\ portv[q] \in Port
        BY <3>2, <3>7, ExistingIsPort DEF Exists, EndpointInv
      <4>2. GoodPort(portv[q])
        BY <4>1, GoodPorts DEF EndpointInv
      <4>3. e \notin portv[q].ep /\ portv[q].ep \subseteq Endpoints
        BY <3>1, <4>1 DEF Connected, Port
      <4> QED BY <3>3, <4>1, <4>2, <4>3 DEF GoodPort
    <3> QED BY <3>6, <3>7, GoodPortsNext
  <2> QED BY <2>2, <2>3
<1> QED BY <1>1, <1>2

LEMMA CloseEndpointInv ==
  ASSUME EndpointInv, TypeOK', NEW p \in PortIds, NEW e \in Endpoints, CloseEpPortFd(p, e)
  PROVE  EndpointInv'
<1> DEFINE left == portv[p].ep \ {e}
<1>1. /\ p \in Known /\ portv[p] \in Port
      /\ owner' = owner
  BY ExistingIsPort DEF CloseEpPortFd, Known, EndpointInv
<1>2. CASE left # {}
  <2>1. portv' = [portv EXCEPT ![p].ep = left]
    BY <1>2 DEF CloseEpPortFd
  <2>2. /\ portv'[p] = [portv[p] EXCEPT !.ep = left]
        /\ \A q \in PortIds : q # p => portv'[q] = portv[q]
    BY <2>1 DEF EndpointInv, TypeOK
  <2>3. /\ portv'[p].ep = left
        /\ portv'[p].curuser = portv[p].curuser
        /\ portv'[p].ms = portv[p].ms
    BY <1>1, <2>2 DEF Port
  <2>4. GoodPort(portv[p])
    BY <1>1, GoodPorts DEF EndpointInv, Known
  <2>5. GoodPort(portv[p])'
    BY <1>1, <1>2, <2>3, <2>4 DEF GoodPort
  <2>6. \A q \in PortIds : q # p /\ Exists(q)' => GoodPort(portv[q])'
    BY <1>1, <2>2, GoodPorts DEF EndpointInv, GoodPort, Exists
  <2> QED BY <2>5, <2>6, GoodPortsNext
<1>3. CASE left = {}
  <2>1. portv' = [portv EXCEPT ![p] = IdlePort(portv[p])]
    BY <1>3 DEF CloseEpPortFd
  <2>2. /\ portv'[p] = IdlePort(portv[p])
        /\ \A q \in PortIds : q # p => portv'[q] = portv[q]
    BY <2>1 DEF EndpointInv, TypeOK
  <2>3. portv'[p].ep = {} /\ portv'[p].curuser = AnyUser /\ portv'[p].ms = NULL
    BY <1>1, <2>2, IdlePortIsPort
  <2> QED BY <1>1, <2>2, <2>3, SamePortsEndpointInv DEF Exists
<1> QED BY <1>2, <1>3

(***************************************************************************)
(* The commands that set the VLAN, the pool flag, the user or the group of *)
(* a port touch neither its endpoints nor their user nor their module.     *)
(***************************************************************************)
LEMMA PortAttributeEndpoints ==
  ASSUME TypeOK, NEW p \in PortIds,
         \/ \E v \in Vlans \cup {NOVLAN} : PortSetVlan(p, v)
         \/ \E b \in BOOLEAN : PortAllocatable(p, b)
         \/ \E u \in Users : PortSetUser(p, u)
         \/ \E g \in Groups : PortSetGroup(p, g)
  PROVE  /\ Exists(p) /\ owner' = owner
         /\ \A q \in PortIds : q # p => portv'[q] = portv[q]
         /\ portv'[p].ep = portv[p].ep
         /\ portv'[p].curuser = portv[p].curuser
         /\ portv'[p].ms = portv[p].ms
<1>1. p \in Known /\ owner' = owner
  BY DEF PortSetVlan, PortAllocatable, PortSetUser, PortSetGroup
<1>2. Exists(p) /\ portv[p] \in Port
  BY <1>1, ExistingIsPort DEF Known
<1>3. PICK r \in Port : /\ portv' = [portv EXCEPT ![p] = r]
                        /\ r.ep = portv[p].ep
                        /\ r.curuser = portv[p].curuser
                        /\ r.ms = portv[p].ms
  <2>1. CASE \E v \in Vlans \cup {NOVLAN} : PortSetVlan(p, v)
    <3>1. PICK v \in Vlans \cup {NOVLAN} : PortSetVlan(p, v)
      BY <2>1
    <3>2. portv' = [portv EXCEPT ![p] = [portv[p] EXCEPT !.vlanuntag = v]]
      BY <3>1 DEF PortSetVlan
    <3>3. [portv[p] EXCEPT !.vlanuntag = v] \in Port
      BY <1>2, <3>1 DEF Port
    <3> QED BY <1>2, <3>2, <3>3 DEF Port
  <2>2. CASE \E b \in BOOLEAN : PortAllocatable(p, b)
    BY <1>2, <2>2, ZenonT(30) DEF PortAllocatable, Port
  <2>3. CASE \E u \in Users : PortSetUser(p, u)
    BY <1>2, <2>3 DEF PortSetUser, Port
  <2>4. CASE \E g \in Groups : PortSetGroup(p, g)
    BY <1>2, <2>4 DEF PortSetGroup, Port
  <2> QED BY <2>1, <2>2, <2>3, <2>4
<1> QED BY <1>1, <1>2, <1>3 DEF TypeOK

(***************************************************************************)
(* Every other step but alloc_port's callers and close_ep_port_fd leaves   *)
(* the port array as it is.                                                *)
(***************************************************************************)
PortvKept ==
  \/ \E n \in 1 .. MaxPorts : PortSetNumPorts(n)
  \/ \E b \in BOOLEAN : PortSetHub(b)
  \/ \E v \in Vlans : VlanCreate(v) \/ VlanRemove(v)
  \/ \E v \in Vlans, p \in PortIds : VlanAddPort(v, p) \/ VlanDelPort(v, p)
  \/ \E p \in PortIds, t \in Vlans \cup {NOVLAN}, src \in Macs : HandleInPacket(p, t, src)
  \/ HashResize
  \/ UNCHANGED vars

LEMMA PortvKeptUnchanged == PortvKept => UNCHANGED <<portv, owner>>
BY DEF PortvKept, PortSetNumPorts, PortSetHub, VlanCreate, VlanRemove, VlanAddPort,
       VlanDelPort, HandleInPacket, HashResize, vars, portVars

(***************************************************************************)
(* The steps of the switch by what they do to the port array.              *)
(***************************************************************************)
LEMMA NextByPortv ==
  ASSUME [Next]_vars
  PROVE  \/ PortvKept
         \/ \E p \in PortIds :
              \/ \E v \in Vlans \cup {NOVLAN} : PortSetVlan(p, v)
              \/ \E b \in BOOLEAN : PortAllocatable(p, b)
              \/ \E u \in Users : PortSetUser(p, u)
              \/ \E g \in Groups : PortSetGroup(p, g)
         \/ \E n \in 0 .. MaxPorts : CreatePort(n)
         \/ \E n \in 0 .. MaxPorts, e \in Endpoints, u \in Users, m \in Modules :
              SetupEp(n, e, u, m)
         \/ \E p \in PortIds, e \in Endpoints : CloseEpPortFd(p, e)
<1>1. CASE PortCreateAuto
  BY <1>1, PortsAssumption DEF PortCreateAuto
<1>2. CASE \E n \in PortIds : PortCreate(n)
  BY <1>2, PortsAssumption DEF PortCreate, PortIds
<1>3. CASE \E p \in PortIds, e \in Endpoints : EpClose(p, e)
  BY <1>3 DEF EpClose
<1>4. CASE \E e \in Endpoints : CloseEp(e)
  BY <1>4 DEF CloseEp
<1>5. CASE UNCHANGED vars
  BY <1>5 DEF PortvKept
<1> QED BY <1>1, <1>2, <1>3, <1>4, <1>5 DEF Next, PortvKept

LEMMA InitEndpointInv == Init => EndpointInv
<1> SUFFICES ASSUME Init PROVE EndpointInv
  OBVIOUS
<1>1. \A p \in PortIds : ~Exists(p)
  BY DEF Init, Exists
<1> QED BY <1>1, InitTypeOK, GoodPorts

LEMMA NextEndpointInv == EndpointInv /\ [Next]_vars => EndpointInv'
<1> SUFFICES ASSUME EndpointInv, [Next]_vars PROVE EndpointInv'
  OBVIOUS
<1>0. TypeOK /\ TypeOK'
  BY NextTypeOK DEF EndpointInv
<1>1. CASE PortvKept
  BY <1>0, <1>1, PortvKeptUnchanged, SamePortsEndpointInv DEF Exists
<1>2. ASSUME NEW p \in PortIds,
             \/ \E v \in Vlans \cup {NOVLAN} : PortSetVlan(p, v)
             \/ \E b \in BOOLEAN : PortAllocatable(p, b)
             \/ \E u \in Users : PortSetUser(p, u)
             \/ \E g \in Groups : PortSetGroup(p, g)
      PROVE  EndpointInv'
  <2>1. /\ Exists(p) /\ owner' = owner
        /\ \A q \in PortIds : q # p => portv'[q] = portv[q]
        /\ portv'[p].ep = portv[p].ep
        /\ portv'[p].curuser = portv[p].curuser
        /\ portv'[p].ms = portv[p].ms
    BY <1>0, <1>2, PortAttributeEndpoints
  <2> QED BY <1>0, <2>1, SamePortsEndpointInv DEF Exists
<1>3. ASSUME NEW n \in 0 .. MaxPorts, CreatePort(n) PROVE EndpointInv'
  BY <1>0, <1>3, CreatePortEndpointInv
<1>4. ASSUME NEW n \in 0 .. MaxPorts, NEW e \in Endpoints, NEW u \in Users,
             NEW m \in Modules, SetupEp(n, e, u, m)
      PROVE  EndpointInv'
  BY <1>0, <1>4, SetupEpEndpointInv
<1>5. ASSUME NEW p \in PortIds, NEW e \in Endpoints, CloseEpPortFd(p, e) PROVE EndpointInv'
  BY <1>0, <1>5, CloseEndpointInv
<1> QED BY <1>1, <1>2, <1>3, <1>4, <1>5, NextByPortv

LEMMA EndpointInvHolds == Spec => []EndpointInv
<1>1. Init => EndpointInv
  BY InitEndpointInv
<1>2. EndpointInv /\ [Next]_vars => EndpointInv'
  BY NextEndpointInv
<1> QED BY <1>1, <1>2, PTL DEF Spec

(***************************************************************************)
(* The endpoints that share a port were plugged for the port's user, and   *)
(* an idle port has none.                                                  *)
(***************************************************************************)
THEOREM PortsSharedByOneUser == Spec => []SharedByOneUser
<1>1. EndpointInv => SharedByOneUser
  BY DEF EndpointInv
<1> QED BY <1>1, EndpointInvHolds, PTL

(***************************************************************************)
(* A port has a module to send and to unplug with while it has endpoints.  *)
(***************************************************************************)
THEOREM PortsActiveHasModule == Spec => []ActiveHasModule
<1>1. EndpointInv => ActiveHasModule
  BY DEF EndpointInv
<1> QED BY <1>1, EndpointInvHolds, PTL

(***************************************************************************)
(* The step of OpenedByAdmitted for one port.                              *)
(***************************************************************************)
AdmittedAt(p) ==
  ~Active(p) /\ Active(p)' /\ portv'[p].curuser # AnyUser =>
    CheckportAc(IF Exists(p) THEN portv[p] ELSE NewPort, portv'[p].curuser)

LEMMA SetupEpAdmits ==
  ASSUME EndpointInv, NEW n \in 0 .. MaxPorts, NEW e \in Endpoints, NEW u \in Users,
         NEW m \in Modules, SetupEp(n, e, u, m), NEW q \in PortIds
  PROVE  AdmittedAt(q)
<1>1. CASE AllocFaults(n)
  BY <1>1 DEF SetupEp, Fault, portVars, AdmittedAt, Active, Exists
<1>2. CASE ~AllocFaults(n)
  <2>p. PICK p : p = AllocPort(n)
    OBVIOUS
  <2>r. PICK r : r = AllocPortv(n)[p]
    OBVIOUS
  <2> DEFINE plugged == [r EXCEPT !.ep = @ \cup {e}, !.curuser = u, !.ms = m]
  <2>1. /\ p \in PortIds /\ r \in Port /\ GoodPort(r)
        /\ AllocPortv(n) \in [PortIds -> Port \cup {NULL}]
        /\ \A s \in PortIds : s # p => AllocPortv(n)[s] = portv[s]
        /\ r = IF Exists(p) THEN portv[p] ELSE NewPort
    BY <1>2, <2>p, <2>r, AllocEndpoints
  <2>2. ~Active(p) => r.ep = {}
    BY <2>1 DEF NewPort, Active
  <2>3. CASE ~MayPlug(r, u)
    <3>1. portv' = AllocPortv(n)
      BY <1>2, <2>p, <2>r, <2>3 DEF SetupEp
    <3>2. portv'[p] = r /\ \A s \in PortIds : s # p => portv'[s] = portv[s]
      BY <2>r, <2>1, <3>1
    <3> QED BY <2>2, <3>2 DEF AdmittedAt, Active, Exists
  <2>4. CASE MayPlug(r, u)
    <3>1. portv' = [AllocPortv(n) EXCEPT ![p] = plugged]
      BY <1>2, <2>p, <2>r, <2>4 DEF SetupEp
    <3>2. portv'[p] = plugged /\ \A s \in PortIds : s # p => portv'[s] = portv[s]
      BY <2>1, <3>1
    <3>3. portv'[p].curuser = u
      BY <2>1, <3>2 DEF Port
    <3>4. r.ep = {} => CheckportAc(r, u) \/ u = AnyUser
      BY <2>1, <2>4 DEF GoodPort, MayPlug, CurUser
    <3>5. CASE q = p
      BY <2>1, <2>2, <3>3, <3>4, <3>5 DEF AdmittedAt
    <3>6. CASE q # p
      BY <3>2, <3>6 DEF AdmittedAt, Active, Exists
    <3> QED BY <3>5, <3>6
  <2> QED BY <2>3, <2>4
<1> QED BY <1>1, <1>2

(***************************************************************************)
(* No step but an admitted plug request makes an idle port active.         *)
(***************************************************************************)
LEMMA NextAdmits ==
  ASSUME EndpointInv, [Next]_vars, NEW q \in PortIds
  PROVE  AdmittedAt(q)
<1>0. TypeOK
  BY DEF EndpointInv
<1>1. CASE PortvKept
  BY <1>1, PortvKeptUnchanged DEF AdmittedAt, Active, Exists
<1>2. ASSUME NEW p \in PortIds,
             \/ \E v \in Vlans \cup {NOVLAN} : PortSetVlan(p, v)
             \/ \E b \in BOOLEAN : PortAllocatable(p, b)
             \/ \E u \in Users : PortSetUser(p, u)
             \/ \E g \in Groups : PortSetGroup(p, g)
      PROVE  AdmittedAt(q)
  <2>1. /\ Exists(p)
        /\ \A s \in PortIds : s # p => portv'[s] = portv[s]
        /\ portv'[p].ep = portv[p].ep
    BY <1>0, <1>2, PortAttributeEndpoints
  <2> QED BY <2>1 DEF AdmittedAt, Active, Exists
<1>3. ASSUME NEW n \in 0 .. MaxPorts, CreatePort(n) PROVE AdmittedAt(q)
  <2>1. CASE AllocFaults(n)
    BY <1>3, <2>1 DEF CreatePort, Fault, portVars, AdmittedAt, Active, Exists
  <2>2. CASE ~AllocFaults(n)
    <3>p. PICK p : p = AllocPort(n)
      OBVIOUS
    <3>r. PICK r : r = AllocPortv(n)[p]
      OBVIOUS
    <3>1. /\ p \in PortIds /\ r \in Port
          /\ AllocPortv(n) \in [PortIds -> Port \cup {NULL}]
          /\ \A s \in PortIds : s # p => AllocPortv(n)[s] = portv[s]
          /\ r = IF Exists(p) THEN portv[p] ELSE NewPort
      BY <2>2, <3>p, <3>r, AllocEndpoints
    <3>2. portv' = [AllocPortv(n) EXCEPT ![p].inpool = FALSE]
      BY <1>3, <2>2, <3>p DEF CreatePort
    <3>3. /\ portv'[p] = [r EXCEPT !.inpool = FALSE]
          /\ \A s \in PortIds : s # p => portv'[s] = portv[s]
      BY <3>r, <3>1, <3>2
    <3>4. portv'[p].ep = r.ep
      BY <3>1, <3>3 DEF Port
    <3>5. ~Active(p) => r.ep = {}
      BY <3>1 DEF NewPort, Active
    <3> QED BY <3>3, <3>4, <3>5 DEF AdmittedAt, Active, Exists
  <2> QED BY <2>1, <2>2
<1>4. ASSUME NEW n \in 0 .. MaxPorts, NEW e \in Endpoints, NEW u \in Users,
             NEW m \in Modules, SetupEp(n, e, u, m)
      PROVE  AdmittedAt(q)
  BY <1>4, SetupEpAdmits
<1>5. ASSUME NEW p \in PortIds, NEW e \in Endpoints, CloseEpPortFd(p, e) PROVE AdmittedAt(q)
  <2>1. p \in Known /\ portv[p] \in Port
    BY <1>0, <1>5, ExistingIsPort DEF CloseEpPortFd, Known
  <2>2. PICK r \in Port : portv' = [portv EXCEPT ![p] = r] /\ r.ep = portv[p].ep \ {e}
    <3>1. CASE portv[p].ep \ {e} = {}
      BY <1>5, <2>1, <3>1, IdlePortIsPort DEF CloseEpPortFd
    <3>2. CASE portv[p].ep \ {e} # {}
      <4>1. portv' = [portv EXCEPT ![p] = [portv[p] EXCEPT !.ep = @ \ {e}]]
        BY <1>5, <3>2 DEF CloseEpPortFd
      <4>2. [portv[p] EXCEPT !.ep = @ \ {e}] \in Port
        BY <2>1 DEF Port
      <4> QED BY <2>1, <4>1, <4>2 DEF Port
    <3> QED BY <3>1, <3>2
  <2>3. portv'[p] = r /\ \A s \in PortIds : s # p => portv'[s] = portv[s]
    BY <1>0, <2>2 DEF TypeOK
  <2> QED BY <2>1, <2>2, <2>3 DEF AdmittedAt, Active, Exists, Known
<1> QED BY <1>1, <1>2, <1>3, <1>4, <1>5, NextByPortv

(***************************************************************************)
(* An idle port is opened by a known user only if access control admits    *)
(* that user: close_ep_port_fd has cleared the user of the last endpoint.  *)
(***************************************************************************)
THEOREM PortsOpenedByAdmitted == Spec => OpenedByAdmitted
<1>1. EndpointInv /\ [Next]_vars =>
        [\A p \in PortIds :
           ~Active(p) /\ Active(p)' /\ portv'[p].curuser # AnyUser =>
             CheckportAc(IF Exists(p) THEN portv[p] ELSE NewPort, portv'[p].curuser)]_vars
  BY NextAdmits DEF AdmittedAt
<1> QED BY <1>1, EndpointInvHolds, PTL DEF Spec, OpenedByAdmitted

-----------------------------------------------------------------------------
(***************************************************************************)
(* What handle_in_packet sends: the theorems above on the flooding sets    *)
(* and the MAC table, carried over to the frames.                          *)
(***************************************************************************)
(***************************************************************************)
(* TAG2UNTAG takes the tag of a tagged frame off and leaves the rest.      *)
(***************************************************************************)
LEMMA TagTakenOff ==
  ASSUME NEW v PROVE Tag2Untag(Tagged(v)) = Untagged
<1> DEFINE f == Tagged(v)
<1>1. Len(f) = 5 /\ f[1] = "dst0" /\ f[2] = "dst4_src0" /\ f[3] = "src2" /\ f[5] = "rest"
  BY DEF Tagged
<1>2. Tag2Untag(f) = [i \in 1 .. 4 |-> IF i <= 3 THEN f[i] ELSE f[i + 1]]
  BY <1>1 DEF Tag2Untag
<1>3. Untagged = [i \in 1 .. 4 |-> IF i <= 3 THEN f[i] ELSE f[i + 1]]
  BY <1>1 DEF Untagged
<1> QED BY <1>2, <1>3

(***************************************************************************)
(* The VLAN of a frame that is taken is a VLAN.                            *)
(***************************************************************************)
LEMMA TakenFrame ==
  ASSUME TypeOK, NEW p \in PortIds, NEW t \in Tags, Takes(p, t)
  PROVE  /\ FrameVlan(p, t) \in Vlans
         /\ t # NOVLAN => t = FrameVlan(p, t)
<1>1. portv[p] \in Port
  BY DEF TypeOK, Takes, Active, Exists
<1> QED BY <1>1 DEF Takes, Tags, FrameVlan, Port

(***************************************************************************)
(* What is flooded, and to whom, when the flooding sets are exact.         *)
(***************************************************************************)
Plain(t)       == IF t = NOVLAN THEN Frame(t) ELSE Tag2Untag(Frame(t))
WithTag(t)     == IF t = NOVLAN THEN Tag2Untag(Frame(t)) ELSE Frame(t)
SentTo(q, v, t) == IF portv[q].vlanuntag = v THEN Plain(t) ELSE WithTag(t)

LEMMA FloodPairs ==
  ASSUME FloodSetsExact, NEW p, NEW t, NEW v \in Vlans, v = FrameVlan(p, t)
  PROVE  Flood(p, t) = {<<q, SentTo(q, v, t)>> : q \in Members(v) \ {p}}
<1>1. bctag[v] = {q \in Members(v) : portv[q].vlanuntag # v}
  BY DEF FloodSetsExact, Members
<1>2. bcuntag[v] = {q \in Members(v) : portv[q].vlanuntag = v}
  BY DEF FloodSetsExact, Members
<1>3. Flood(p, t) = (Others(p, bctag[v]) \X {WithTag(t)}) \cup (Others(p, bcuntag[v]) \X {Plain(t)})
  BY DEF Flood, WithTag, Plain
<1> QED BY <1>1, <1>2, <1>3 DEF Others, SentTo

(***************************************************************************)
(* What is sent to a known destination.                                    *)
(***************************************************************************)
LEMMA DirectPair ==
  ASSUME NEW p, NEW t, NEW q, NEW s \in Direct(p, t, q), NEW v, v = FrameVlan(p, t)
  PROVE  /\ q # p /\ s[1] = q
         /\ portv[q].vlanuntag = v => s[2] = Plain(t)
         /\ portv[q].vlanuntag # v /\ t # NOVLAN => s[2] = Frame(t)
BY DEF Direct, Others, Plain

(***************************************************************************)
(* The form of the frame a port that takes the VLAN untagged is sent.      *)
(***************************************************************************)
LEMMA PlainIsUntagged == \A t : Plain(t) = Untagged
<1>1. \A t : Tag2Untag(Tagged(t)) = Untagged
  BY TagTakenOff
<1> QED BY <1>1 DEF Plain, Frame

(***************************************************************************)
(* One frame that is taken, its destination found on port q or nowhere.    *)
(***************************************************************************)
LEMMA SentForm ==
  ASSUME TypeOK, FloodSetsExact, LearnedInVlan,
         NEW p \in PortIds, NEW t \in Tags, Takes(p, t),
         NEW v, v = FrameVlan(p, t), NEW q \in Answers(v), NEW s \in Sent(p, t, q)
  PROVE  /\ s[1] \in Members(v) \ {p}
         /\ portv[s[1]].vlanuntag = v => s[2] = Untagged
         /\ portv[s[1]].vlanuntag # v /\ t # NOVLAN => s[2] = Tagged(t)
<1>1. v \in Vlans /\ v # NOVLAN /\ ~hub
  BY TakenFrame DEF Takes
<1>2. CASE q = Nowhere
  <2>1. s \in Flood(p, t)
    BY <1>1, <1>2 DEF Sent
  <2>2. PICK r \in Members(v) \ {p} : s = <<r, SentTo(r, v, t)>>
    BY <1>1, <2>1, FloodPairs
  <2>3. s[1] = r /\ s[2] = SentTo(r, v, t)
    BY <2>2
  <2> QED BY <2>2, <2>3, PlainIsUntagged DEF SentTo, WithTag, Frame
<1>3. CASE q # Nowhere
  <2>1. s \in Direct(p, t, q)
    BY <1>1, <1>3 DEF Sent
  <2>2. q \in Members(v)
    <3>1. PICK m \in Macs : q = hash[<<m, v>>]
      BY <1>3 DEF Answers
    <3> QED BY <1>1, <1>3, <3>1 DEF LearnedInVlan, Members
  <2>3. /\ q # p /\ s[1] = q
        /\ portv[q].vlanuntag = v => s[2] = Plain(t)
        /\ portv[q].vlanuntag # v /\ t # NOVLAN => s[2] = Frame(t)
    BY <2>1, DirectPair
  <2> QED BY <2>2, <2>3, PlainIsUntagged DEF Frame
<1> QED BY <1>2, <1>3

(***************************************************************************)
(* A frame is sent to active ports of its own VLAN only, and never back.   *)
(***************************************************************************)
THEOREM FramesStayInVlan == Spec => []StaysInVlan
<1>1. VlanInv => StaysInVlan
  BY SentForm DEF VlanInv, StaysInVlan
<1> QED BY <1>1, VlanInvHolds, PTL

(***************************************************************************)
(* A port that is sent a frame is sent it in the form it takes.            *)
(***************************************************************************)
THEOREM FramesKeepForm == Spec => []FormKept
<1>1. VlanInv => FormKept
  BY SentForm DEF VlanInv, FormKept
<1> QED BY <1>1, VlanInvHolds, PTL

(***************************************************************************)
(* A flooded frame reaches every other active port of its VLAN, once.      *)
(***************************************************************************)
THEOREM FramesReachOnce == Spec => []FloodReachesOnce
<1>1. ASSUME VlanInv PROVE FloodReachesOnce
  <2> SUFFICES ASSUME NEW p \in PortIds, NEW t \in Tags, Takes(p, t),
                      NEW q \in Members(FrameVlan(p, t)) \ {p}
               PROVE  \E s \in Sent(p, t, Nowhere) :
                        s[1] = q /\ \A r \in Sent(p, t, Nowhere) : r[1] = q => r = s
    BY DEF FloodReachesOnce
  <2> DEFINE v == FrameVlan(p, t)
             s == <<q, SentTo(q, v, t)>>
  <2>1. v \in Vlans /\ v # NOVLAN /\ ~hub
    BY <1>1, TakenFrame DEF VlanInv, Takes
  <2>2. Sent(p, t, Nowhere) = {<<r, SentTo(r, v, t)>> : r \in Members(v) \ {p}}
    BY <1>1, <2>1, FloodPairs DEF VlanInv, Sent
  <2>3. s \in Sent(p, t, Nowhere) /\ s[1] = q
    BY <2>2
  <2>4. ASSUME NEW r \in Sent(p, t, Nowhere), r[1] = q PROVE r = s
    BY <2>2, <2>4
  <2> QED BY <2>3, <2>4
<1> QED BY <1>1, VlanInvHolds, PTL
=============================================================================
