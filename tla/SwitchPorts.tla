---------------------------- MODULE SwitchPorts ----------------------------
(***************************************************************************)
(* The port table of winvde_switch (src/winvde_switch/winvde_port.c): the  *)
(* ports, the endpoints plugged into them, the VLAN membership tables and  *)
(* the sets a frame is flooded to, together with the MAC table             *)
(* (winvde_hash.c) those handlers flush and fill.                          *)
(*                                                                         *)
(* The switch is one thread, so a handler (a management command, a plug    *)
(* request, an end of file, a received frame) is one action.  A command    *)
(* that the code refuses changes nothing and is a stuttering step.         *)
(*                                                                         *)
(* bitarray.h implements a set as long as every index is below 32: the     *)
(* constants stay there, and the tables are sets.  The code takes more     *)
(* ports, and VLANs up to 4093; what becomes of the arrays then is in      *)
(* BitArrays, and nothing here speaks of it.                               *)
(***************************************************************************)
EXTENDS Integers

CONSTANTS
  MaxPorts,    \* bound on numports: port numbers are 0 .. MaxPorts-1
  Vlans,       \* VLAN tags that may be defined
  Endpoints,   \* endpoints, each standing for its pair (fd_ctl, fd_data)
  Macs,        \* unicast source addresses
  Users,       \* user ids of plugging processes
  AnyUser,     \* the id -1 (no user known, no restriction)
  Root,        \* the id 0
  Groups,      \* group ids a port may be restricted to
  AnyGroup,    \* the group -1
  Member,      \* UserIsInGroup: the pairs <<user, group>> that it accepts
  Modules,     \* the modules that plug endpoints (datasock, tuntap)
  NULL

ASSUME PortsAssumption ==
  /\ MaxPorts \in 1 .. 32
  /\ Vlans \subseteq 0 .. 31
  /\ 0 \in Vlans

ASSUME UsersAssumption ==
  /\ AnyUser \in Users
  /\ Root # AnyUser
  /\ AnyGroup \in Groups
  /\ NULL \notin Modules
  /\ Member \subseteq Users \X Groups

NOVLAN  == 4095               \* a port that takes no untagged traffic
Nowhere == -1                 \* no entry in the MAC table
PortIds == 0 .. MaxPorts - 1

(***************************************************************************)
(* struct port, less its counters.  ep is the list of endpoints: the order *)
(* of the list decides nothing.                                            *)
(***************************************************************************)
Port == [ep        : SUBSET Endpoints,
         inpool    : BOOLEAN,                  \* not (flag & NOTINPOOL)
         ms        : Modules \cup {NULL},
         vlanuntag : Vlans \cup {NOVLAN},
         user      : Users,
         group     : Groups,
         curuser   : Users]

ASSUME NullIsNoPort == NULL \notin Port

VARIABLES
  up,         \* the process runs
  numports,
  hub,        \* pflag & HUB_TAG
  portv,      \* portv[p]: a port or NULL
  validvlan,
  table,      \* vlant[v].table: the ports of VLAN v
  bctag,      \* vlant[v].bctag: those a frame is flooded to with its tag
  bcuntag,    \* vlant[v].bcuntag: those it is flooded to without tag
  hash,       \* the MAC table: <<source address, VLAN>> to port
  owner       \* history: the user an endpoint was plugged for

portVars == <<numports, hub, portv>>
vlanVars == <<validvlan, table, bctag, bcuntag>>
vars     == <<up, portVars, vlanVars, hash, owner>>

-----------------------------------------------------------------------------
Exists(p) == portv[p] # NULL
Active(p) == Exists(p) /\ portv[p].ep # {}

\* Ports a command may name: inside the array and not NULL.
Known == {p \in PortIds : p < numports /\ Exists(p)}

Connected == {e \in Endpoints : \E p \in PortIds : Exists(p) /\ e \in portv[p].ep}

\* alloc_port leaves ms and the memory behind it alone; nothing reads ms before
\* setup_ep sets it, so a new port's is NULL.
NewPortGroupUnset == [ep |-> {}, inpool |-> TRUE, ms |-> NULL, vlanuntag |-> 0,
                      user |-> AnyUser, group |-> NULL, curuser |-> AnyUser]

NewPort == [ep |-> {}, inpool |-> TRUE, ms |-> NULL, vlanuntag |-> 0,
            user |-> AnyUser, group |-> AnyGroup, curuser |-> AnyUser]

\* A port whose last endpoint is gone (close_ep_port_fd).
IdlePortKeepsModule(r) == [r EXCEPT !.ep = {}, !.curuser = AnyUser]
IdlePortKeepsUser(r)   == [r EXCEPT !.ep = {}, !.ms = NULL]

IdlePort(r) == [r EXCEPT !.ep = {}, !.ms = NULL, !.curuser = AnyUser]

(***************************************************************************)
(* hash_delete_port: forget every address learned on port p.               *)
(***************************************************************************)
HashKeepPort(p) == hash

HashDeletePort(p) ==
  [k \in Macs \X Vlans |-> IF hash[k] = p THEN Nowhere ELSE hash[k]]

(***************************************************************************)
(* What alloc_port returns when it finds no port.                          *)
(***************************************************************************)
NoPortFound == 1

(***************************************************************************)
(* alloc_port(n).  0 asks for the first port above 0 that does not exist   *)
(* or is an unused port of the pool.  When there is none, or n is beyond   *)
(* the array (which -1, the request for the management port, is as an      *)
(* unsigned), the function returns NoPortFound, whatever that port is.     *)
(***************************************************************************)
FreePorts == {p \in PortIds : /\ p # 0
                              /\ p < numports
                              /\ \/ portv[p] = NULL
                                 \/ portv[p].ep = {} /\ portv[p].inpool}

AllocFails(n) == IF n = 0 THEN FreePorts = {} ELSE n >= numports

AllocPort(n) == IF AllocFails(n) THEN NoPortFound
                ELSE IF n = 0 THEN CHOOSE p \in FreePorts : \A q \in FreePorts : p <= q
                ELSE n

AllocCreates(n) == ~AllocFails(n) /\ portv[AllocPort(n)] = NULL

AllocPortv(n) == IF AllocCreates(n) THEN [portv EXCEPT ![AllocPort(n)] = NewPort]
                 ELSE portv

AllocTable(n) == IF AllocCreates(n) THEN [table EXCEPT ![0] = @ \cup {AllocPort(n)}]
                 ELSE table

\* The new port goes into VLAN 0's table, a null pointer once VLAN 0 is removed;
\* the caller uses port NoPortFound, null or outside the array perhaps, when there
\* is none.
AllocFaults(n) ==
  \/ AllocCreates(n) /\ 0 \notin validvlan
  \/ AllocFails(n) /\ NoPortFound \notin Known

\* A null pointer is used: the process ends and its tables are gone with it.
Fault == up' = FALSE /\ UNCHANGED <<portVars, vlanVars, hash, owner>>

-----------------------------------------------------------------------------
Init ==
  /\ up = TRUE
  /\ numports \in 1 .. MaxPorts
  /\ hub = FALSE
  /\ portv = [p \in PortIds |-> NULL]
  /\ validvlan = {0}
  /\ table = [v \in Vlans |-> {}]
  /\ bctag = [v \in Vlans |-> {}]
  /\ bcuntag = [v \in Vlans |-> {}]
  /\ hash = [k \in Macs \X Vlans |-> Nowhere]
  /\ owner = [e \in Endpoints |-> AnyUser]

\* port/setnumports N: refused while a port from N on exists.
ResizableOffByOne(n) == \A p \in Known : p <= n

Resizable(n) == \A p \in Known : p < n

PortSetNumPorts(n) ==
  /\ up
  /\ Resizable(n)
  /\ numports' = n
  /\ UNCHANGED <<up, hub, portv, vlanVars, hash, owner>>

\* port/sethub 0/1
PortSetHub(b) ==
  /\ up
  /\ hub' = b
  /\ UNCHANGED <<up, numports, portv, vlanVars, hash, owner>>

\* port/setvlan N VLAN: change the VLAN of a port's untagged traffic.
PortSetVlan(p, v) ==
  LET old == portv[p].vlanuntag IN
  /\ up
  /\ p \in Known
  /\ v \in validvlan \cup {NOVLAN}
  /\ hash' = HashDeletePort(p)
  /\ portv' = [portv EXCEPT ![p].vlanuntag = v]
  /\ table' = [w \in Vlans |-> IF w = v THEN table[w] \cup {p}
                               ELSE IF w = old THEN table[w] \ {p} ELSE table[w]]
  /\ IF Active(p)
     THEN /\ bcuntag' = [w \in Vlans |-> IF w = v THEN bcuntag[w] \cup {p}
                                         ELSE IF w = old THEN bcuntag[w] \ {p}
                                         ELSE bcuntag[w]]
          /\ bctag' = [w \in Vlans |-> IF w = v THEN bctag[w] \ {p} ELSE bctag[w]]
     ELSE UNCHANGED <<bctag, bcuntag>>
  /\ UNCHANGED <<up, numports, hub, validvlan, owner>>

\* port/createauto and port/create N take the port they get out of the pool.
CreatePort(n) ==
  /\ up
  /\ IF AllocFaults(n) THEN Fault
     ELSE /\ portv' = [AllocPortv(n) EXCEPT ![AllocPort(n)].inpool = FALSE]
          /\ table' = AllocTable(n)
          /\ UNCHANGED <<up, numports, hub, validvlan, bctag, bcuntag, hash, owner>>

PortCreateAuto == CreatePort(0)

PortCreate(n) ==
  /\ n \in PortIds /\ n < numports
  /\ ~Exists(n)
  /\ CreatePort(n)

\* port/allocatable N 0/1
PortAllocatable(p, b) ==
  /\ up
  /\ p \in Known
  /\ portv' = [portv EXCEPT ![p].inpool = b]
  /\ UNCHANGED <<up, numports, hub, vlanVars, hash, owner>>

\* port/setuser N user: the connected endpoints stay.
PortSetUser(p, u) ==
  /\ up
  /\ p \in Known
  /\ portv' = [portv EXCEPT ![p].user = u]
  /\ UNCHANGED <<up, numports, hub, vlanVars, hash, owner>>

\* port/setgroup N group
PortSetGroup(p, g) ==
  /\ up
  /\ p \in Known
  /\ portv' = [portv EXCEPT ![p].group = g]
  /\ UNCHANGED <<up, numports, hub, vlanVars, hash, owner>>

\* vlan/create N
VlanCreate(v) ==
  /\ up
  /\ v # 0
  /\ v \notin validvlan
  /\ validvlan' = validvlan \cup {v}
  /\ table' = [table EXCEPT ![v] = {}]
  /\ bctag' = [bctag EXCEPT ![v] = {}]
  /\ bcuntag' = [bcuntag EXCEPT ![v] = {}]
  /\ UNCHANGED <<up, portVars, hash, owner>>

\* vlan/remove N: refused while a port is in the VLAN's table.
RemovableIfQuiet(v) == bctag[v] = {} /\ bcuntag[v] = {}

Removable(v) == table[v] = {}

VlanRemove(v) ==
  /\ up
  /\ v \in validvlan
  /\ Removable(v)
  /\ validvlan' = validvlan \ {v}
  /\ table' = [table EXCEPT ![v] = {}]
  /\ bctag' = [bctag EXCEPT ![v] = {}]
  /\ bcuntag' = [bcuntag EXCEPT ![v] = {}]
  /\ UNCHANGED <<up, portVars, hash, owner>>

\* vlan/addport N PORT: PORT takes N's frames with their tag.
VlanAddPort(v, p) ==
  /\ up
  /\ v \in validvlan
  /\ p \in Known
  /\ bctag' = IF Active(p) /\ portv[p].vlanuntag # v
              THEN [bctag EXCEPT ![v] = @ \cup {p}] ELSE bctag
  /\ table' = [table EXCEPT ![v] = @ \cup {p}]
  /\ UNCHANGED <<up, portVars, validvlan, bcuntag, hash, owner>>

\* vlan/delport N PORT: refused for the VLAN of the port's untagged traffic.
VlanDelPort(v, p) ==
  /\ up
  /\ v \in validvlan
  /\ p \in Known
  /\ portv[p].vlanuntag # v
  /\ bctag' = IF Active(p) THEN [bctag EXCEPT ![v] = @ \ {p}] ELSE bctag
  /\ table' = [table EXCEPT ![v] = @ \ {p}]
  /\ hash' = HashDeletePort(p)
  /\ UNCHANGED <<up, portVars, validvlan, bcuntag, owner>>

(***************************************************************************)
(* checkport_ac: may user u open the idle port r?                          *)
(***************************************************************************)
CheckportAc(r, u) ==
  \/ r.user = AnyUser /\ r.group = AnyGroup
  \/ u = Root
  \/ r.user # AnyUser /\ r.user = u
  \/ r.group # AnyGroup /\ <<u, r.group>> \in Member

(***************************************************************************)
(* The user of port r once u has asked for it: an idle port that admits u  *)
(* becomes u's.  u is plugged when it is the port's user then.  (An idle   *)
(* port's curuser is -1, so the unknown user -1 is plugged in any case.)   *)
(***************************************************************************)
CurUser(r, u) == IF r.ep = {} /\ CheckportAc(r, u) THEN u ELSE r.curuser

MayPlugAnySharer(r, u) == r.ep # {} \/ CurUser(r, u) = u

MayPlug(r, u) == CurUser(r, u) = u

(***************************************************************************)
(* The set v's tagged frames are flooded to when the idle port p, which is *)
(* in the tables tab and has untagged VLAN v0, gets its first endpoint.    *)
(***************************************************************************)
OpenedBctagAll(p, v0, tab) ==
  [v \in Vlans |-> IF v \in validvlan /\ p \in tab[v] THEN bctag[v] \cup {p} ELSE bctag[v]]

OpenedBctag(p, v0, tab) ==
  [v \in Vlans |-> IF v = v0 THEN bctag[v] \ {p}
                   ELSE IF v \in validvlan /\ p \in tab[v] THEN bctag[v] \cup {p}
                   ELSE bctag[v]]

OpenedBcuntag(p, v0) ==
  [v \in Vlans |-> IF v = v0 THEN bcuntag[v] \cup {p} ELSE bcuntag[v]]

(***************************************************************************)
(* setup_ep: module m plugs endpoint e for user u, asking for port n.  The *)
(* first endpoint brings the port into the flooding sets of its VLANs; a   *)
(* further one shares it.  A port that alloc_port made for a plug that is  *)
(* refused stays.                                                          *)
(***************************************************************************)
SetupEp(n, e, u, m) ==
  LET p == AllocPort(n)
      r == AllocPortv(n)[p] IN
  /\ up
  /\ e \notin Connected
  /\ IF AllocFaults(n) THEN Fault
     ELSE /\ table' = AllocTable(n)
          /\ IF MayPlug(r, u)
             THEN /\ portv' = [AllocPortv(n) EXCEPT
                                 ![p] = [r EXCEPT !.ep = @ \cup {e}, !.curuser = u, !.ms = m]]
                  /\ owner' = [owner EXCEPT ![e] = u]
             ELSE /\ portv' = AllocPortv(n)
                  /\ owner' = owner
          /\ IF MayPlug(r, u) /\ r.ep = {}
             THEN /\ bctag' = OpenedBctag(p, r.vlanuntag, AllocTable(n))
                  /\ bcuntag' = OpenedBcuntag(p, r.vlanuntag)
             ELSE UNCHANGED <<bctag, bcuntag>>
          /\ UNCHANGED <<up, numports, hub, validvlan, hash>>

(***************************************************************************)
(* close_ep_port_fd: unplug e from p.  The port that has no endpoint left  *)
(* (or had none) becomes idle: it leaves the flooding sets, its addresses  *)
(* are forgotten and it belongs to nobody.                                 *)
(***************************************************************************)
CloseEpPortFd(p, e) ==
  LET left == portv[p].ep \ {e} IN
  /\ up
  /\ p \in Known
  /\ IF left = {}
     THEN /\ portv' = [portv EXCEPT ![p] = IdlePort(@)]
          /\ hash' = HashDeletePort(p)
          /\ bctag' = [v \in Vlans |-> IF v \in validvlan THEN bctag[v] \ {p}
                                       ELSE bctag[v]]
          /\ bcuntag' = [v \in Vlans |-> IF v = portv[p].vlanuntag
                                         THEN bcuntag[v] \ {p} ELSE bcuntag[v]]
     ELSE /\ portv' = [portv EXCEPT ![p].ep = left]
          /\ UNCHANGED <<bctag, bcuntag, hash>>
  /\ UNCHANGED <<up, numports, hub, validvlan, table, owner>>

\* port/epclose N ID: any port and any id may be given.
EpClose(p, e) == CloseEpPortFd(p, e)

\* close_ep: the control connection of a plugged endpoint ended.
CloseEp(e) == \E p \in PortIds : Active(p) /\ e \in portv[p].ep /\ CloseEpPortFd(p, e)

(***************************************************************************)
(* handle_in_packet, as far as the tables go: the VLAN of a frame received *)
(* on p, or NOVLAN when the frame is dropped.  t is the tag of the frame,  *)
(* NOVLAN for an untagged one.                                             *)
(***************************************************************************)
FrameVlan(p, t) == IF t = NOVLAN THEN portv[p].vlanuntag
                   ELSE IF p \in table[t] THEN t ELSE NOVLAN

(***************************************************************************)
(* find_in_hash_update: an address seen on another port moves there only   *)
(* when its entry is older than min_persistence; the age is left open.     *)
(***************************************************************************)
HandleInPacket(p, t, src) ==
  LET v == FrameVlan(p, t) IN
  /\ up
  /\ p \in PortIds /\ Active(p)
  /\ ~hub
  /\ v # NOVLAN
  /\ \/ hash' = [hash EXCEPT ![<<src, v>>] = p]
     \/ hash[<<src, v>>] \notin {Nowhere, p} /\ UNCHANGED hash
  /\ UNCHANGED <<up, portVars, vlanVars, owner>>

\* hash/setsize N: the table starts again, empty.
HashResize ==
  /\ up
  /\ hash' = [k \in Macs \X Vlans |-> Nowhere]
  /\ UNCHANGED <<up, portVars, vlanVars, owner>>

-----------------------------------------------------------------------------
Next ==
  \/ \E n \in 1 .. MaxPorts : PortSetNumPorts(n)
  \/ \E b \in BOOLEAN : PortSetHub(b)
  \/ \E p \in PortIds, v \in Vlans \cup {NOVLAN} : PortSetVlan(p, v)
  \/ PortCreateAuto
  \/ \E n \in PortIds : PortCreate(n)
  \/ \E p \in PortIds, b \in BOOLEAN : PortAllocatable(p, b)
  \/ \E p \in PortIds, u \in Users : PortSetUser(p, u)
  \/ \E p \in PortIds, g \in Groups : PortSetGroup(p, g)
  \/ \E v \in Vlans : VlanCreate(v)
  \/ \E v \in Vlans : VlanRemove(v)
  \/ \E v \in Vlans, p \in PortIds : VlanAddPort(v, p)
  \/ \E v \in Vlans, p \in PortIds : VlanDelPort(v, p)
  \/ \E n \in 0 .. MaxPorts, e \in Endpoints, u \in Users, m \in Modules :
       SetupEp(n, e, u, m)
  \/ \E p \in PortIds, e \in Endpoints : EpClose(p, e)
  \/ \E e \in Endpoints : CloseEp(e)
  \/ \E p \in PortIds, t \in Vlans \cup {NOVLAN}, src \in Macs : HandleInPacket(p, t, src)
  \/ HashResize

Spec == Init /\ [][Next]_vars

-----------------------------------------------------------------------------
(***************************************************************************)
(* Type invariant of the tables.                                           *)
(***************************************************************************)
TypeOK ==
  /\ up \in BOOLEAN
  /\ numports \in 1 .. MaxPorts
  /\ hub \in BOOLEAN
  /\ portv \in [PortIds -> Port \cup {NULL}]
  /\ validvlan \subseteq Vlans
  /\ table \in [Vlans -> SUBSET PortIds]
  /\ bctag \in [Vlans -> SUBSET PortIds]
  /\ bcuntag \in [Vlans -> SUBSET PortIds]
  /\ hash \in [Macs \X Vlans -> PortIds \cup {Nowhere}]
  /\ owner \in [Endpoints -> Users]

(***************************************************************************)
(* No port lies beyond the array that port/setnumports resized, and the    *)
(* VLAN tables name existing ports only: alloc_port, vlan/addport,         *)
(* port/setvlan and vlan/remove keep the arrays in step.                   *)
(***************************************************************************)
TablesWithinArray ==
  /\ \A p \in PortIds : Exists(p) => p < numports
  /\ \A v \in Vlans : /\ table[v] \subseteq Known
                      /\ v \notin validvlan => table[v] = {}

(***************************************************************************)
(* The VLAN of a port's untagged traffic is defined, and the port is in    *)
(* its table, whatever sequence of vlan and port commands came before:     *)
(* otherwise handle_in_packet floods through a freed table.                *)
(***************************************************************************)
UntaggedVlanDefined ==
  \A p \in PortIds : Exists(p) /\ portv[p].vlanuntag # NOVLAN =>
    /\ portv[p].vlanuntag \in validvlan
    /\ p \in table[portv[p].vlanuntag]

(***************************************************************************)
(* The sets a frame is flooded to are exactly the active ports of the      *)
(* VLAN, split by whether the port takes the VLAN untagged.  They are kept *)
(* by seven handlers, each updating its share.                             *)
(***************************************************************************)
FloodSetsExact ==
  \A v \in Vlans :
    /\ bctag[v] = {p \in table[v] : Active(p) /\ portv[p].vlanuntag # v}
    /\ bcuntag[v] = {p \in table[v] : Active(p) /\ portv[p].vlanuntag = v}

(***************************************************************************)
(* "The hash table should not generate tarport not in vlan: any time a     *)
(* port is removed from a vlan, the port is flushed from the hash"         *)
(* (winvde_port.c:2165-2166): an address is known only on an active port   *)
(* that is in the address's VLAN.                                          *)
(***************************************************************************)
LearnedInVlan ==
  \A m \in Macs, v \in Vlans : hash[<<m, v>>] # Nowhere =>
    /\ Active(hash[<<m, v>>])
    /\ hash[<<m, v>>] \in table[v]

(***************************************************************************)
(* The endpoints that share a port were plugged for one user, the port's   *)
(* current one, and a port that is idle belongs to nobody.                 *)
(***************************************************************************)
SharedByOneUser ==
  \A p \in PortIds : Exists(p) =>
    /\ \A e \in portv[p].ep : owner[e] = portv[p].curuser
    /\ portv[p].ep = {} => portv[p].curuser = AnyUser

(***************************************************************************)
(* A port has a module to send and to unplug with exactly while it has an  *)
(* endpoint: send_packet_port and rec_close_ep use port->ms unchecked.     *)
(***************************************************************************)
ActiveHasModule ==
  \A p \in PortIds : Exists(p) => (portv[p].ep # {} <=> portv[p].ms # NULL)

(***************************************************************************)
(* An idle port is opened by a known user only if the port's access        *)
(* control admits that user when the endpoint is plugged (setup_ep): no    *)
(* curuser is left over from an earlier endpoint.                          *)
(***************************************************************************)
OpenedByAdmitted ==
  [][\A p \in PortIds :
       ~Active(p) /\ Active(p)' /\ portv'[p].curuser # AnyUser =>
         CheckportAc(IF Exists(p) THEN portv[p] ELSE NewPort, portv'[p].curuser)]_vars

(***************************************************************************)
(* "create a port with an automatically allocated id                       *)
(* (inactive|notallocatable)" (winvde_port.c:156), with a "Not Enough      *)
(* Ports" answer (winvde_port.c:522) when there is none: the command       *)
(* leaves the ports in use alone.                                          *)
(***************************************************************************)
AutoCreateSparesActive ==
  [][PortCreateAuto => \A p \in PortIds : Active(p) => portv'[p] = portv[p]]_vars

(***************************************************************************)
(* "create the port N (inactive|notallocatable)" (winvde_port.c:157): a    *)
(* number inside the array that no port has gives that port, whichever     *)
(* VLANs were created and removed before.                                  *)
(***************************************************************************)
PortCreateMakesPort ==
  [][\A n \in PortIds \ {0} : PortCreate(n) => portv'[n] # NULL]_vars
=============================================================================
