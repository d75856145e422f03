--------------------------- MODULE SwitchPortsMC ---------------------------
(***************************************************************************)
(* Instances of SwitchPorts and Forwarding for TLC.                        *)
(***************************************************************************)
EXTENDS Forwarding, TLC

CONSTANTS u1, u2, g1

\* The VLAN every new port is in and two that commands define.
MCVlans == {0, 1, 2}
\* The VLAN of new ports only.
MCVlan0 == {0}

MCAnyUserOnly == {AnyUser}
MCUsers == {AnyUser, Root, u1, u2}
MCAnyGroupOnly == {AnyGroup}
MCGroups == {AnyGroup, g1}
MCMember == {<<u1, g1>>}

Symmetry == Permutations(Endpoints) \cup Permutations(Macs)
=============================================================================
