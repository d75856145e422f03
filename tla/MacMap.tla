------------------------------- MODULE MacMap -------------------------------
(***************************************************************************)
(* What the MAC table of winvde_switch promises to the port handlers: a    *)
(* map from addresses to ports, in which an address moves to another port  *)
(* once its own has been quiet for more than min_persistence seconds.      *)
(* MacTable, the hash table of winvde_hash.c, implements it.               *)
(***************************************************************************)
EXTENDS Integers

CONSTANTS
  Keys,    \* a MAC address with its VLAN
  Ports,
  MaxAge,  \* bound: seconds are counted up to here
  Persistences, \* what min_persistence is set to
  Nowhere

VARIABLES
  map,    \* where an address was seen
  quiet,  \* seconds since it was seen there
  minper  \* min_persistence

mapVars == <<map, quiet, minper>>

Never == [k \in Keys |-> 0]

Init ==
  /\ map = [k \in Keys |-> Nowhere]
  /\ quiet = Never
  /\ minper \in Persistences

\* A frame from address k comes in on port p.
Seen(k, p) ==
  /\ map[k] \in {Nowhere, p} \/ quiet[k] > minper
  /\ map' = [map EXCEPT ![k] = p]
  /\ quiet' = [quiet EXCEPT ![k] = 0]
  /\ UNCHANGED minper

Ignored(k, p) ==
  /\ map[k] \notin {Nowhere, p}
  /\ quiet[k] <= minper
  /\ UNCHANGED mapVars

Forgotten(S) ==
  /\ map' = [k \in Keys |-> IF k \in S THEN Nowhere ELSE map[k]]
  /\ quiet' = [k \in Keys |-> IF k \in S THEN 0 ELSE quiet[k]]
  /\ UNCHANGED minper

ForgetPort(p) == Forgotten({k \in Keys : map[k] = p})

ForgetAll == Forgotten(Keys)

SetMinPer(n) == minper' = n /\ UNCHANGED <<map, quiet>>

Second ==
  /\ quiet' = [k \in Keys |->
                 IF map[k] # Nowhere /\ quiet[k] < MaxAge THEN quiet[k] + 1 ELSE quiet[k]]
  /\ UNCHANGED <<map, minper>>

Next ==
  \/ \E k \in Keys, p \in Ports : Seen(k, p) \/ Ignored(k, p)
  \/ \E p \in Ports : ForgetPort(p)
  \/ ForgetAll
  \/ \E n \in Persistences : SetMinPer(n)
  \/ Second

Spec == Init /\ [][Next]_mapVars
=============================================================================
