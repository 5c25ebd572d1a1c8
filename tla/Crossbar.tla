------------------------------ MODULE Crossbar -------------------------------
(***************************************************************************)
(* What the stream switch promises, without its registers and without the  *)
(* driver's bookkeeping: a source feeds at most one sink at any instant,   *)
(* also while the switch is being reconfigured.                            *)
(***************************************************************************)
CONSTANTS
  Ins,       (* the slave ports of the switch: streams enter there           *)
  Outs,      (* the master ports of the switch: streams leave there          *)
  Disabled   (* the value of a master port that no slave feeds; not in Ins   *)

VARIABLE route    \* for each master port, the slave port that feeds it

Routing == [Outs -> Ins \cup {Disabled}]

Init == route = [o \in Outs |-> Disabled]

(* Some master ports are switched off.                                     *)
Release(os) ==
  route' = [o \in Outs |-> IF o \in os THEN Disabled ELSE route[o]]

(* A master port is switched to a slave port that feeds no other one.      *)
Assign(o, i) ==
  /\ \A p \in Outs \ {o} : route[p] # i
  /\ route' = [route EXCEPT ![o] = i]

Next ==
  \/ \E os \in SUBSET Outs : Release(os)
  \/ \E o \in Outs, i \in Ins : Assign(o, i)

Spec == Init /\ [][Next]_route

-----------------------------------------------------------------------------
Injective(f) ==
  \A o, p \in Outs : f[o] = f[p] /\ f[o] # Disabled => o = p

(* No stream is duplicated.                                                *)
Unicast == Injective(route)
=============================================================================
