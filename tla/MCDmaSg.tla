------------------------------- MODULE MCDmaSg -------------------------------
(***************************************************************************)
(* Model values for the runs of DmaSg: how many descriptors each ring may  *)
(* use.  The receive ring gets one more than it has slots, so that it      *)
(* fills up and its slots are used again.                                  *)
(***************************************************************************)
EXTENDS DmaSg

TwoAndThree == [tx |-> 2, rx |-> 3]

OneEach == [tx |-> 1, rx |-> 1]
=============================================================================
