------------------------------- MODULE MCPipe --------------------------------
(***************************************************************************)
(* Model values for the run of Pipe: three rounds of the four calls, which *)
(* use the slots of both rings again.                                      *)
(***************************************************************************)
EXTENDS Pipe

ThreeEach == [tx |-> 3, rx |-> 3]
=============================================================================
