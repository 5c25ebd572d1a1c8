---------------------------- MODULE MCCtrlStream -----------------------------
(***************************************************************************)
(* Model values for the run of CtrlStream.  The reader comes back to its   *)
(* first block, and the formatter is filled past its buffer.               *)
(***************************************************************************)
EXTENDS CtrlStream

TwoAndThree == [tx |-> 2, rx |-> 3]
=============================================================================
