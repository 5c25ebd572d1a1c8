----------------------------- MODULE SampleStream ----------------------------
(***************************************************************************)
(* What a stream of samples through the DMA engine promises to its user,   *)
(* in either direction: the chunks come out complete, once each and in     *)
(* order, as long as no wait for a transfer in flight has given up and no  *)
(* input line has overrun a buffer.  After that a chunk may be missing,    *)
(* repeated, stale or overwritten.                                         *)
(***************************************************************************)
EXTENDS Naturals, Sequences

VARIABLES
  entered,   \* how many chunks have entered the stream; they are 1, 2, ...
  left,      \* the chunks that left it, in order
  gaveUp     \* a wait for a transfer in flight timed out, or a buffer was
             \*   overrun

svars == <<entered, left, gaveUp>>

Init ==
  /\ entered = 0
  /\ left = <<>>
  /\ gaveUp = FALSE

Enter ==
  /\ entered' = entered + 1
  /\ UNCHANGED <<left, gaveUp>>

Leave ==
  /\ Len(left) < entered
  /\ left' = Append(left, Len(left) + 1)
  /\ UNCHANGED <<entered, gaveUp>>

GiveUp ==
  /\ gaveUp' = TRUE
  /\ UNCHANGED <<entered, left>>

(* 0 stands for what a buffer holds that holds no chunk.                   *)
LeaveAnything ==
  /\ gaveUp
  /\ \E chunk \in 0 .. entered : left' = Append(left, chunk)
  /\ UNCHANGED <<entered, gaveUp>>

Next == Enter \/ Leave \/ GiveUp \/ LeaveAnything

Spec == Init /\ [][Next]_svars
=============================================================================
