-------------------------------- MODULE Intc ---------------------------------
(***************************************************************************)
(* The interrupt controller, lib/ips/intc.cpp, for interrupts that are     *)
(* delivered as events: enableInterrupt() and disableInterrupt() read the  *)
(* mask register, change it and write it back without a lock, each from    *)
(* the thread of the IP it is called for.  An IP has one interrupt, and is *)
(* named like it.                                                          *)
(***************************************************************************)
EXTENDS Integers

CONSTANT Irqs

VARIABLES
  ier,       \* the interrupts enabled in the mask register
  isr,       \* the interrupts that came while they were not enabled
  efds,      \* per interrupt, the counter of its eventfd
  mask,      \* per IP, the mask that its running call has read
  overlap    \* a mask was written that another call had replaced meanwhile

intcVars == <<ier, isr, efds, mask, overlap>>

None == {"none"}

IntcInit ==
  /\ ier = {} /\ isr = {}
  /\ efds = [i \in Irqs |-> 0]
  /\ mask = [i \in Irqs |-> None]
  /\ overlap = FALSE

(* An event of an IP: with automatic acknowledgement it is sent at once,   *)
(* or it is latched until somebody enables or acknowledges it.             *)
Event(i) ==
  /\ efds' = IF i \in ier THEN [efds EXCEPT ![i] = @ + 1] ELSE efds
  /\ isr' = IF i \in ier THEN isr ELSE isr \cup {i}
  /\ UNCHANGED <<ier, mask, overlap>>

(* The two parts of a call: IER is read, and for enableInterrupt() what is *)
(* pending is acknowledged; IER is written, which sends what is latched.   *)
ReadIer(i) ==
  /\ mask[i] = None
  /\ mask' = [mask EXCEPT ![i] = ier]
  /\ UNCHANGED <<ier, efds, overlap>>

WriteIer(i, new) ==
  /\ mask[i] # None
  /\ ier' = new
  /\ efds' = [j \in Irqs |-> IF j \in new \cap isr THEN efds[j] + 1 ELSE efds[j]]
  /\ isr' = isr \ new
  /\ overlap' = (overlap \/ mask[i] # ier)
  /\ mask' = [mask EXCEPT ![i] = None]

EnableReads(i) == ReadIer(i) /\ isr' = isr \ {i}

(* Variant: the mask is written, not added to what is enabled.             *)
EnableWritesOnly(i) == WriteIer(i, {i})

EnableWrites(i) == WriteIer(i, mask[i] \cup {i})
DisableReads(i) == ReadIer(i) /\ UNCHANGED isr
DisableWrites(i) == WriteIer(i, mask[i] \ {i})

(* waitForInterrupt() without polling: the count of the eventfd, or -1     *)
(* when a second passes.                                                   *)
WaitForInterrupt(i, count) ==
  /\ count = IF efds[i] > 0 THEN efds[i] ELSE -1
  /\ efds' = [efds EXCEPT ![i] = 0]
  /\ UNCHANGED <<ier, isr, mask, overlap>>
=============================================================================
