------------------------------ MODULE DmaSimple ------------------------------
(***************************************************************************)
(* The register-direct mode of the DMA driver, lib/ips/dma.cpp: one        *)
(* transfer per direction, started by writing its length.  A thread per    *)
(* direction calls write() and writeComplete(), or read() and              *)
(* readComplete(), in turn; or one thread calls memcpy() and, in between,  *)
(* both of the receive side.                                               *)
(*                                                                         *)
(* The interrupts of the engine are not enabled in this mode, so           *)
(* waitForInterrupt() only ever times out; with polling it never returns.  *)
(* A section under hwLock is one action.                                   *)
(***************************************************************************)
EXTENDS Integers

CONSTANTS
  SimpleUsers,    \* which of "threads" and "memcpy" to consider
  SimplePolling,  \* the values of the "polling" flag of the card
  MaxTransfers    \* a bound for model checking: transfers per direction

Dirs == {"mm2s", "s2mm"}

ASSUME SimpleAssumption ==
  /\ SimpleUsers \subseteq {"threads", "memcpy"}
  /\ SimplePolling \subseteq BOOLEAN
  /\ MaxTransfers \in Nat

VARIABLES
  user,      \* who calls
  simplePolling,
  step,      \* per direction, where its thread is, or the one of memcpy()
  halted,    \* per direction, the HALTED bit of the engine
  busy,      \* per direction, a transfer is in flight
  iocIrq,    \* per direction, the IOC bit of the engine
  accepted,  \* per direction, transfers that were started
  done,      \* per direction, transfers that the engine finished
  reported,  \* per direction, transfers that a completion call reported
  bytesOf,   \* per direction, the transfer whose length was reported last
  copied     \* memcpy() calls that reached the end of their write

simpleVars ==
  <<user, simplePolling, step, halted, busy, iocIrq, accepted, done, reported, bytesOf, copied>>

SimpleInit ==
  /\ user \in SimpleUsers
  /\ simplePolling \in SimplePolling
  /\ step = [d \in Dirs |-> "idle"]
  /\ halted = [d \in Dirs |-> TRUE]
  /\ busy = [d \in Dirs |-> FALSE] /\ iocIrq = [d \in Dirs |-> FALSE]
  /\ accepted = [d \in Dirs |-> 0] /\ done = [d \in Dirs |-> 0]
  /\ reported = [d \in Dirs |-> 0] /\ bytesOf = [d \in Dirs |-> 0]
  /\ copied = 0

Turns(d, from, to) == step[d] = from /\ step' = [step EXCEPT ![d] = to]

(* A misaligned buffer, or an engine that is busy, refuses: it returns     *)
(* false.  Otherwise the engine runs, and the length starts the transfer.  *)
MayStart(d) == (halted[d] \/ ~ busy[d]) /\ accepted[d] < MaxTransfers

Starts(d) ==
  /\ accepted' = [accepted EXCEPT ![d] = @ + 1]
  /\ halted' = [halted EXCEPT ![d] = FALSE]
  /\ busy' = [busy EXCEPT ![d] = TRUE]

(* What memcpy() uses has one thread for both directions.                  *)
OneThread(d) == user = "memcpy" => d = "s2mm" /\ step["mm2s"] = "idle"

(* writeSimple() and readSimple() of a thread                              *)
StartTransfer(d) ==
  /\ OneThread(d)
  /\ MayStart(d)
  /\ Turns(d, "idle", "started")
  /\ Starts(d)
  /\ UNCHANGED <<user, simplePolling, iocIrq, done, reported, bytesOf, copied>>

StartRefused(d) ==
  /\ OneThread(d)
  /\ Turns(d, "idle", "started")
  /\ UNCHANGED <<user, simplePolling, halted, busy, iocIrq, accepted, done, reported, bytesOf,
                 copied>>

(* memcpy(): read() of the destination, write() of the source              *)
CopyReads ==
  /\ user = "memcpy" /\ step["s2mm"] = "idle"
  /\ MayStart("s2mm")
  /\ Turns("mm2s", "idle", "copyWrite")
  /\ Starts("s2mm")
  /\ UNCHANGED <<user, simplePolling, iocIrq, done, reported, bytesOf, copied>>

CopyWrites ==
  /\ MayStart("mm2s")
  /\ Turns("mm2s", "copyWrite", "started")
  /\ Starts("mm2s")
  /\ UNCHANGED <<user, simplePolling, iocIrq, done, reported, bytesOf, copied>>

(* memcpy() returns false when write() is refused.                         *)
CopyRefused ==
  /\ Turns("mm2s", "copyWrite", "idle")
  /\ copied' = copied + 1
  /\ UNCHANGED <<user, simplePolling, halted, busy, iocIrq, accepted, done, reported, bytesOf>>

(* The loop of a completion call: with polling the first wait is the last. *)
NotYet(d) ==
  /\ ~ iocIrq[d]
  /\ simplePolling
  /\ Turns(d, "started", "stuck")
  /\ UNCHANGED <<user, simplePolling, halted, busy, iocIrq, accepted, done, reported, bytesOf,
                 copied>>

(* Variant: the IOC bit is not acknowledged.                               *)
ReportUnacknowledged(d) ==
  /\ iocIrq[d]
  /\ Turns(d, "started", "idle")
  /\ reported' = [reported EXCEPT ![d] = @ + 1]
  /\ bytesOf' = [bytesOf EXCEPT ![d] = accepted[d]]
  /\ UNCHANGED <<user, simplePolling, halted, busy, iocIrq, accepted, done, copied>>

(* The IOC bit is acknowledged and the length register read.  A Completion *)
(* of this mode counts no descriptors, so memcpy() returns false here, and *)
(* never calls readComplete().                                             *)
Report(d) ==
  /\ iocIrq[d]
  /\ Turns(d, "started", "idle")
  /\ iocIrq' = [iocIrq EXCEPT ![d] = FALSE]
  /\ reported' = [reported EXCEPT ![d] = @ + 1]
  /\ bytesOf' = [bytesOf EXCEPT ![d] = accepted[d]]
  /\ copied' = IF user = "memcpy" /\ d = "mm2s" THEN copied + 1 ELSE copied
  /\ UNCHANGED <<user, simplePolling, halted, busy, accepted, done>>

(* The engine finishes a transfer; what memcpy() sends comes back.         *)
Finishes(d) ==
  /\ busy[d]
  /\ d = "s2mm" /\ user = "memcpy" => done["s2mm"] < accepted["mm2s"]
  /\ busy' = [busy EXCEPT ![d] = FALSE]
  /\ iocIrq' = [iocIrq EXCEPT ![d] = TRUE]
  /\ done' = [done EXCEPT ![d] = @ + 1]
  /\ UNCHANGED <<user, simplePolling, step, halted, accepted, reported, bytesOf, copied>>

SimpleNext ==
  \/ \E d \in Dirs : StartTransfer(d) \/ StartRefused(d) \/ NotYet(d) \/ Report(d) \/ Finishes(d)
  \/ CopyReads \/ CopyWrites \/ CopyRefused

SimpleSpec == SimpleInit /\ [][SimpleNext]_simpleVars

-----------------------------------------------------------------------------
(* A completion call reports a transfer that the engine has finished, once,*)
(* and the length it returns is the one of that transfer - as long as no   *)
(* memcpy() has left its receive half behind: its completion is then taken *)
(* for that of the next read().                                            *)
SimpleHonest ==
  \A d \in Dirs :
    /\ reported[d] <= done[d]
    /\ step[d] = "idle" /\ reported[d] > 0 /\ copied = 0 =>
         done[d] = accepted[d] /\ bytesOf[d] = reported[d]
=============================================================================
