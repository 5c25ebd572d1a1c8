-------------------------------- MODULE DmaSg --------------------------------
(***************************************************************************)
(* The scatter-gather paths of the DMA driver, lib/ips/dma.cpp: one thread *)
(* per direction calls write() and writeComplete(), or read() and          *)
(* readComplete(); a control thread may call reset().  They share hwLock,  *)
(* and run against the DMA engine, which completes descriptors on its own  *)
(* and raises one interrupt line per direction through the interrupt       *)
(* controller, lib/ips/intc.cpp.                                           *)
(*                                                                         *)
(* A section of code between hwLock.lock() and the matching unlock() is    *)
(* one action where it touches nothing the hardware changes, and is cut at *)
(* each access to the interrupt status register and to the descriptor      *)
(* status words where it does.                                             *)
(***************************************************************************)
EXTENDS BdRing

CONSTANTS
  ErrInit,      (* partial batches tolerated: 32 in the code                 *)
  SizeMax,      (* SIZE_MAX, the largest size_t                              *)
  PollingModes, (* the values of the "polling" flag of the card to consider  *)
  Relatch,      (* the interrupt controller latches levels: acknowledging it *)
                (* while the line is still up sets the ISR bit again         *)
  FrameEnds,    (* may a received word end a frame (TRUE), or not (FALSE)    *)
  Alignments,   (* is the bus address of a buffer a multiple of the word     *)
                (* size (TRUE), or not (FALSE); the core is built with DRE 0 *)
  Resets,       (* does the engine come out of reset in time (TRUE) or not   *)
                (* (FALSE); the empty set when nobody calls reset()          *)
  Faults,       (* how a bus error may leave the descriptor the engine stops *)
                (* at: still "open", or complete and "marked" with the error *)
  Depth,        (* clients keep at most so many descriptors in use per ring; *)
                (* N + 1 is no discipline                                    *)
  MaxPost       (* a bound for model checking: descriptors used, per ring    *)

Chan == {"tx", "rx"}     \* the MM2S and the S2MM side, and their threads

ASSUME DmaAssumption ==
  /\ ErrInit \in Nat
  /\ SizeMax \in Nat /\ ErrInit < SizeMax
  /\ PollingModes \subseteq BOOLEAN
  /\ Relatch \in BOOLEAN
  /\ FrameEnds \subseteq BOOLEAN
  /\ Alignments \subseteq BOOLEAN
  /\ Resets \subseteq BOOLEAN
  /\ Faults \subseteq {"open", "marked"}
  /\ Depth \in Nat \ {0}
  /\ MaxPost \in [Chan -> Nat]

Ctl == "ctl"             \* the thread that calls reset()
NoOwner == "none"

(* writeCoalesce and readCoalesce: private, without a setter, hence 1.     *)
Coalesce == 1

VARIABLES
  ring,      \* per direction, its BD ring
  ioc,       \* per direction, the IOC bit of the engine's status register
  irq,       \* per direction, what waits in the interrupt controller: the
             \*   ISR bit when polling, else the counter of the eventfd
  running,   \* the engine was not reset
  fault,     \* per direction, "none" or the bus error that stopped it for good
  polling,   \* how enableInterrupt() was asked to deliver both interrupts
  hwLock,    \* the thread that holds the mutex
  pc,        \* per direction, where the thread is; "idle" between calls
  intrs,     \* per direction, what waitForInterrupt() returned to the call
  batch,     \* per direction, how many BDs BdRingFromHw returned to the call
             \*   that it has neither reported nor freed yet
  errcnt,    \* per direction, the function-static countdown
  ret        \* per direction, the outcome of the last call, until the next

hwVars == <<running, fault, polling>>

vars == <<ring, ioc, irq, hwVars, hwLock, pc, intrs, batch, errcnt, ret>>

Result == [kind : {"none", "true", "false", "throw", "comp"},
           bds : Nat, interrupts : 0 .. SizeMax]

Plain(kind) == [kind |-> kind, bds |-> 0, interrupts |-> 0]

Completion(bds, interrupts) ==
  [kind |-> "comp", bds |-> bds, interrupts |-> interrupts % (SizeMax + 1)]

-----------------------------------------------------------------------------
(* Dma::init() with both rings created and started and both interrupts     *)
(* enabled; IER and the ISR bits were acknowledged before.                 *)
Init ==
  /\ ring = [ch \in Chan |-> EmptyRing]
  /\ ioc = [ch \in Chan |-> FALSE]
  /\ irq = [ch \in Chan |-> 0]
  /\ running = TRUE
  /\ fault = [ch \in Chan |-> "none"]
  /\ polling \in PollingModes
  /\ hwLock = NoOwner
  /\ pc = [ch \in Chan |-> "idle"]
  /\ intrs = [ch \in Chan |-> 0]
  /\ batch = [ch \in Chan |-> 0]
  /\ errcnt = [ch \in Chan |-> ErrInit]
  /\ ret = [ch \in Chan |-> Plain("none")]

(* The outcome of a call reaches the caller; the locals of the call die.   *)
Return(ch, r) == ret' = [ret EXCEPT ![ch] = r]

Leave(ch) ==
  /\ pc' = [pc EXCEPT ![ch] = "idle"]
  /\ intrs' = [intrs EXCEPT ![ch] = 0]
  /\ batch' = [batch EXCEPT ![ch] = 0]

(* ---- write() and read() ------------------------------------------------ *)

(* A length of 0 returns true before anything else, one above the 4 KiB    *)
(* boundary returns false; memory the engine cannot reach, or a receive    *)
(* buffer shorter than a word, throws.                                     *)
NoTransfer(ch, kind) ==
  /\ pc[ch] = "idle"
  /\ Return(ch, Plain(kind))
  /\ UNCHANGED <<ring, ioc, irq, hwVars, hwLock, pc, intrs, batch, errcnt>>

MayPost(ch) ==
  /\ pc[ch] = "idle"
  /\ hwLock = NoOwner
  /\ ring[ch].alloc < MaxPost[ch]
  /\ ring[ch].alloc - ring[ch].freed < Depth

PostFrame == <<ioc, irq, hwVars, hwLock, pc, intrs, batch, errcnt>>

PostRingFull(ch) ==
  /\ MayPost(ch)
  /\ ~ CanAlloc(ring[ch], 1)
  /\ Return(ch, Plain("throw"))
  /\ UNCHANGED <<ring, PostFrame>>

(* BdSetBufAddr refuses the address: the BD stays in the pre group.        *)
PostMisaligned(ch) ==
  /\ MayPost(ch)
  /\ FALSE \in Alignments
  /\ CanAlloc(ring[ch], 1)
  /\ ring' = [ring EXCEPT ![ch] = Alloc(@, 1)]
  /\ Return(ch, Plain("throw"))
  /\ UNCHANGED PostFrame

PostOk(ch) ==
  /\ MayPost(ch)
  /\ TRUE \in Alignments
  /\ CanAlloc(ring[ch], 1)
  /\ CanToHw(Alloc(ring[ch], 1), 1, ring[ch].alloc + 1)
  /\ ring' = [ring EXCEPT ![ch] = ToHw(Alloc(@, 1), 1)]
  /\ Return(ch, Plain("true"))
  /\ UNCHANGED PostFrame

(* BdRingToHw refuses a BD that is not the head of the pre group.          *)
PostRejected(ch) ==
  /\ MayPost(ch)
  /\ TRUE \in Alignments
  /\ CanAlloc(ring[ch], 1)
  /\ ~ CanToHw(Alloc(ring[ch], 1), 1, ring[ch].alloc + 1)
  /\ ring' = [ring EXCEPT ![ch] = Alloc(@, 1)]
  /\ Return(ch, Plain("throw"))
  /\ UNCHANGED PostFrame

Post(ch) ==
  PostRingFull(ch) \/ PostMisaligned(ch) \/ PostOk(ch) \/ PostRejected(ch)

(* ---- writeComplete() and readComplete() -------------------------------- *)

(* Variant: discard what the interrupt controller holds before waiting.    *)
CompleteCallDrains(ch) ==
  /\ pc[ch] = "idle"
  /\ pc' = [pc EXCEPT ![ch] = "wait"]
  /\ irq' = [irq EXCEPT ![ch] = 0]
  /\ Return(ch, Plain("none"))
  /\ UNCHANGED <<ring, ioc, hwVars, hwLock, intrs, batch, errcnt>>

CompleteCall(ch) ==
  /\ pc[ch] = "idle"
  /\ pc' = [pc EXCEPT ![ch] = "wait"]
  /\ Return(ch, Plain("none"))
  /\ UNCHANGED <<ring, ioc, irq, hwVars, hwLock, intrs, batch, errcnt>>

(* waitForInterrupt(): the ISR bit is seen and acknowledged, or the        *)
(* eventfd is read, which resets it.                                       *)
WaitInterrupt(ch) ==
  /\ pc[ch] = "wait"
  /\ irq[ch] > 0
  /\ intrs' = [intrs EXCEPT ![ch] = IF polling THEN 1 ELSE irq[ch]]
  /\ irq' = [irq EXCEPT ![ch] = IF polling /\ Relatch /\ ioc[ch] THEN 1 ELSE 0]
  /\ pc' = [pc EXCEPT ![ch] = "lock"]
  /\ UNCHANGED <<ring, ioc, hwVars, hwLock, batch, errcnt, ret>>

(* waitForInterrupt() without polling: select() gives up after a second.   *)
WaitTimeout(ch) ==
  /\ pc[ch] = "wait"
  /\ ~ polling
  /\ irq[ch] = 0
  /\ intrs' = [intrs EXCEPT ![ch] = -1]
  /\ pc' = [pc EXCEPT ![ch] = IF ch = "rx" THEN "drop" ELSE "lock"]
  /\ UNCHANGED <<ring, ioc, irq, hwVars, hwLock, batch, errcnt, ret>>

(* Variants of the timeout path: take back every BD, complete or not;      *)
(* acknowledge the interrupt as well.                                      *)
RxDropAll ==
  /\ pc["rx"] = "drop"
  /\ LET k == ring["rx"].handed - ring["rx"].taken
     IN /\ ring' = [ring EXCEPT !["rx"] = FromHw(@, k)]
        /\ batch' = [batch EXCEPT !["rx"] = k]
  /\ pc' = [pc EXCEPT !["rx"] = "free"]
  /\ UNCHANGED <<ioc, irq, hwVars, hwLock, intrs, errcnt, ret>>

RxDropAcking ==
  /\ pc["rx"] = "drop"
  /\ \E k \in 0 .. N :
       /\ IsFromHw(ring["rx"], N, k)
       /\ ring' = [ring EXCEPT !["rx"] = FromHw(@, k)]
       /\ batch' = [batch EXCEPT !["rx"] = k]
  /\ ioc' = [ioc EXCEPT !["rx"] = FALSE]
  /\ pc' = [pc EXCEPT !["rx"] = "free"]
  /\ UNCHANGED <<irq, hwVars, hwLock, intrs, errcnt, ret>>

(* readComplete() after a timeout, without hwLock: BdRingFromHw takes back *)
(* every complete BD, and BdRingFree then frees them.  The walk is one     *)
(* step: BDs complete in ring order and only this thread takes them back,  *)
(* so it finds what its last look at a status word would have found.       *)
RxDrop ==
  /\ pc["rx"] = "drop"
  /\ \E k \in 0 .. N :
       /\ IsFromHw(ring["rx"], N, k)
       /\ ring' = [ring EXCEPT !["rx"] = FromHw(@, k)]
       /\ batch' = [batch EXCEPT !["rx"] = k]
  /\ pc' = [pc EXCEPT !["rx"] = "free"]
  /\ UNCHANGED <<ioc, irq, hwVars, hwLock, intrs, errcnt, ret>>

(* What BdRingFree answers is ignored, and nothing of it is reported.      *)
RxDropFree ==
  /\ pc["rx"] = "free"
  /\ ring' = [ring EXCEPT !["rx"] = IF CanFree(@, batch["rx"]) THEN Free(@, batch["rx"]) ELSE @]
  /\ Return("rx", Completion(0, 0))
  /\ Leave("rx")
  /\ UNCHANGED <<ioc, irq, hwVars, hwLock, errcnt>>

Lock(ch) ==
  /\ pc[ch] = "lock"
  /\ hwLock = NoOwner
  /\ hwLock' = ch
  /\ pc' = [pc EXCEPT ![ch] = IF ch = "rx" THEN "ack" ELSE "fetch"]
  /\ UNCHANGED <<ring, ioc, irq, hwVars, intrs, batch, errcnt, ret>>

(* readComplete() acknowledges before it looks at the ring.                *)
RxAck ==
  /\ pc["rx"] = "ack"
  /\ ioc["rx"]
  /\ ioc' = [ioc EXCEPT !["rx"] = FALSE]
  /\ pc' = [pc EXCEPT !["rx"] = "fetch"]
  /\ UNCHANGED <<ring, irq, hwVars, hwLock, intrs, batch, errcnt, ret>>

(* "Expected IOC interrupt": returns without hwLock.unlock().              *)
RxNoIoc ==
  /\ pc["rx"] = "ack"
  /\ ~ ioc["rx"]
  /\ Return("rx", Completion(0, intrs["rx"]))
  /\ Leave("rx")
  /\ UNCHANGED <<ring, ioc, irq, hwVars, hwLock, errcnt>>

(* Variant: a countdown in a signed type.                                  *)
CountDownSigned(n) == n - 1

(* The countdown of partial batches, a size_t that wraps below 0.          *)
CountDown(n) == (n - 1) % (SizeMax + 1)

(* Does the last BD of a batch carry the error the engine stopped at?      *)
BadStatus(ch, r) == fault[ch] = "marked" /\ r.taken = r.done

(* Variant: the BDs are not freed.                                         *)
FinishUnfreed(ch, r, k) ==
  /\ ring' = [ring EXCEPT ![ch] = r]
  /\ Return(ch, Completion(k, intrs[ch]))

(* What becomes of the k BDs that FromHw returned: an empty batch is       *)
(* reported at once, one with an error stays in the post group, else it is *)
(* freed, unless BdRingFree refuses.                                       *)
Finish(ch, r, k) ==
  IF k > 0 /\ (BadStatus(ch, r) \/ ~ CanFree(r, k))
    THEN /\ ring' = [ring EXCEPT ![ch] = r]
         /\ Return(ch, Plain("throw"))
    ELSE /\ ring' = [ring EXCEPT ![ch] = IF k = 0 THEN r ELSE Free(r, k)]
         /\ Return(ch, Completion(k, intrs[ch]))

RxFetch ==
  /\ pc["rx"] = "fetch"
  /\ \E k \in 0 .. Coalesce :
       /\ IsFromHw(ring["rx"], Coalesce, k)
       /\ LET r == FromHw(ring["rx"], k)
          IN \/ /\ k < Coalesce /\ errcnt["rx"] = 0
                /\ ring' = [ring EXCEPT !["rx"] = r]
                /\ Return("rx", Plain("throw"))
             \/ /\ k < Coalesce => errcnt["rx"] # 0
                /\ Finish("rx", r, k)
       /\ errcnt' = [errcnt EXCEPT !["rx"] = IF k < Coalesce THEN CountDown(@) ELSE ErrInit]
  /\ hwLock' = NoOwner
  /\ Leave("rx")
  /\ UNCHANGED <<ioc, irq, hwVars>>

(* Variant: the throw of too many partial batches keeps the mutex.         *)
TxFetchLocked ==
  /\ pc["tx"] = "fetch"
  /\ \E k \in 0 .. Coalesce :
       /\ IsFromHw(ring["tx"], Coalesce, k)
       /\ ring' = [ring EXCEPT !["tx"] = FromHw(@, k)]
       /\ errcnt' = [errcnt EXCEPT !["tx"] = IF k < Coalesce THEN CountDown(@) ELSE @]
       /\ \/ /\ k < Coalesce /\ errcnt["tx"] = 0
             /\ Return("tx", Plain("throw"))
             /\ UNCHANGED hwLock
             /\ Leave("tx")
          \/ /\ k < Coalesce => errcnt["tx"] # 0
             /\ pc' = [pc EXCEPT !["tx"] = "ack"]
             /\ batch' = [batch EXCEPT !["tx"] = k]
             /\ UNCHANGED <<hwLock, intrs, ret>>
  /\ UNCHANGED <<ioc, irq, hwVars>>

(* writeComplete() takes the BD back first and acknowledges afterwards,    *)
(* except when it throws because of too many partial batches.              *)
TxFetch ==
  /\ pc["tx"] = "fetch"
  /\ \E k \in 0 .. Coalesce :
       /\ IsFromHw(ring["tx"], Coalesce, k)
       /\ ring' = [ring EXCEPT !["tx"] = FromHw(@, k)]
       /\ errcnt' = [errcnt EXCEPT !["tx"] = IF k < Coalesce THEN CountDown(@) ELSE @]
       /\ \/ /\ k < Coalesce /\ errcnt["tx"] = 0
             /\ Return("tx", Plain("throw"))
             /\ hwLock' = NoOwner
             /\ Leave("tx")
          \/ /\ k < Coalesce => errcnt["tx"] # 0
             /\ pc' = [pc EXCEPT !["tx"] = "ack"]
             /\ batch' = [batch EXCEPT !["tx"] = k]
             /\ UNCHANGED <<hwLock, intrs, ret>>
  /\ UNCHANGED <<ioc, irq, hwVars>>

(* Variant: the interrupt is not acknowledged.                             *)
TxAckNone ==
  /\ pc["tx"] = "ack"
  /\ Finish("tx", ring["tx"], batch["tx"])
  /\ hwLock' = NoOwner
  /\ Leave("tx")
  /\ UNCHANGED <<ioc, irq, hwVars, errcnt>>

TxAck ==
  /\ pc["tx"] = "ack"
  /\ ioc' = [ioc EXCEPT !["tx"] = FALSE]
  /\ Finish("tx", ring["tx"], batch["tx"])
  /\ hwLock' = NoOwner
  /\ Leave("tx")
  /\ UNCHANGED <<irq, hwVars, errcnt>>

Thread(ch) ==
  \/ \E kind \in {"true", "false", "throw"} : NoTransfer(ch, kind)
  \/ Post(ch)
  \/ CompleteCall(ch)
  \/ WaitInterrupt(ch)
  \/ WaitTimeout(ch)
  \/ Lock(ch)

(* ---- The engine --------------------------------------------------------- *)

(* A rising interrupt line sets the ISR bit or sends one MSI.              *)
Raise(ch) ==
  /\ ioc' = [ioc EXCEPT ![ch] = TRUE]
  /\ irq' = [irq EXCEPT ![ch] = IF ioc[ch] THEN @ ELSE IF polling THEN 1 ELSE @ + 1]

Active(ch) ==
  running /\ fault[ch] = "none" /\ ring[ch].done < ring[ch].handed

HwComplete(ch, last) ==
  /\ Active(ch)
  /\ ring' = [ring EXCEPT ![ch] = Complete(@, last)]
  /\ IF last THEN Raise(ch) ELSE UNCHANGED <<ioc, irq>>
  /\ UNCHANGED <<hwVars, hwLock, pc, intrs, batch, errcnt, ret>>

(* A bus error stops a direction. Only the IOC interrupt was enabled, so   *)
(* nothing announces it.                                                   *)
HwFault(ch, kind, last) ==
  /\ Active(ch)
  /\ fault' = [fault EXCEPT ![ch] = kind]
  /\ ring' = [ring EXCEPT ![ch] = IF kind = "marked" THEN Complete(@, last) ELSE @]
  /\ UNCHANGED <<ioc, irq, running, polling, hwLock, pc, intrs, batch, errcnt, ret>>

(* Every transmit BD is a frame of its own (TXSOF and TXEOF are set).      *)
Hardware ==
  \/ HwComplete("tx", TRUE)
  \/ \E last \in FrameEnds : HwComplete("rx", last)
  \/ \E kind \in Faults : HwFault("tx", kind, TRUE)
  \/ \E kind \in Faults, last \in FrameEnds : HwFault("rx", kind, last)

(* ---- reset() ------------------------------------------------------------ *)

(* The success path returns with hwLock still held.                        *)
ResetDone ==
  /\ TRUE \in Resets
  /\ hwLock = NoOwner
  /\ hwLock' = Ctl
  /\ running' = FALSE
  /\ ioc' = [ch \in Chan |-> FALSE]
  /\ UNCHANGED <<ring, irq, fault, polling, pc, intrs, batch, errcnt, ret>>

(* The engine is still in reset after 500 polls; its status registers hold *)
(* their old or their reset value.                                         *)
ResetTimedOut ==
  /\ FALSE \in Resets
  /\ hwLock = NoOwner
  /\ running' = FALSE
  /\ ioc' \in {ioc, [ch \in Chan |-> FALSE]}
  /\ UNCHANGED <<ring, irq, fault, polling, hwLock, pc, intrs, batch, errcnt, ret>>

-----------------------------------------------------------------------------
Next ==
  \/ \E ch \in Chan : Thread(ch)
  \/ RxDrop
  \/ RxDropFree
  \/ RxAck
  \/ RxNoIoc
  \/ RxFetch
  \/ TxFetch
  \/ TxAck
  \/ Hardware
  \/ ResetDone
  \/ ResetTimedOut

Spec == Init /\ [][Next]_vars

-----------------------------------------------------------------------------
(* The types; among them that a ring's counters stay natural numbers and    *)
(* that the countdown of partial batches wraps instead of turning negative. *)
TypeOK ==
  /\ ring \in [Chan -> Ring]
  /\ ioc \in [Chan -> BOOLEAN]
  /\ irq \in [Chan -> Nat]
  /\ running \in BOOLEAN
  /\ fault \in [Chan -> {"none", "open", "marked"}]
  /\ polling \in BOOLEAN
  /\ hwLock \in Chan \cup {Ctl, NoOwner}
  /\ pc \in [Chan -> {"idle", "wait", "drop", "free", "lock", "ack", "fetch"}]
  /\ intrs \in [Chan -> Nat \cup {-1}]
  /\ batch \in [Chan -> Nat]
  /\ errcnt \in [Chan -> 0 .. SizeMax]
  /\ ret \in [Chan -> Result]

(* The lines "hwLock.lock() ... hwLock.unlock()" of the two completion      *)
(* calls between which the hardware may act.                               *)
Critical == {"ack", "fetch"}

-----------------------------------------------------------------------------
(* Every descriptor is in exactly one of the driver's groups, in ring      *)
(* order: nothing is handed back to the driver that the hardware still     *)
(* owns, and no slot is allocated twice.                                   *)
RingsOrdered == \A ch \in Chan : Ordered(ring[ch])

(* Between its two calls of the ring library a completion call has BDs in  *)
(* hand.                                                                   *)
InHand(ch) ==
  IF pc[ch] = (IF ch = "tx" THEN "ack" ELSE "free") THEN batch[ch] ELSE 0

(* Every descriptor taken from the hardware is freed by the call that took *)
(* it, so BdRingFree is always called with the head of the post group and  *)
(* "Failed to free ..." (dma.cpp:450, 529) is never thrown.  The exception *)
(* is the descriptor a bus error stopped the engine at (dma.cpp:438, 516), *)
(* after which none completes.                                             *)
NothingHeldBack ==
  \A ch \in Chan :
    \/ ring[ch].taken = ring[ch].freed + InHand(ch)
    \/ fault[ch] = "marked" /\ ring[ch].taken = ring[ch].done

(* The mutex is held by a thread only while that thread is inside its      *)
(* critical section: no return and no throw of the completion calls keeps  *)
(* it, up to the first reset().  readComplete() has a return that does     *)
(* (dma.cpp:485); it is never taken because the IOC bit survives whatever  *)
(* happens between wake-up and lock().                                     *)
LockReleased ==
  /\ \A ch \in Chan : pc[ch] \in Critical => hwLock = ch
  /\ running /\ hwLock # NoOwner => hwLock \in Chan /\ pc[hwLock] \in Critical

(* "Expected IOC interrupt" (dma.cpp:483): whenever readComplete() was     *)
(* woken and looks at the status register, the bit is there.  Completions  *)
(* that arrive at any moment of the handshake do not break it.             *)
IocExpected == running /\ pc["rx"] = "ack" => ioc["rx"]

(* An interrupt is never lost for good: while the line is up, which keeps  *)
(* the engine from raising it again, either the interrupt controller still *)
(* holds the event or the thread is on its way to acknowledge it.          *)
NoWedge ==
  \A ch \in Chan :
    running /\ ioc[ch] => irq[ch] > 0 \/ pc[ch] \in {"lock"} \cup Critical

(* readComplete() never reports more than one interrupt, whatever it       *)
(* missed: "Missed {} interrupts" (villas-fpga-ctrl.cpp:151) is dead code. *)
AtMostOneInterrupt == ret["rx"].interrupts <= 1

-----------------------------------------------------------------------------
(* A thread inside a call goes on, and gets a mutex that is released again *)
(* and again; select() times out; the engine finishes the descriptors it   *)
(* was handed, until a bus error.  Nothing makes a client start a call.    *)
Fairness ==
  /\ \A ch \in Chan :
       /\ WF_vars(WaitInterrupt(ch))
       /\ WF_vars(WaitTimeout(ch))
       /\ SF_vars(Lock(ch))
       /\ WF_vars(HwComplete(ch, TRUE))
  /\ WF_vars(RxDrop) /\ WF_vars(RxDropFree)
  /\ WF_vars(RxAck) /\ WF_vars(RxNoIoc) /\ WF_vars(RxFetch)
  /\ WF_vars(TxFetch) /\ WF_vars(TxAck)

FairSpec == Spec /\ Fairness

(* "Reset the IP, it should behave like freshly initialized afterwards"    *)
(* (core.hpp:126): after reset(), too, a completion call that does not     *)
(* poll returns.                                                           *)
UsableAfterReset ==
  \A ch \in Chan : (~ running /\ ~ polling /\ pc[ch] = "wait") ~> pc[ch] = "idle"
=============================================================================
