-------------------------------- MODULE Pipe ---------------------------------
(***************************************************************************)
(* The users of one Dma object that drive both directions from a single    *)
(* thread, with the same four calls in the same order - read(), write(),   *)
(* writeComplete(), readComplete(): Dma::memcpy(), over the loopback link, *)
(* and villas-fpga-pipe, towards an Aurora channel.  The calls are those   *)
(* of DmaSg.                                                               *)
(*                                                                         *)
(* Each program receives into one block only, the first word of it, as a   *)
(* receive descriptor takes readMsgSize bytes.  A word of a copy is        *)
(* <<copy, index>>; one from the Aurora channel is <<chunk>>, a frame of   *)
(* its own.  Before any transfer a block holds <<>>, and <<0>> after       *)
(* something else has overwritten it.                                      *)
(***************************************************************************)
EXTENDS DmaSg, Sequences

CONSTANTS
  Programs,  (* which of "memcpy" and "pipe" to consider                     *)
  Lengths    (* the lengths of the copies, in words                          *)

(* A word of a copy may or may not end a frame.                            *)
ASSUME PipeAssumption ==
  /\ FrameEnds = BOOLEAN
  /\ Programs \subseteq {"memcpy", "pipe"}
  /\ Lengths \subseteq Nat \ {0}

VARIABLES
  program,   \* who calls
  at,        \* the call that comes next, or whose outcome is looked at next
  copies,    \* memcpy() calls, or lines that were read
  len,       \* the words of the last one; 0 is a line of which nothing
             \*   is transferred
  result,    \* what the last memcpy() returned
  link,      \* the words on the loopback link, with the ends of frames
  fed,       \* transmit descriptors whose words have left the memory
  mem,       \* the first word of the block that is received into
  printed,   \* the chunks that villas-fpga-pipe printed
  gaveUp,    \* a wait for a transfer in flight timed out
  overran    \* a line was longer than its block

callVars == <<program, at, copies, len, result, printed, overran>>
linkVars == <<link, fed, mem>>
pipeVars == <<callVars, linkVars, gaveUp>>

PipeInit ==
  /\ Init
  /\ program \in Programs
  /\ at = IF program = "pipe" THEN "read" ELSE "idle"
  /\ copies = 0
  /\ len = 0
  /\ result = "none"
  /\ link = <<>> /\ fed = 0 /\ mem = <<>>
  /\ printed = <<>>
  /\ gaveUp = FALSE
  /\ overran = FALSE

Threw(ch) == ret'[ch].kind = "throw"

(* An exception leaves memcpy(), and the loop of main(); of those that it  *)
(* does not catch the process ends.                                        *)
Then(ch, next) == at' = IF Threw(ch) THEN "exception" ELSE next

-----------------------------------------------------------------------------
(* ---- Dma::memcpy() and the loop of villas-fpga-pipe --------------------- *)

(* A copy of nothing is done at once; connectLoopback() may fail, and      *)
(* read() does if the length is above the boundary.                        *)
CopyAtOnce ==
  /\ at = "idle"
  /\ result' \in {"true", "false"}
  /\ len' = 0
  /\ UNCHANGED <<vars, program, at, copies, printed, overran, linkVars, gaveUp>>

CopyBegins ==
  /\ at = "idle"
  /\ copies < MaxPost["tx"]
  /\ copies' = copies + 1
  /\ len' \in Lengths
  /\ result' = "none"
  /\ at' = "read"
  /\ UNCHANGED <<vars, program, printed, overran, linkVars, gaveUp>>

Read ==
  /\ at = "read"
  /\ Post("rx")
  /\ Then("rx", IF program = "pipe" THEN "line" ELSE "write")
  /\ UNCHANGED <<program, copies, len, result, printed, overran, linkVars, gaveUp>>

(* A line with numbers that the block has room for, or without any         *)
Line ==
  /\ at = "line"
  /\ copies < MaxPost["tx"]
  /\ copies' = copies + 1
  /\ len' \in {0, 1}
  /\ at' = "write"
  /\ UNCHANGED <<vars, program, result, printed, overran, linkVars, gaveUp>>

(* std::stoi throws.                                                       *)
BadLine ==
  /\ at = "line"
  /\ at' = "exception"
  /\ UNCHANGED <<vars, program, copies, len, result, printed, overran, linkVars, gaveUp>>

(* More than 0x200 numbers overrun the block.  What lies behind it is up   *)
(* to the allocator: nothing, which ends the process, memory that nobody   *)
(* uses, or the block that is received into.  If the process goes on,      *)
(* write() sends up to 4 KiB and refuses more than that.                   *)
LongLine ==
  /\ at = "line"
  /\ copies < MaxPost["tx"]
  /\ copies' = copies + 1
  /\ overran' = TRUE
  /\ mem' \in {mem, <<0>>}
  /\ \/ at' = "write" /\ len' \in {0, 1}
     \/ at' = "exception" /\ UNCHANGED len
  /\ UNCHANGED <<vars, program, result, printed, link, fed, gaveUp>>

Write ==
  /\ at = "write"
  /\ IF len = 0 THEN \E kind \in {"true", "false"} : NoTransfer("tx", kind)
                ELSE Post("tx")
  /\ Then("tx", "writeComplete")
  /\ UNCHANGED <<program, copies, len, result, printed, overran, linkVars, gaveUp>>

WriteComplete ==
  /\ at = "writeComplete"
  /\ CompleteCall("tx")
  /\ at' = "written"
  /\ UNCHANGED <<program, copies, len, result, printed, overran, linkVars, gaveUp>>

ReadComplete ==
  /\ at = "readComplete"
  /\ CompleteCall("rx")
  /\ at' = "done"
  /\ UNCHANGED <<program, copies, len, result, printed, overran, linkVars, gaveUp>>

(* Variants: memcpy() takes the completion of the write for that of the    *)
(* copy; the pipe turns to the next line when it wrote nothing.            *)
WrittenIsCopied ==
  /\ at = "written"
  /\ pc["tx"] = "idle"
  /\ result' = IF program = "memcpy" /\ ret["tx"].bds > 0 THEN "true" ELSE result
  /\ at' = IF program = "memcpy" THEN "idle" ELSE "readComplete"
  /\ UNCHANGED <<vars, program, copies, len, printed, overran, linkVars, gaveUp>>

WrittenOrNextLine ==
  /\ at = "written"
  /\ pc["tx"] = "idle"
  /\ at' = IF ret["tx"].bds > 0 THEN "readComplete"
           ELSE IF program = "pipe" THEN "read" ELSE "idle"
  /\ UNCHANGED <<vars, program, copies, len, result, printed, overran, linkVars, gaveUp>>

(* memcpy() returns false if no descriptor was completed, and leaves the   *)
(* one of read() to the engine; the pipe goes on in any case.              *)
Written ==
  /\ at = "written"
  /\ pc["tx"] = "idle"
  /\ \/ /\ program = "memcpy" /\ ret["tx"].bds = 0
        /\ result' = "false"
        /\ at' = "idle"
     \/ /\ program = "pipe" \/ ret["tx"].bds > 0
        /\ at' = "readComplete"
        /\ UNCHANGED result
  /\ UNCHANGED <<vars, program, copies, len, printed, overran, linkVars, gaveUp>>

CopyReturns ==
  /\ at = "done" /\ program = "memcpy"
  /\ pc["rx"] = "idle"
  /\ result' = IF ret["rx"].bds > 0 THEN "true" ELSE "false"
  /\ at' = "idle"
  /\ UNCHANGED <<vars, program, copies, len, printed, overran, linkVars, gaveUp>>

PrintWords ==
  /\ at = "done" /\ program = "pipe"
  /\ pc["rx"] = "idle"
  /\ printed' = IF ret["rx"].bds > 0 THEN printed \o mem ELSE printed
  /\ at' = "read"
  /\ UNCHANGED <<vars, program, copies, len, result, overran, linkVars, gaveUp>>

(* ---- The calls of the Dma, and the engine ------------------------------ *)

InCall(ch) ==
  /\ \/ WaitInterrupt(ch)
     \/ Lock(ch)
     \/ ch = "rx" /\ (RxDrop \/ RxDropFree \/ RxAck \/ RxNoIoc \/ RxFetch)
     \/ ch = "tx" /\ (TxFetch \/ TxAck)
  /\ Then(ch, at)
  /\ UNCHANGED <<program, copies, len, result, printed, overran, linkVars, gaveUp>>

TimeOut(ch) ==
  /\ WaitTimeout(ch)
  /\ gaveUp' = (gaveUp \/ ring[ch].handed > ring[ch].taken)
  /\ UNCHANGED <<callVars, linkVars>>

(* The words of a transmit descriptor leave the memory; those of a copy    *)
(* are a frame on the loopback link.                                       *)
Feed ==
  /\ Active("tx")
  /\ fed = ring["tx"].done
  /\ fed' = fed + 1
  /\ link' = IF program = "pipe" THEN link
             ELSE link \o [i \in 1 .. len |-> [word |-> <<copies, i>>, last |-> i = len]]
  /\ UNCHANGED <<vars, callVars, mem, gaveUp>>

Send ==
  /\ fed > ring["tx"].done
  /\ HwComplete("tx", TRUE)
  /\ UNCHANGED <<callVars, linkVars, gaveUp>>

(* The engine receives the next word of the link, or of the channel.       *)
Receive ==
  /\ link # <<>>
  /\ HwComplete("rx", Head(link).last)
  /\ mem' = Head(link).word
  /\ link' = Tail(link)
  /\ UNCHANGED <<callVars, fed, gaveUp>>

Arrive ==
  /\ program = "pipe"
  /\ HwComplete("rx", TRUE)
  /\ mem' = <<ring["rx"].done + 1>>
  /\ UNCHANGED <<callVars, link, fed, gaveUp>>

Fault ==
  /\ \E ch \in Chan, kind \in Faults : HwFault(ch, kind, TRUE)
  /\ UNCHANGED pipeVars

PipeNext ==
  \/ CopyAtOnce
  \/ CopyBegins
  \/ Read
  \/ Line
  \/ BadLine
  \/ LongLine
  \/ Write
  \/ WriteComplete
  \/ ReadComplete
  \/ Written
  \/ CopyReturns
  \/ PrintWords
  \/ \E ch \in Chan : InCall(ch) \/ TimeOut(ch)
  \/ Feed
  \/ Send
  \/ Receive
  \/ Arrive
  \/ Fault

allVars == <<vars, pipeVars>>

PipeSpec == PipeInit /\ [][PipeNext]_allVars

(* The thread goes on inside a call and between the calls of a round, and  *)
(* the engine with what it was handed, until a bus error.  Nothing makes   *)
(* a chunk arrive from the channel.                                        *)
PipeFairness ==
  /\ WF_allVars(Read) /\ WF_allVars(Write) /\ WF_allVars(WriteComplete)
  /\ WF_allVars(ReadComplete) /\ WF_allVars(Written)
  /\ WF_allVars(CopyReturns) /\ WF_allVars(PrintWords)
  /\ \A ch \in Chan : WF_allVars(InCall(ch) \/ TimeOut(ch))
  /\ WF_allVars(Feed) /\ WF_allVars(Send) /\ WF_allVars(Receive)

PipeFairSpec == PipeSpec /\ PipeFairness

-----------------------------------------------------------------------------
(* A transfer that completed never waits unannounced: its interrupt is     *)
(* pending or the thread is on its way to the ring.  It holds while at     *)
(* most one descriptor per direction is in flight, which is what the order *)
(* of the calls is for, hence until a wait gives up; and for copies of one *)
(* word, which fill their descriptor with a whole frame.                   *)
NothingStranded ==
  \A ch \in Chan :
    /\ ~ gaveUp /\ len <= 1
    /\ fault[ch] # "marked"
    /\ ring[ch].done > ring[ch].taken
    => \/ irq[ch] > 0
       \/ pc[ch] \in {"lock", "fetch"}
       \/ ch = "rx" /\ pc[ch] = "ack"

(* memcpy() returns true only if the block it copied to holds what the     *)
(* block it copied from held.  That is void once a wait gave up, as the    *)
(* next copy is then taken for done when the one before completes; and it  *)
(* says nothing of the copies that are made and not reported as done.      *)
CopyHonest ==
  result = "true" /\ ~ gaveUp => len = 0 \/ (len = 1 /\ mem = <<copies, 1>>)

(* "DMA ping pong failed" (tests/unit/dma.cpp:81): with a loopback link    *)
(* and no bus error a copy that was begun returns true.                    *)
CopySucceeds == (program = "memcpy" /\ at = "read") ~> result = "true"

(* What an interrupt will announce: a transfer that the engine finishes    *)
(* on its own, or a chunk that arrived.                                    *)
Announced(ch) ==
  /\ len <= 1
  /\ ring[ch].taken < (IF ch = "rx" /\ program = "pipe" THEN ring[ch].done ELSE ring[ch].handed)

(* A completion call returns: without polling in any case, with polling if *)
(* there is something to announce, unless a bus error stops the engine:    *)
(* only the IOC interrupt is enabled (dma.cpp:114).  The frame of a longer *)
(* copy does not fit into its receive descriptor, which raises none.       *)
CompletionReturns ==
  \A ch \in Chan :
    (pc[ch] = "wait" /\ (polling => Announced(ch)))
      ~> (pc[ch] = "idle" \/ (polling /\ \E c \in Chan : fault[c] # "none"))

(* villas-fpga-pipe prints each chunk that the engine received once and in *)
(* order, up to the first wait that gave up on a transfer, or the first    *)
(* line that overran its block.                                            *)
PipeStream == INSTANCE SampleStream WITH
  entered <- ring["rx"].done, left <- printed, gaveUp <- (gaveUp \/ overran)
ImplementsPipeStream == PipeStream!Spec
=============================================================================
