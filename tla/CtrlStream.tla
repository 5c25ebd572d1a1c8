----------------------------- MODULE CtrlStream ------------------------------
(***************************************************************************)
(* villas-fpga-ctrl between stdin, stdout and the DMA engine: the thread   *)
(* in readFromDmaToStdOut() reads into two blocks in turn, the main thread *)
(* in writeToDmaFromStdIn() writes from one block, and both make the calls *)
(* of DmaSg on the same Dma object.                                        *)
(*                                                                         *)
(* Chunks are numbered: what the engine receives into the p-th descriptor  *)
(* is chunk p, and the p-th line that is handed to write() with a number   *)
(* in it is line p; 0 is what a block holds that holds neither.  A         *)
(* descriptor takes readMsgSize bytes, one word, and each is a frame of    *)
(* its own.  Nobody calls reset() while the threads run, and this module   *)
(* leaves out bus errors.                                                  *)
(*                                                                         *)
(* The reader prints through a formatter (utils.hpp:69-140) with room for  *)
(* bufSamples words.  A word whose text is wider than a slot makes         *)
(* format() throw after it took the slot; what it printed so far stays in  *)
(* the buffer, and output() is left to the next chunk.                     *)
(***************************************************************************)
EXTENDS DmaSg, Sequences

CONSTANTS
  bufSamples,  (* words a formatter has room for: 16 in the program          *)
  Behind,      (* which of the reader's blocks may lie behind the writer's:  *)
               (* the choices of the allocator                               *)
  Wides,       (* which chunks hold a word wider than a slot: the choices    *)
  MaxLines     (* a bound for model checking: lines                          *)

(* A ring has room for two transfers (dma.cpp:51), a descriptor is filled  *)
(* by one frame, and a block starts at a page.                             *)
ASSUME CtrlAssumption ==
  /\ N >= 2 * Coalesce
  /\ FrameEnds = {TRUE}
  /\ Alignments = {TRUE}
  /\ bufSamples \in Nat \ {0}
  /\ Behind \subseteq SUBSET {0, 1}
  /\ Wides \subseteq SUBSET (Nat \ {0})
  /\ MaxLines \in Nat

VARIABLES
  alive,     \* the process runs; an exception in either thread ends it, as
             \*   main() unwinds over the reader's std::thread unjoined
  reader,    \* where readFromDmaToStdOut() is
  cur,       \* the block it prints next; the other one is "next"
  addr,      \* for each receive descriptor, its block
  mem,       \* for each block, the chunk it holds
  out,       \* the chunks that were formatted
  wide,      \* the chunks whose word is too wide
  currentBufLoc,  \* slots of the formatter that are in use
  shown,     \* how many chunks of out have reached stdout
  writer,    \* where writeToDmaFromStdIn() is
  lines,     \* lines read that fit a transfer
  block,     \* the line that its block holds
  sent,      \* the lines that the engine sent
  overran,   \* a line was longer than its block
  waited     \* per direction, the worst end of a wait so far: a timeout with
             \*   nothing in flight ("idle"), or with a transfer ("late")

formatterVars == <<wide, currentBufLoc, shown>>
readerVars == <<reader, cur, addr, mem, out, formatterVars>>
writerVars == <<writer, lines, block, sent, overran>>
ctrlVars == <<alive, readerVars, writerVars, waited>>

Block == {0, 1}

CtrlInit ==
  /\ Init
  /\ alive = TRUE
  /\ reader = "prime"
  /\ cur = 0
  /\ addr = <<>>
  /\ mem = [b \in Block |-> 0]
  /\ out = <<>>
  /\ wide \in Wides
  /\ currentBufLoc = 0
  /\ shown = 0
  /\ writer = "line"
  /\ lines = 0
  /\ block = 0
  /\ sent = <<>>
  /\ overran = FALSE
  /\ waited = [ch \in Chan |-> "none"]

(* Nothing catches what the calls of the Dma throw before the thread, or   *)
(* main(), ends.                                                           *)
Threw(ch) == ret'[ch].kind = "throw"
Survives(ch) == alive /\ alive' = ~ Threw(ch)

(* ---- readFromDmaToStdOut() ---------------------------------------------- *)

(* read() into block b                                                     *)
Read(b) ==
  /\ Post("rx")
  /\ Survives("rx")
  /\ addr' = IF Threw("rx") THEN addr ELSE Append(addr, b)
  /\ UNCHANGED <<cur, mem, out, formatterVars, writerVars, waited>>

(* Variant: the block that is printed next is handed to the engine.        *)
NextIsCur == cur

NextBlock == (cur + 1) % 2

ReadFirst ==
  /\ reader = "prime"
  /\ Read(0)
  /\ reader' = "read"

ReadNext ==
  /\ reader = "read"
  /\ Read(NextBlock)
  /\ reader' = "complete"

ReadComplete ==
  /\ alive
  /\ reader = "complete"
  /\ CompleteCall("rx")
  /\ reader' = "print"
  /\ UNCHANGED <<alive, cur, addr, mem, out, formatterVars, writerVars, waited>>

(* The words that the completion call reported: one per descriptor         *)
Words == IF ret["rx"].bds > 0 THEN <<mem[cur]>> ELSE <<>>

TooWide(words) == \E k \in DOMAIN words : words[k] \in wide

(* Variant: output() does not go back to the first slot.                   *)
PrintKeepsLoc(words) ==
  /\ out' = out \o words
  /\ currentBufLoc' = currentBufLoc + Len(words)
  /\ shown' = IF TooWide(words) THEN shown ELSE Len(out')
  /\ UNCHANGED alive

(* format() of each word and output(), which empties the buffer.  To       *)
(* format past the last slot is undefined: the process may end or go on.   *)
Output(words) ==
  /\ out' = out \o words
  /\ \/ /\ ~ TooWide(words)
        /\ currentBufLoc' = 0
        /\ shown' = Len(out')
        /\ UNCHANGED alive
     \/ /\ TooWide(words)
        /\ currentBufLoc' = currentBufLoc + Len(words)
        /\ UNCHANGED <<shown, alive>>
     \/ /\ currentBufLoc + Len(words) > bufSamples
        /\ currentBufLoc' = currentBufLoc + Len(words)
        /\ alive' = FALSE
        /\ UNCHANGED shown

(* Variant: the blocks are not swapped.                                    *)
PrintChunkNoSwap ==
  /\ alive
  /\ reader = "print"
  /\ pc["rx"] = "idle"
  /\ Output(Words)
  /\ reader' = "read"
  /\ UNCHANGED <<vars, cur, addr, mem, wide, writerVars, waited>>

(* The words are printed, then the blocks are swapped.                     *)
PrintChunk ==
  /\ alive
  /\ reader = "print"
  /\ pc["rx"] = "idle"
  /\ Output(Words)
  /\ cur' = NextBlock
  /\ reader' = "read"
  /\ UNCHANGED <<vars, addr, mem, wide, writerVars, waited>>

(* ---- writeToDmaFromStdIn() ---------------------------------------------- *)

(* A line without a number, or the end of the file: write() of no bytes    *)
EmptyLine ==
  /\ alive
  /\ writer = "line"
  /\ NoTransfer("tx", "true")
  /\ writer' = "complete"
  /\ UNCHANGED <<alive, readerVars, lines, block, sent, overran, waited>>

(* Variant: the next line is read while the call is still waiting.         *)
NumbersEarly ==
  /\ alive
  /\ writer = "line"
  /\ lines < MaxLines
  /\ lines' = lines + 1
  /\ block' = lines'
  /\ writer' = "write"
  /\ UNCHANGED <<vars, alive, readerVars, sent, overran, waited>>

(* Every value of the line is a number, and the block has room for them.   *)
Numbers ==
  /\ alive
  /\ writer = "line"
  /\ pc["tx"] = "idle"
  /\ lines < MaxLines
  /\ lines' = lines + 1
  /\ block' = lines'
  /\ writer' = "write"
  /\ UNCHANGED <<vars, alive, readerVars, sent, overran, waited>>

(* std::stof throws; the numbers before that value are in the block.       *)
BadLine ==
  /\ alive
  /\ writer = "line"
  /\ pc["tx"] = "idle"
  /\ alive' = FALSE
  /\ writer' = "threw"
  /\ block' \in {block, 0}
  /\ UNCHANGED <<vars, readerVars, lines, sent, overran, waited>>

(* More than 0x200 numbers overrun the block.  What lies behind it is up   *)
(* to the allocator: nothing, which ends the process, memory that nobody   *)
(* uses, or a block of the reader.  If the process goes on, write() sends  *)
(* up to 4 KiB and refuses more than that.                                 *)
LongLine ==
  /\ alive
  /\ writer = "line"
  /\ pc["tx"] = "idle"
  /\ lines < MaxLines
  /\ overran' = TRUE
  /\ \E spoiled \in Behind :
       mem' = [b \in Block |-> IF b \in spoiled THEN 0 ELSE mem[b]]
  /\ \/ /\ writer' = "write"
        /\ lines' = lines + 1 /\ block' = lines'
        /\ UNCHANGED <<vars, alive>>
     \/ /\ writer' = "complete"
        /\ block' = 0
        /\ NoTransfer("tx", "false")
        /\ UNCHANGED <<lines, alive>>
     \/ /\ alive' = FALSE
        /\ block' = 0
        /\ UNCHANGED <<vars, writer, lines>>
  /\ UNCHANGED <<reader, cur, addr, out, formatterVars, sent, waited>>

Write ==
  /\ writer = "write"
  /\ Post("tx")
  /\ Survives("tx")
  /\ writer' = "complete"
  /\ UNCHANGED <<readerVars, lines, block, sent, overran, waited>>

WriteComplete ==
  /\ alive
  /\ writer = "complete"
  /\ CompleteCall("tx")
  /\ writer' = "line"
  /\ UNCHANGED <<alive, readerVars, lines, block, sent, overran, waited>>

(* ---- The calls of the Dma, and the engine ------------------------------ *)

InCall(ch) ==
  /\ \/ WaitInterrupt(ch)
     \/ Lock(ch)
     \/ ch = "rx" /\ (RxDrop \/ RxDropFree \/ RxAck \/ RxNoIoc \/ RxFetch)
     \/ ch = "tx" /\ (TxFetch \/ TxAck)
  /\ Survives(ch)
  /\ UNCHANGED <<readerVars, writerVars, waited>>

(* select() gives up: is a transfer in flight?                             *)
TimeOut(ch) ==
  /\ alive
  /\ WaitTimeout(ch)
  /\ waited' = [waited EXCEPT ![ch] =
                  IF ring[ch].handed > ring[ch].taken THEN "late"
                  ELSE IF @ = "late" THEN @ ELSE "idle"]
  /\ UNCHANGED <<alive, readerVars, writerVars>>

Receive ==
  /\ HwComplete("rx", TRUE)
  /\ mem' = [mem EXCEPT ![addr[ring["rx"].done + 1]] = ring["rx"].done + 1]
  /\ UNCHANGED <<alive, reader, cur, addr, out, formatterVars, writerVars, waited>>

Send ==
  /\ HwComplete("tx", TRUE)
  /\ sent' = Append(sent, block)
  /\ UNCHANGED <<alive, readerVars, writer, lines, block, overran, waited>>

CtrlNext ==
  \/ ReadFirst
  \/ ReadNext
  \/ ReadComplete
  \/ PrintChunk
  \/ EmptyLine
  \/ Numbers
  \/ BadLine
  \/ LongLine
  \/ Write
  \/ WriteComplete
  \/ \E ch \in Chan : InCall(ch) \/ TimeOut(ch)
  \/ Receive
  \/ Send

CtrlSpec == CtrlInit /\ [][CtrlNext]_<<vars, ctrlVars>>

(* Both threads go on, and get a mutex that is released again and again.   *)
(* Nothing makes a chunk arrive, a line be entered, or the engine send.    *)
CtrlFairness ==
  /\ SF_<<vars, ctrlVars>>(ReadFirst)
  /\ SF_<<vars, ctrlVars>>(ReadNext)
  /\ WF_<<vars, ctrlVars>>(ReadComplete)
  /\ WF_<<vars, ctrlVars>>(PrintChunk)
  /\ SF_<<vars, ctrlVars>>(Write)
  /\ WF_<<vars, ctrlVars>>(WriteComplete)
  /\ \A ch \in Chan : SF_<<vars, ctrlVars>>(InCall(ch) \/ TimeOut(ch))

CtrlFairSpec == CtrlSpec /\ CtrlFairness

-----------------------------------------------------------------------------
(* The engine never writes into the block whose words are being printed,   *)
(* and never reads from the block that the next line is stored to - unless *)
(* an earlier wait on that side gave up on a transfer.                     *)
BuffersQuiet ==
  /\ reader = "print" /\ pc["rx"] = "idle" /\ waited["rx"] # "late" =>
       \A p \in ring["rx"].done + 1 .. ring["rx"].handed : addr[p] # cur
  /\ writer = "line" /\ pc["tx"] = "idle" /\ waited["tx"] # "late" =>
       ring["tx"].done = ring["tx"].handed

(* No call of read(), write(), readComplete() or writeComplete() throws -  *)
(* for a full ring, too many partial batches or a bad status - before a    *)
(* wait on its own side has timed out: never when polling, and never while *)
(* that side is busy.                                                      *)
ThrowsAfterTimeouts ==
  \A ch \in Chan : ret[ch].kind = "throw" => waited[ch] # "none"

(* What was formatted and is not on stdout yet are words that were too     *)
(* wide, one slot each: so the formatter is filled past its bufSamples     *)
(* slots (utils.hpp:96) only by a longer run of such words.                *)
OnlyWideHeld ==
  alive => /\ currentBufLoc = Len(out) - shown
           /\ \A k \in shown + 1 .. Len(out) : out[k] \in wide

(* What is formatted is what the engine received, and the engine sends     *)
(* what stdin gave, once each and in order, up to the first wait that gave *)
(* up on a transfer, and in the case of the reader up to the first overrun *)
(* of the writer's block.                                                  *)
RxStream == INSTANCE SampleStream WITH
  entered <- ring["rx"].done, left <- out, gaveUp <- (waited["rx"] = "late" \/ overran)
TxStream == INSTANCE SampleStream WITH
  entered <- lines, left <- sent, gaveUp <- (waited["tx"] = "late")
ImplementsRxStream == RxStream!Spec
ImplementsTxStream == TxStream!Spec

(* A chunk is printed once its successor has arrived, unless it is too     *)
(* wide for its slot.  Its own arrival is not enough: when it completes    *)
(* between the interrupt of its predecessor and the acknowledgement of     *)
(* that interrupt, it raises none.                                         *)
PrintedOnceNextArrives ==
  \A p \in 1 .. MaxPost["rx"] - 1 :
    ring["rx"].done > p
      ~> (shown >= p \/ p \in wide \/ waited["rx"] = "late" \/ ~ alive)
=============================================================================
