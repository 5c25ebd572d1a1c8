---------------------------- MODULE DevicesProofs ----------------------------
(***************************************************************************)
(* Theorems about the smaller parts of a card, each for its own            *)
(* specification: the flash memory, the register interface, the DMA engine *)
(* without scatter-gather, the HLS kernels, the timers and the FIFO; and,  *)
(* with the streams of RoutingProofs, for the card that has any of them.   *)
(* They hold for every geometry, number of registers and number of         *)
(* transfers, frames, timers and processes.                                *)
(***************************************************************************)
EXTENDS Devices, RoutingProofs

-----------------------------------------------------------------------------
(* ---- The flash memory ---------------------------------------------------- *)

(* While flash() writes and compares, its range lies within the flash, and *)
(* nothing is promised of the cells of the range: erase has opened them.   *)
FlashInv ==
  /\ offset \in Int
  /\ image \in Images \cup {NoFile, <<>>}
  /\ flashStep \in {"write", "verify"} => Fits /\ \A c \in Extent : promised[c] = "open"
  /\ FlashHonest

(* A comparison that succeeds has compared every cell of the range.        *)
LEMMA MatchesAll ==
  ASSUME FlashInv, Fits, Matches, NEW c \in Extent
  PROVE  cells[c] = image[c - offset + 1]
<1>1. image \in Images \cup {<<>>} /\ image # NoFile
  BY DEF FlashInv, Fits
<1>2. \A S : \A file \in Seq(S) : DOMAIN file = 1 .. Len(file) /\ Len(file) \in Nat
  OBVIOUS
<1>3. DOMAIN image = 1 .. Len(image) /\ Len(image) \in Nat
  <2>1. CASE image = <<>>
    BY <2>1
  <2>2. CASE image \in Images
    <3>1. image \in Seq({image[i] : i \in DOMAIN image})
      BY <2>2, FlashAssumption, Zenon
    <3> QED
      BY <3>1, <1>2, Zenon
  <2> QED
    BY <1>1, <2>1, <2>2
<1>4. c \in offset .. offset + Len(image) - 1
  BY <1>1 DEF Extent
<1> DEFINE i == c - offset + 1
<1>5. offset \in Int /\ c \in Int /\ i \in 1 .. Len(image)
  BY <1>3, <1>4 DEF FlashInv
<1>6. cells[offset + i - 1] = image[i]
  BY <1>3, <1>5 DEF Matches
<1>7. offset + i - 1 = c
  BY <1>5
<1> HIDE DEF i
<1> QED
  BY <1>6, <1>7 DEF i

LEMMA FlashStart == \A lock : FlashInit(lock) => FlashInv
BY DEF FlashInit, FlashInv, FlashHonest

LEMMA FlashStep == FlashInv /\ [FlashNext]_flashVars => FlashInv'
<1> SUFFICES ASSUME FlashInv, [FlashNext]_flashVars PROVE FlashInv'
  OBVIOUS
<1>1. CASE BeginFlash
  <2>1. Cells \subseteq Int
    BY FlashAssumption DEF Cells
  <2> QED
    BY <1>1, <2>1 DEF BeginFlash, GoOn, FlashInv, FlashHonest
<1>2. CASE Reset \/ Unlock \/ Read
  BY <1>2 DEF Reset, Unlock, Read, GoOn, Fails, Return, callVars, FlashInv, FlashHonest
<1>3. CASE Erase
  <2>1. UNCHANGED callVars /\ UNCHANGED <<Extent, Fits, Touched>>
    BY <1>3 DEF Erase, callVars, Extent, Fits, Touched
  <2>2. FlashHonest'
    BY <1>3 DEF Erase, FlashInv, FlashHonest
  <2>3. ASSUME flashStep' \in {"write", "verify"}
        PROVE  Fits /\ \A c \in Extent : promised'[c] = "open"
    <3>1. Fits
      BY <1>3, <2>3 DEF Erase, GoOn, Fails, Return
    <3>2. \A c \in Extent : c \in Cells /\ Block(c) \in Touched
      BY <3>1 DEF Fits, Touched
    <3> QED
      BY <1>3, <3>1, <3>2 DEF Erase
  <2> QED
    BY <2>1, <2>2, <2>3 DEF FlashInv, callVars
<1>4. CASE Write
  <2>1. UNCHANGED callVars /\ UNCHANGED <<Extent, Fits>> /\ UNCHANGED promised
    BY <1>4 DEF Write, callVars, Extent, Fits
  <2>2. flashStep = "write" /\ flashStep' \in {"verify", "idle"}
    BY <1>4 DEF Write, GoOn, Fails, Return
  <2>3. FlashHonest'
    BY <1>4, <2>1, <2>2 DEF Write, FlashInv, FlashHonest
  <2> QED
    BY <2>1, <2>2, <2>3 DEF FlashInv, callVars
<1>5. CASE Verify
  <2>1. UNCHANGED callVars /\ UNCHANGED cells /\ flashStep' = "idle" /\ flashStep = "verify"
    BY <1>5 DEF Verify, Fails, Return
  <2>2. CASE UNCHANGED promised
    BY <2>1, <2>2 DEF FlashInv, FlashHonest, callVars
  <2>3. CASE flashed' = "true" /\ Matches
             /\ promised' = [c \in Cells |-> IF c \in Extent THEN image[c - offset + 1]
                                             ELSE promised[c]]
    <3>1. \A c \in Extent : cells[c] = image[c - offset + 1]
      BY <2>1, <2>3, MatchesAll DEF FlashInv
    <3>2. FlashHonest'
      BY <2>1, <2>3, <3>1 DEF FlashInv, FlashHonest
    <3> QED
      BY <2>1, <3>2 DEF FlashInv, callVars
  <2>4. UNCHANGED promised \/ (flashed' = "true" /\ Matches)
    BY <1>5 DEF Verify, Fails, Return
  <2> QED
    BY <1>5, <2>2, <2>3, <2>4 DEF Verify, Fails, Return
<1>6. CASE UNCHANGED flashVars
  BY <1>6 DEF flashVars, callVars, FlashInv, FlashHonest, Extent, Fits
<1> QED
  BY <1>1, <1>2, <1>3, <1>4, <1>5, <1>6 DEF FlashNext

(* What flash() has reported as programmed stays in the flash until        *)
(* another call erases a block of it: a call that is refused, fails or     *)
(* dies changes only cells of which nothing is promised (EMC::flash(),     *)
(* lib/ips/emc.cpp).                                                       *)
THEOREM FlashKeepsPromises == FlashSpec => []FlashHonest
<1>1. FlashInv => FlashHonest
  BY DEF FlashInv
<1>2. FlashInit(Locking) => FlashInv
  BY FlashStart
<1> QED
  BY <1>1, <1>2, FlashStep, PTL DEF FlashSpec

-----------------------------------------------------------------------------
(* ---- The register interface ---------------------------------------------- *)

(* The addresses that check() tests lead to cells of their own.            *)
Separate == \A r, s \in Regs \ {0} : decode[r] = decode[s] => r = s

(* A register with a cell of its own that changes, and a reset bit of its  *)
(* own or no reset since, reads what it was set to.                        *)
Reliable(r) == decode[r] \notin stuck \cup {decode[0]} /\ (sharedReset \/ r \in fresh)
ReadsAsSet == \A r \in Regs \ {0} : Reliable(r) => getRegister(r) = set[r]

(* check() learns that the registers are separate from the pattern alone:  *)
(* two of them that read different values at the same time share no cell.  *)
RegistersInv ==
  /\ decode \in [Regs -> Regs]
  /\ DOMAIN held = Regs /\ DOMAIN set = Regs
  /\ nextReg \in Nat
  /\ checkStep \in {"write", "read", "reset", "configure", "idle"}
  /\ checkStep # "idle" => checked = "running"
  /\ checkStep \in {"write", "read"} => nextReg \in Regs \ {0}
  /\ checkStep = "read" => \A r \in 1 .. nextReg - 1 : getRegister(r) = r
  /\ checkStep \in {"reset", "configure"} \/ checked = "true" => Separate
  /\ checkStep = "configure" => nextReg \in 0 .. 2
  /\ checkStep = "configure" \/ checked = "true" => ReadsAsSet

(* Setting a register changes no other one that has a cell of its own.     *)
LEMMA PutKeeps ==
  ASSUME RegistersInv, Separate, ReadsAsSet, NEW r \in Regs, NEW value, Put(r, value),
         UNCHANGED faultVars, set' = [set EXCEPT ![r] = value], fresh' = fresh \cup {r}
  PROVE  ReadsAsSet' /\ DOMAIN held' = Regs
<1>1. DOMAIN held' = Regs
  BY DEF Put, RegistersInv
<1>2. ASSUME NEW s \in Regs \ {0}, decode[s] \notin stuck \cup {decode[0]},
             sharedReset \/ s \in fresh \cup {r}
      PROVE  held'[decode[s]] = set'[s]
  <2>1. CASE s = r
    BY <1>2, <2>1 DEF Put, RegistersInv
  <2>2. CASE s # r
    <3>1. decode[s] # decode[r] /\ Reliable(s)
      BY <1>2, <2>2 DEF Separate, Reliable
    <3>2. held'[decode[s]] = held[decode[s]]
      BY <3>1 DEF Put, RegistersInv
    <3> QED
      BY <1>2, <2>2, <3>1, <3>2 DEF ReadsAsSet, getRegister, RegistersInv
  <2> QED
    BY <2>1, <2>2
<1> QED
  BY <1>1, <1>2 DEF ReadsAsSet, Reliable, getRegister, faultVars

(* Nor does resetting a set of registers, where the bits of the reset      *)
(* register lead to their cells.                                           *)
LEMMA ResetKeeps ==
  ASSUME RegistersInv, NEW rs \in SUBSET Regs,
         rs = Regs \/ (Separate /\ ReadsAsSet), ResetCells(rs), UNCHANGED faultVars,
         set' = [r \in Regs |-> IF r \in rs THEN 0 ELSE set[r]]
  PROVE  ReadsAsSet' /\ DOMAIN held' = Regs
<1>0. PICK zeroed \in IF sharedReset THEN {{decode[r] : r \in rs}} ELSE SUBSET Regs :
             held' = [c \in Regs |-> IF c \in zeroed \ stuck THEN 0 ELSE held[c]]
  BY DEF ResetCells
<1>1. ASSUME NEW s \in Regs \ {0}, decode[s] \notin stuck \cup {decode[0]}, sharedReset
      PROVE  held'[decode[s]] = set'[s]
  <2>0. zeroed = {decode[r] : r \in rs} /\ Reliable(s)
    BY <1>0, <1>1 DEF Reliable
  <2>1. CASE s \in rs
    BY <1>0, <1>1, <2>0, <2>1 DEF RegistersInv
  <2>2. CASE s \notin rs
    <3>1. \A r \in rs : decode[s] # decode[r]
      BY <1>1, <2>2 DEF Separate
    <3>2. held'[decode[s]] = held[decode[s]]
      BY <1>0, <2>0, <3>1 DEF RegistersInv
    <3> QED
      BY <1>1, <2>0, <2>2, <3>2 DEF ReadsAsSet, getRegister
  <2> QED
    BY <2>1, <2>2
<1>2. fresh' = {}
  BY DEF ResetCells
<1> QED
  BY <1>0, <1>1, <1>2 DEF ReadsAsSet, Reliable, getRegister, faultVars

LEMMA RegistersStart == RegistersInit(Interfaces) => RegistersInv
<1> USE RegistersAssumption DEF Regs
<1> SUFFICES ASSUME RegistersInit(Interfaces) PROVE RegistersInv
  OBVIOUS
<1>1. PICK i \in Interfaces :
             decode = i[1] /\ stuck = i[2] /\ held = i[3] /\ sharedReset = i[4]
  BY DEF RegistersInit
<1>2. decode \in [Regs -> Regs] /\ DOMAIN held = Regs
  BY <1>1 DEF Interfaces
<1> QED
  BY <1>2 DEF RegistersInit, RegistersInv

LEMMA RegistersStep == RegistersInv /\ [RegistersNext]_registersVars => RegistersInv'
<1> USE RegistersAssumption DEF Regs
<1> SUFFICES ASSUME RegistersInv, [RegistersNext]_registersVars PROVE RegistersInv'
  OBVIOUS
<1>1. CASE WritePattern
  BY <1>1, SMTT(60) DEF WritePattern, Put, RegistersInv, faultVars, Separate, ReadsAsSet,
     Reliable, getRegister
<1>2. CASE ReadPattern
  <2>1. UNCHANGED <<decode, stuck, held, set>> /\ checkStep = "read"
    BY <1>2 DEF ReadPattern, faultVars
  <2>2. CASE getRegister(nextReg) # nextReg
    BY <1>2, <2>1, <2>2 DEF ReadPattern, RegistersInv, Separate
  <2>3. CASE getRegister(nextReg) = nextReg
    <3>1. \A r \in 1 .. nextReg : getRegister(r) = r
      BY <2>1, <2>3 DEF RegistersInv
    <3>2. checkStep' = "reset" => Separate
      BY <1>2, <2>3, <3>1, SMTT(60) DEF ReadPattern, RegistersInv, Separate, getRegister
    <3> QED
      BY <1>2, <2>1, <2>3, <3>1, <3>2 DEF ReadPattern, RegistersInv, Separate, getRegister
  <2> QED
    BY <2>2, <2>3
<1>3. CASE resetAllRegisters
  <2>1. ReadsAsSet' /\ DOMAIN held' = Regs
    BY <1>3, ResetKeeps DEF resetAllRegisters
  <2> QED
    BY <1>3, <2>1 DEF resetAllRegisters, RegistersInv, faultVars, Separate
<1>4. CASE Configure
  <2>1. nextReg \in Regs /\ Separate /\ ReadsAsSet
    BY <1>4 DEF Configure, RegistersInv
  <2>2. ReadsAsSet' /\ DOMAIN held' = Regs
    BY <1>4, <2>1, PutKeeps DEF Configure
  <2> QED
    BY <1>4, <2>2 DEF Configure, RegistersInv, faultVars, Separate
<1>5. ASSUME NEW r \in 0 .. registerNum, setRegister(r)
      PROVE  RegistersInv'
  <2>1. CASE r \in Regs
    <3>1. ReadsAsSet' /\ DOMAIN held' = Regs
      BY <1>5, <2>1, PutKeeps DEF setRegister, Using, RegistersInv
    <3> QED
      BY <1>5, <2>1, <3>1 DEF setRegister, Using, RegistersInv, faultVars, Separate
  <2>2. CASE r \notin Regs
    BY <1>5, <2>2 DEF setRegister, Using, RegistersInv, faultVars, Separate, ReadsAsSet,
       Reliable, getRegister
  <2> QED
    BY <2>1, <2>2
<1>6. ASSUME NEW r \in 0 .. registerNum, resetRegister(r)
      PROVE  RegistersInv'
  <2>1. CASE r \in Regs
    <3>1. set' = [s \in Regs |-> IF s \in {r} THEN 0 ELSE set[s]]
      BY <1>6, <2>1 DEF resetRegister, RegistersInv
    <3>2. ReadsAsSet' /\ DOMAIN held' = Regs
      BY <1>6, <2>1, <3>1, ResetKeeps, ZenonT(60) DEF resetRegister, Using, RegistersInv
    <3> QED
      BY <1>6, <2>1, <3>2 DEF resetRegister, Using, RegistersInv, faultVars, Separate
  <2>2. CASE r \notin Regs
    BY <1>6, <2>2 DEF resetRegister, Using, RegistersInv, faultVars, Separate, ReadsAsSet,
       Reliable, getRegister
  <2> QED
    BY <2>1, <2>2
<1>7. CASE UNCHANGED registersVars
  BY <1>7 DEF registersVars, faultVars, RegistersInv, Separate, ReadsAsSet, Reliable, getRegister
<1> QED
  BY <1>1, <1>2, <1>3, <1>4, <1>5, <1>6, <1>7 DEF RegistersNext

LEMMA RegistersRead == RegistersInv => RegistersHonest
<1> QED
  BY DEF RegistersInv, RegistersHonest, ReadsAsSet, Reliable

(* If check() returned true, each register that has a cell of its own,     *)
(* that changes, reads what it was last set to, for any number of          *)
(* registers, any decoding and any set of cells that do not change; after a*)
(* reset only if the reset bits lead to the cells of their registers       *)
(* (Register::check(), lib/ips/register.cpp).                              *)
THEOREM CheckedRegistersRead == RegistersSpec => []RegistersHonest
<1> QED
  BY RegistersRead, RegistersStart, RegistersStep, PTL DEF RegistersSpec

-----------------------------------------------------------------------------
(* ---- The DMA engine without scatter-gather -------------------------------- *)

(* The counters of a direction belong together, and a thread of its own    *)
(* keeps them in step; memcpy() does until it has left a receive behind.   *)
SimpleInv ==
  /\ user \in {"threads", "memcpy"}
  /\ DOMAIN step = Dirs
  /\ halted \in [Dirs -> BOOLEAN] /\ busy \in [Dirs -> BOOLEAN] /\ iocIrq \in [Dirs -> BOOLEAN]
  /\ accepted \in [Dirs -> Nat] /\ done \in [Dirs -> Nat]
  /\ reported \in [Dirs -> Nat] /\ bytesOf \in [Dirs -> Nat]
  /\ copied \in Nat
  /\ \A d \in Dirs :
       /\ halted[d] => ~ busy[d]
       /\ accepted[d] = done[d] + (IF busy[d] THEN 1 ELSE 0)
       /\ reported[d] + (IF iocIrq[d] THEN 1 ELSE 0) <= done[d]
       /\ user = "threads" =>
            /\ step[d] # "copyWrite"
            /\ done[d] = reported[d] + (IF iocIrq[d] THEN 1 ELSE 0)
            /\ ~ (busy[d] /\ iocIrq[d])
            /\ step[d] = "idle" => ~ busy[d] /\ ~ iocIrq[d]
            /\ bytesOf[d] = reported[d]
  /\ user = "memcpy" =>
       /\ step["s2mm"] # "copyWrite"
       /\ "idle" \in {step["mm2s"], step["s2mm"]}
       /\ done["s2mm"] <= accepted["mm2s"]
       /\ copied = 0 =>
            /\ reported["mm2s"] = 0 /\ reported["s2mm"] = 0
            /\ accepted["mm2s"] > 0 => step["mm2s"] \in {"started", "stuck"}

LEMMA SimpleStart == SimpleInit => SimpleInv
<1> USE SimpleAssumption DEF Dirs
<1> QED
  BY DEF SimpleInit, SimpleInv

LEMMA SimpleStep == SimpleInv /\ [SimpleNext]_simpleVars => SimpleInv'
<1> USE SimpleAssumption DEF Dirs
<1> SUFFICES ASSUME SimpleInv, [SimpleNext]_simpleVars PROVE SimpleInv'
  OBVIOUS
<1>1. ASSUME NEW d \in Dirs, StartTransfer(d) PROVE SimpleInv'
  BY <1>1 DEF StartTransfer, OneThread, MayStart, Turns, Starts, SimpleInv
<1>2. ASSUME NEW d \in Dirs, StartRefused(d) PROVE SimpleInv'
  BY <1>2 DEF StartRefused, OneThread, Turns, SimpleInv
<1>3. ASSUME NEW d \in Dirs, NotYet(d) PROVE SimpleInv'
  BY <1>3 DEF NotYet, Turns, SimpleInv
<1>4. ASSUME NEW d \in Dirs, Report(d) PROVE SimpleInv'
  BY <1>4 DEF Report, Turns, SimpleInv
<1>5. ASSUME NEW d \in Dirs, Finishes(d) PROVE SimpleInv'
  BY <1>5 DEF Finishes, SimpleInv
<1>6. CASE CopyReads
  BY <1>6 DEF CopyReads, MayStart, Turns, Starts, SimpleInv
<1>7. CASE CopyWrites
  BY <1>7 DEF CopyWrites, MayStart, Turns, Starts, SimpleInv
<1>8. CASE CopyRefused
  BY <1>8 DEF CopyRefused, Turns, SimpleInv
<1>9. CASE UNCHANGED simpleVars
  BY <1>9 DEF simpleVars, SimpleInv
<1> QED
  BY <1>1, <1>2, <1>3, <1>4, <1>5, <1>6, <1>7, <1>8, <1>9 DEF SimpleNext

LEMMA SimpleServed == SimpleInv => SimpleHonest
<1> QED
  BY DEF SimpleInv, SimpleHonest, Dirs

(* A completion call reports a transfer that was finished, once, and with  *)
(* its own length, until a memcpy() has left its receive half behind       *)
(* (Dma::writeCompleteSimple() and readCompleteSimple(), lib/ips/dma.cpp). *)
THEOREM SimpleReportsOnce == SimpleSpec => []SimpleHonest
<1> QED
  BY SimpleServed, SimpleStart, SimpleStep, PTL DEF SimpleSpec

-----------------------------------------------------------------------------
(* ---- The HLS kernels ----------------------------------------------------- *)

(* Where the process is before it has disarmed a kernel, before it has     *)
(* started Rtds2Gpu, and before it has sent the frame that came            *)
Armed(k) ==
  {"initR", "initR2"} \cup (IF k = "gpu2rtds" THEN {"initG", "initG2"} ELSE {})
BeforeStart == {"start", "start2"}
UntilSent == {"wait", "copy", "send"}

ControlWords == [ap_start : BOOLEAN, auto_restart : BOOLEAN]

KernelTypes ==
  /\ ap_start \in [Kernels -> BOOLEAN] /\ auto_restart \in [Kernels -> BOOLEAN]
  /\ inRun \in [Kernels -> BOOLEAN] /\ unfinished \in [Kernels -> BOOLEAN]
  /\ early \in [Kernels -> BOOLEAN] /\ lost \in [Kernels -> BOOLEAN]
  /\ word \in ControlWords
  /\ registers \in [RegisterNames -> Nat] /\ target \in [RegisterNames -> Nat]
  /\ memory \in [0 .. 1 -> Nat]
  /\ life \in Nat /\ seq \in Nat /\ stale \in BOOLEAN

(* A kernel that the process has disarmed does not restart on its own, and *)
(* what the process has read of its control register does not change that. *)
Disarmed ==
  /\ \A k \in Kernels : IF place \in Armed(k) THEN early[k] ELSE ~ auto_restart[k]
  /\ place \in {"size2", "start2", "send2"} => ~ word.auto_restart

(* A kernel that was idle at start() is in or before the run it asked for, *)
(* or done with it.                                                        *)
RunsOnce ==
  \A k \in Kernels : ~ early[k] =>
    /\ ~ unfinished[k] => isIdleBit(k) /\ ~ lost[k]
    /\ lost[k] => ap_start[k] /\ ~ inRun[k]

(* The registers as the process sets them one after the other, and how far *)
(* the run has come that writes to its memory                              *)
RegistersSet ==
  /\ place \in {"doorbell_offset", "data_offset", "frame_size", "memset"} => registers["baseaddr"] = life
  /\ place \in {"data_offset", "frame_size", "memset"} => registers["doorbell_offset"] = life
  /\ place \in {"frame_size", "memset"} => registers["data_offset"] = life
  /\ place \in {"memset"} \cup BeforeStart \cup UntilSent => \A r \in RegisterNames : registers[r] = life

ToCome == ap_start["rtds2gpu"] /\ ~ inRun["rtds2gpu"] /\ memory = Zeroes
Writing ==
  /\ inRun["rtds2gpu"] /\ \A r \in RegisterNames : target[r] = life
  /\ \/ phase = "data" /\ memory = Zeroes
     \/ phase = "doorbell" /\ doorbell = 0 /\ data = seq /\ seq > 0
     \/ phase = "end" /\ doorbell = seq /\ data = seq /\ seq > 0
Written == isIdleBit("rtds2gpu") /\ doorbell > 0 /\ data = doorbell

FrameInv ==
  /\ place = "wait" => unfinished["rtds2gpu"]
  /\ ~ stale =>
       /\ place \in BeforeStart => isIdleBit("rtds2gpu") /\ memory = Zeroes
       /\ place = "wait" => ToCome \/ Writing \/ Written
       /\ place \in {"copy", "send"} => (Writing /\ phase = "end") \/ Written
       /\ place = "send" => registerFrames = doorbell

HlsInv == KernelTypes /\ Disarmed /\ RunsOnce /\ RegistersSet /\ FrameInv

(* The words of data and doorbell are the two words of the memory.         *)
LEMMA TwoWords ==
  ASSUME NEW p \in Nat
  PROVE  DataAt(p) \in 0 .. 1 /\ DoorbellAt(p) \in 0 .. 1 /\ DataAt(p) # DoorbellAt(p)
BY DEF DataAt, DoorbellAt

(* The halves of an assignment to a bit of the control register keep the   *)
(* types, and change of the control register what they are for.            *)
LEMMA ReadCtrlKeeps ==
  ASSUME KernelTypes, NEW k \in Kernels, ReadCtrl(k)
  PROVE  KernelTypes' /\ word'.auto_restart = auto_restart[k]
<1>1. word' \in ControlWords /\ word'.auto_restart = auto_restart[k]
  BY DEF KernelTypes, ReadCtrl, ControlWords
<1> QED
  BY <1>1 DEF KernelTypes, ReadCtrl, ctrlRegs, runVars, flagVars, memVars

LEMMA WriteCtrlKeeps ==
  ASSUME KernelTypes, NEW k \in Kernels, NEW w \in ControlWords, WriteCtrl(k, w)
  PROVE  /\ ap_start' \in [Kernels -> BOOLEAN] /\ auto_restart' \in [Kernels -> BOOLEAN]
         /\ word' \in ControlWords
         /\ \A j \in Kernels : j # k => ap_start'[j] = ap_start[j] /\ auto_restart'[j] = auto_restart[j]
         /\ ap_start'[k] = (ap_start[k] \/ w.ap_start) /\ auto_restart'[k] = w.auto_restart
<1>1. Blank \in ControlWords
  BY DEF Blank, ControlWords
<1>2. w.ap_start \in BOOLEAN /\ w.auto_restart \in BOOLEAN
  BY DEF ControlWords
<1>3. ap_start \in [Kernels -> BOOLEAN] /\ auto_restart \in [Kernels -> BOOLEAN]
  BY DEF KernelTypes
<1>4. (ap_start[k] \/ w.ap_start) \in BOOLEAN
  OBVIOUS
<1>5. ap_start' = [ap_start EXCEPT ![k] = ap_start[k] \/ w.ap_start]
      /\ auto_restart' = [auto_restart EXCEPT ![k] = w.auto_restart] /\ word' = Blank
  BY DEF WriteCtrl
<1> QED
  BY <1>1, <1>2, <1>3, <1>4, <1>5

LEMMA SetAutoRestartKeeps ==
  ASSUME KernelTypes, NEW k \in Kernels, SetAutoRestart(k)
  PROVE  /\ KernelTypes' /\ ~ auto_restart'[k]
         /\ \A j \in Kernels : j # k => ap_start'[j] = ap_start[j] /\ auto_restart'[j] = auto_restart[j]
<1> DEFINE w == [word EXCEPT !.auto_restart = FALSE]
<1>1. w \in ControlWords /\ w.auto_restart = FALSE
  BY DEF KernelTypes, ControlWords
<1> HIDE DEF w
<1>2. WriteCtrl(k, w)
  BY DEF SetAutoRestart, w
<1> QED
  BY <1>1, <1>2, WriteCtrlKeeps DEF SetAutoRestart, KernelTypes, runVars, flagVars, memVars

LEMMA StartKeeps ==
  ASSUME KernelTypes, NEW k \in Kernels, Start(k)
  PROVE  /\ KernelTypes' /\ ap_start'[k] /\ auto_restart'[k] = word.auto_restart
         /\ \A j \in Kernels : j # k => ap_start'[j] = ap_start[j] /\ auto_restart'[j] = auto_restart[j]
<1> DEFINE w == [word EXCEPT !.ap_start = TRUE]
<1>1. w \in ControlWords /\ w.ap_start = TRUE /\ w.auto_restart = word.auto_restart
  BY DEF KernelTypes, ControlWords
<1> HIDE DEF w
<1>2. WriteCtrl(k, w)
  BY DEF Start, w
<1>3. isIdleBit(k) \in BOOLEAN
  BY DEF isIdleBit
<1> QED
  BY <1>1, <1>2, <1>3, WriteCtrlKeeps DEF Start, KernelTypes, runVars, memVars

LEMMA HlsStart == HlsInit => HlsInv
<1> USE HlsAssumption DEF Kernels, RegisterNames
<1> SUFFICES ASSUME HlsInit PROVE HlsInv
  OBVIOUS
<1>1. KernelTypes
  BY DEF HlsInit, KernelTypes, ControlWords, Blank, NeverSet, Zeroes
<1>2. Disarmed /\ RunsOnce
  BY DEF HlsInit, Disarmed, RunsOnce, Armed
<1>3. RegistersSet /\ FrameInv
  BY DEF HlsInit, RegistersSet, FrameInv, BeforeStart, UntilSent
<1> QED
  BY <1>1, <1>2, <1>3 DEF HlsInv

LEMMA HlsStep == HlsInv /\ [HlsNext]_hlsVars => HlsInv'
<1> USE HlsAssumption DEF Kernels, RegisterNames
<1> SUFFICES ASSUME HlsInv, [HlsNext]_hlsVars PROVE HlsInv'
  OBVIOUS
<1>0. KernelTypes /\ Disarmed /\ RunsOnce /\ RegistersSet /\ FrameInv
  BY DEF HlsInv
<1>a. Zeroes \in [0 .. 1 -> Nat] /\ \A w \in 0 .. 1 : Zeroes[w] = 0
  BY DEF Zeroes
<1>1. CASE InitializeRtds2Gpu
  <2>1. CASE GoesTo("initR", "initR2") /\ ReadCtrl("rtds2gpu")
    <3>1. KernelTypes'
      BY <2>1, <1>0, ReadCtrlKeeps
    <3>2. Disarmed' /\ RunsOnce'
      BY <2>1, <1>0, ReadCtrlKeeps DEF GoesTo, ReadCtrl, ctrlRegs, runVars, flagVars, memVars,
         sizeVars, KernelTypes, Disarmed, RunsOnce, Armed, isIdleBit
    <3>3. RegistersSet' /\ FrameInv'
      BY <2>1, <1>0, ReadCtrlKeeps, TwoWords DEF GoesTo, ReadCtrl, ctrlRegs, runVars,
         flagVars, memVars, sizeVars, KernelTypes, Disarmed, RegistersSet, FrameInv, Armed,
         BeforeStart, UntilSent, ToCome, Writing, Written, isIdleBit, data, doorbell
    <3> QED
      BY <3>1, <3>2, <3>3 DEF HlsInv
  <2>2. CASE GoesTo("initR2", "initG") /\ SetAutoRestart("rtds2gpu")
    <3>1. KernelTypes'
      BY <2>2, <1>0, SetAutoRestartKeeps
    <3>2. Disarmed' /\ RunsOnce'
      BY <2>2, <1>0, SetAutoRestartKeeps DEF GoesTo, SetAutoRestart, ctrlRegs, runVars,
         flagVars, memVars, sizeVars, KernelTypes, Disarmed, RunsOnce, Armed, isIdleBit
    <3>3. RegistersSet' /\ FrameInv'
      BY <2>2, <1>0, SetAutoRestartKeeps, TwoWords DEF GoesTo, SetAutoRestart, ctrlRegs,
         runVars, flagVars, memVars, sizeVars, KernelTypes, Disarmed, RegistersSet, FrameInv,
         Armed, BeforeStart, UntilSent, ToCome, Writing, Written, isIdleBit, data, doorbell
    <3> QED
      BY <3>1, <3>2, <3>3 DEF HlsInv
  <2> QED
    BY <1>1, <2>1, <2>2 DEF InitializeRtds2Gpu, Initialize
<1>2. CASE Initialize("gpu2rtds", "initG", "initG2", "frameSize")
  <2>1. CASE GoesTo("initG", "initG2") /\ ReadCtrl("gpu2rtds")
    <3>1. KernelTypes'
      BY <2>1, <1>0, ReadCtrlKeeps
    <3>2. Disarmed' /\ RunsOnce'
      BY <2>1, <1>0, ReadCtrlKeeps DEF GoesTo, ReadCtrl, ctrlRegs, runVars, flagVars, memVars,
         sizeVars, KernelTypes, Disarmed, RunsOnce, Armed, isIdleBit
    <3>3. RegistersSet' /\ FrameInv'
      BY <2>1, <1>0, ReadCtrlKeeps, TwoWords DEF GoesTo, ReadCtrl, ctrlRegs, runVars,
         flagVars, memVars, sizeVars, KernelTypes, Disarmed, RegistersSet, FrameInv, Armed,
         BeforeStart, UntilSent, ToCome, Writing, Written, isIdleBit, data, doorbell
    <3> QED
      BY <3>1, <3>2, <3>3 DEF HlsInv
  <2>2. CASE GoesTo("initG2", "frameSize") /\ SetAutoRestart("gpu2rtds")
    <3>1. KernelTypes'
      BY <2>2, <1>0, SetAutoRestartKeeps
    <3>2. Disarmed' /\ RunsOnce'
      BY <2>2, <1>0, SetAutoRestartKeeps DEF GoesTo, SetAutoRestart, ctrlRegs, runVars,
         flagVars, memVars, sizeVars, KernelTypes, Disarmed, RunsOnce, Armed, isIdleBit
    <3>3. RegistersSet' /\ FrameInv'
      BY <2>2, <1>0, SetAutoRestartKeeps, TwoWords DEF GoesTo, SetAutoRestart, ctrlRegs,
         runVars, flagVars, memVars, sizeVars, KernelTypes, Disarmed, RegistersSet, FrameInv,
         Armed, BeforeStart, UntilSent, ToCome, Writing, Written, isIdleBit, data, doorbell
    <3> QED
      BY <3>1, <3>2, <3>3 DEF HlsInv
  <2> QED
    BY <1>2, <2>1, <2>2 DEF Initialize
<1>3. CASE getMaxFrameSize
  <2>1. CASE SetFrameSize("frameSize", "size", 0)
    <3>1. KernelTypes'
      BY <2>1, <1>0 DEF SetFrameSize, GoesTo, ctrlRegs, runVars, flagVars, memVars, sizeVars,
         KernelTypes
    <3>2. Disarmed' /\ RunsOnce'
      BY <2>1, <1>0 DEF SetFrameSize, GoesTo, ctrlRegs, runVars, flagVars, memVars, sizeVars,
         KernelTypes, Disarmed, RunsOnce, Armed, isIdleBit
    <3>3. RegistersSet' /\ FrameInv'
      BY <2>1, <1>0, TwoWords DEF SetFrameSize, GoesTo, ctrlRegs, runVars, flagVars, memVars,
         sizeVars, KernelTypes, Disarmed, RegistersSet, FrameInv, Armed, BeforeStart,
         UntilSent, ToCome, Writing, Written, isIdleBit, data, doorbell
    <3> QED
      BY <3>1, <3>2, <3>3 DEF HlsInv
  <2>2. CASE GoesTo("size", "size2") /\ ReadCtrl("gpu2rtds")
    <3>1. KernelTypes'
      BY <2>2, <1>0, ReadCtrlKeeps
    <3>2. Disarmed' /\ RunsOnce'
      BY <2>2, <1>0, ReadCtrlKeeps DEF GoesTo, ReadCtrl, ctrlRegs, runVars, flagVars, memVars,
         sizeVars, KernelTypes, Disarmed, RunsOnce, Armed, isIdleBit
    <3>3. RegistersSet' /\ FrameInv'
      BY <2>2, <1>0, ReadCtrlKeeps, TwoWords DEF GoesTo, ReadCtrl, ctrlRegs, runVars,
         flagVars, memVars, sizeVars, KernelTypes, Disarmed, RegistersSet, FrameInv, Armed,
         BeforeStart, UntilSent, ToCome, Writing, Written, isIdleBit, data, doorbell
    <3> QED
      BY <3>1, <3>2, <3>3 DEF HlsInv
  <2>3. CASE GoesTo("size2", "sized") /\ Start("gpu2rtds")
    <3>1. KernelTypes'
      BY <2>3, <1>0, StartKeeps
    <3>2. Disarmed' /\ RunsOnce'
      BY <2>3, <1>0, StartKeeps DEF GoesTo, Start, ctrlRegs, runVars, flagVars, memVars,
         sizeVars, KernelTypes, Disarmed, RunsOnce, Armed, isIdleBit
    <3>3. RegistersSet' /\ FrameInv'
      BY <2>3, <1>0, StartKeeps, TwoWords DEF GoesTo, Start, ctrlRegs, runVars, flagVars,
         memVars, sizeVars, KernelTypes, Disarmed, RegistersSet, FrameInv, Armed, BeforeStart,
         UntilSent, ToCome, Writing, Written, isIdleBit, data, doorbell
    <3> QED
      BY <3>1, <3>2, <3>3 DEF HlsInv
  <2>4. CASE GoesTo("sized", "status") /\ Finished("gpu2rtds")
    <3>1. KernelTypes'
      BY <2>4, <1>0 DEF GoesTo, Finished, ctrlRegs, runVars, flagVars, memVars, sizeVars,
         KernelTypes
    <3>2. Disarmed' /\ RunsOnce'
      BY <2>4, <1>0 DEF GoesTo, Finished, ctrlRegs, runVars, flagVars, memVars, sizeVars,
         KernelTypes, Disarmed, RunsOnce, Armed, isIdleBit
    <3>3. RegistersSet' /\ FrameInv'
      BY <2>4, <1>0, TwoWords DEF GoesTo, Finished, ctrlRegs, runVars, flagVars, memVars,
         sizeVars, KernelTypes, Disarmed, RegistersSet, FrameInv, Armed, BeforeStart,
         UntilSent, ToCome, Writing, Written, isIdleBit, data, doorbell
    <3> QED
      BY <3>1, <3>2, <3>3 DEF HlsInv
  <2>5. CASE GoesTo("status", "loop") /\ UNCHANGED <<waitFor, ctrlRegs, runVars, registers, flagVars, word, life, memVars>>
    <3>1. KernelTypes'
      BY <2>5, <1>0 DEF GoesTo, ctrlRegs, runVars, flagVars, memVars, sizeVars, KernelTypes
    <3>2. Disarmed' /\ RunsOnce'
      BY <2>5, <1>0 DEF GoesTo, ctrlRegs, runVars, flagVars, memVars, sizeVars, KernelTypes,
         Disarmed, RunsOnce, Armed, isIdleBit
    <3>3. RegistersSet' /\ FrameInv'
      BY <2>5, <1>0, TwoWords DEF GoesTo, ctrlRegs, runVars, flagVars, memVars, sizeVars,
         KernelTypes, Disarmed, RegistersSet, FrameInv, Armed, BeforeStart, UntilSent, ToCome,
         Writing, Written, isIdleBit, data, doorbell
    <3> QED
      BY <3>1, <3>2, <3>3 DEF HlsInv
  <2> QED
    BY <1>3, <2>1, <2>2, <2>3, <2>4, <2>5 DEF getMaxFrameSize
<1>4. CASE SetRegisters
  <2>1. KernelTypes'
    BY <1>4, <1>0 DEF SetRegisters, XRtds2gpu_Set, GoesTo, ctrlRegs, runVars, flagVars,
       memVars, sizeVars, KernelTypes
  <2>2. Disarmed' /\ RunsOnce'
    BY <1>4, <1>0 DEF SetRegisters, XRtds2gpu_Set, GoesTo, ctrlRegs, runVars, flagVars,
       memVars, sizeVars, KernelTypes, Disarmed, RunsOnce, Armed, isIdleBit
  <2>3. RegistersSet' /\ FrameInv'
    BY <1>4, <1>0, TwoWords DEF SetRegisters, XRtds2gpu_Set, GoesTo, ctrlRegs, runVars,
       flagVars, memVars, sizeVars, KernelTypes, Disarmed, RegistersSet, FrameInv, Armed,
       BeforeStart, UntilSent, ToCome, Writing, Written, isIdleBit, data, doorbell
  <2> QED
    BY <2>1, <2>2, <2>3 DEF HlsInv
<1>5. CASE FrameTooLarge \/ ClearMemory
  <2>1. KernelTypes'
    BY <1>5, <1>0, <1>a DEF FrameTooLarge, ClearMemory, GoesTo, ctrlRegs, runVars, flagVars,
       memVars, sizeVars, KernelTypes, isIdleBit
  <2>2. Disarmed' /\ RunsOnce'
    BY <1>5, <1>0, <1>a DEF FrameTooLarge, ClearMemory, GoesTo, ctrlRegs, runVars, flagVars,
       memVars, sizeVars, KernelTypes, Disarmed, RunsOnce, Armed, isIdleBit
  <2>3. RegistersSet' /\ FrameInv'
    BY <1>5, <1>0, <1>a, TwoWords DEF FrameTooLarge, ClearMemory, GoesTo, ctrlRegs, runVars,
       flagVars, memVars, sizeVars, KernelTypes, Disarmed, RegistersSet, FrameInv, Armed,
       BeforeStart, UntilSent, ToCome, Writing, Written, isIdleBit, data, doorbell
  <2> QED
    BY <2>1, <2>2, <2>3 DEF HlsInv
<1>6. CASE StartRtds2Gpu
  <2>1. CASE GoesTo("start", "start2") /\ ReadCtrl("rtds2gpu")
    <3>1. KernelTypes'
      BY <2>1, <1>0, ReadCtrlKeeps
    <3>2. Disarmed' /\ RunsOnce'
      BY <2>1, <1>0, ReadCtrlKeeps DEF GoesTo, ReadCtrl, ctrlRegs, runVars, flagVars, memVars,
         sizeVars, KernelTypes, Disarmed, RunsOnce, Armed, isIdleBit
    <3>3. RegistersSet' /\ FrameInv'
      BY <2>1, <1>0, ReadCtrlKeeps, TwoWords DEF GoesTo, ReadCtrl, ctrlRegs, runVars,
         flagVars, memVars, sizeVars, KernelTypes, Disarmed, RegistersSet, FrameInv, Armed,
         BeforeStart, UntilSent, ToCome, Writing, Written, isIdleBit, data, doorbell
    <3> QED
      BY <3>1, <3>2, <3>3 DEF HlsInv
  <2>2. CASE GoesTo("start2", "wait") /\ Start("rtds2gpu")
    <3>1. KernelTypes'
      BY <2>2, <1>0, StartKeeps
    <3>2. Disarmed' /\ RunsOnce'
      BY <2>2, <1>0, StartKeeps DEF GoesTo, Start, ctrlRegs, runVars, flagVars, memVars,
         sizeVars, KernelTypes, Disarmed, RunsOnce, Armed, isIdleBit
    <3>3. RegistersSet' /\ FrameInv'
      BY <2>2, <1>0, StartKeeps, TwoWords DEF GoesTo, Start, ctrlRegs, runVars, flagVars,
         memVars, sizeVars, KernelTypes, Disarmed, RegistersSet, FrameInv, Armed, BeforeStart,
         UntilSent, ToCome, Writing, Written, isIdleBit, data, doorbell
    <3> QED
      BY <3>1, <3>2, <3>3 DEF HlsInv
  <2> QED
    BY <1>6, <2>1, <2>2 DEF StartRtds2Gpu
<1>7. CASE AwaitFrame
  <2>1. KernelTypes'
    BY <1>7, <1>0 DEF AwaitFrame, Finished, GoesTo, ctrlRegs, runVars, flagVars, memVars,
       sizeVars, KernelTypes
  <2>2. Disarmed' /\ RunsOnce'
    BY <1>7, <1>0, <1>a DEF AwaitFrame, Finished, GoesTo, ctrlRegs, runVars, flagVars,
       memVars, sizeVars, KernelTypes, Disarmed, RunsOnce, Armed, isIdleBit
  <2>3. RegistersSet' /\ FrameInv'
    BY <1>7, <1>0, <1>a, TwoWords DEF AwaitFrame, Finished, GoesTo, ctrlRegs, runVars,
       flagVars, memVars, sizeVars, KernelTypes, Disarmed, RegistersSet, FrameInv, Armed,
       BeforeStart, UntilSent, ToCome, Writing, Written, isIdleBit, data, doorbell
  <2> QED
    BY <2>1, <2>2, <2>3 DEF HlsInv
<1>8. CASE CopyFrame
  <2>1. KernelTypes'
    BY <1>8, <1>0 DEF CopyFrame, GoesTo, ctrlRegs, runVars, flagVars, memVars, sizeVars,
       KernelTypes
  <2>2. Disarmed' /\ RunsOnce'
    BY <1>8, <1>0, <1>a DEF CopyFrame, GoesTo, ctrlRegs, runVars, flagVars, memVars, sizeVars,
       KernelTypes, Disarmed, RunsOnce, Armed, isIdleBit
  <2>3. RegistersSet' /\ FrameInv'
    BY <1>8, <1>0, <1>a, TwoWords DEF CopyFrame, GoesTo, ctrlRegs, runVars, flagVars, memVars,
       sizeVars, KernelTypes, Disarmed, RegistersSet, FrameInv, Armed, BeforeStart, UntilSent,
       ToCome, Writing, Written, isIdleBit, data, doorbell
  <2> QED
    BY <2>1, <2>2, <2>3 DEF HlsInv
<1>9. CASE StartGpu2Rtds
  <2>1. CASE SetFrameSize("send", "send1", 1)
    <3>1. KernelTypes'
      BY <2>1, <1>0 DEF SetFrameSize, GoesTo, ctrlRegs, runVars, flagVars, memVars, sizeVars,
         KernelTypes
    <3>2. Disarmed' /\ RunsOnce'
      BY <2>1, <1>0 DEF SetFrameSize, GoesTo, ctrlRegs, runVars, flagVars, memVars, sizeVars,
         KernelTypes, Disarmed, RunsOnce, Armed, isIdleBit
    <3>3. RegistersSet' /\ FrameInv'
      BY <2>1, <1>0, TwoWords DEF SetFrameSize, GoesTo, ctrlRegs, runVars, flagVars, memVars,
         sizeVars, KernelTypes, Disarmed, RegistersSet, FrameInv, Armed, BeforeStart,
         UntilSent, ToCome, Writing, Written, isIdleBit, data, doorbell
    <3> QED
      BY <3>1, <3>2, <3>3 DEF HlsInv
  <2>2. CASE GoesTo("send1", "send2") /\ ReadCtrl("gpu2rtds")
    <3>1. KernelTypes'
      BY <2>2, <1>0, ReadCtrlKeeps
    <3>2. Disarmed' /\ RunsOnce'
      BY <2>2, <1>0, ReadCtrlKeeps DEF GoesTo, ReadCtrl, ctrlRegs, runVars, flagVars, memVars,
         sizeVars, KernelTypes, Disarmed, RunsOnce, Armed, isIdleBit
    <3>3. RegistersSet' /\ FrameInv'
      BY <2>2, <1>0, ReadCtrlKeeps, TwoWords DEF GoesTo, ReadCtrl, ctrlRegs, runVars,
         flagVars, memVars, sizeVars, KernelTypes, Disarmed, RegistersSet, FrameInv, Armed,
         BeforeStart, UntilSent, ToCome, Writing, Written, isIdleBit, data, doorbell
    <3> QED
      BY <3>1, <3>2, <3>3 DEF HlsInv
  <2>3. CASE GoesTo("send2", "loop") /\ Start("gpu2rtds")
    <3>1. KernelTypes'
      BY <2>3, <1>0, StartKeeps
    <3>2. Disarmed' /\ RunsOnce'
      BY <2>3, <1>0, StartKeeps DEF GoesTo, Start, ctrlRegs, runVars, flagVars, memVars,
         sizeVars, KernelTypes, Disarmed, RunsOnce, Armed, isIdleBit
    <3>3. RegistersSet' /\ FrameInv'
      BY <2>3, <1>0, StartKeeps, TwoWords DEF GoesTo, Start, ctrlRegs, runVars, flagVars,
         memVars, sizeVars, KernelTypes, Disarmed, RegistersSet, FrameInv, Armed, BeforeStart,
         UntilSent, ToCome, Writing, Written, isIdleBit, data, doorbell
    <3> QED
      BY <3>1, <3>2, <3>3 DEF HlsInv
  <2> QED
    BY <1>9, <2>1, <2>2, <2>3 DEF StartGpu2Rtds
<1>10. CASE Dies
  <2>1. KernelTypes'
    BY <1>10, <1>0, <1>a DEF Dies, Blank, ControlWords, ctrlRegs, runVars, flagVars, memVars,
       sizeVars, KernelTypes
  <2>2. Disarmed' /\ RunsOnce'
    BY <1>10, <1>0, <1>a DEF Dies, Blank, ctrlRegs, runVars, flagVars, memVars, sizeVars,
       KernelTypes, Disarmed, RunsOnce, Armed, isIdleBit
  <2>3. RegistersSet' /\ FrameInv'
    BY <1>10, <1>0, <1>a, TwoWords DEF Dies, Blank, ctrlRegs, runVars, flagVars, memVars,
       sizeVars, KernelTypes, Disarmed, RegistersSet, FrameInv, Armed, BeforeStart, UntilSent,
       ToCome, Writing, Written, isIdleBit, data, doorbell
  <2> QED
    BY <2>1, <2>2, <2>3 DEF HlsInv
<1>11. ASSUME NEW k \in Kernels, RunBegins(k) PROVE HlsInv'
  <2>1. KernelTypes'
    BY <1>11, <1>0 DEF RunBegins, KernelFrame, ctrlRegs, runVars, flagVars, memVars, sizeVars,
       KernelTypes
  <2>2. Disarmed' /\ RunsOnce'
    BY <1>11, <1>0 DEF RunBegins, KernelFrame, ctrlRegs, runVars, flagVars, memVars, sizeVars,
       KernelTypes, Disarmed, RunsOnce, Armed, isIdleBit
  <2>3. RegistersSet' /\ FrameInv'
    BY <1>11, <1>0, TwoWords DEF RunBegins, KernelFrame, ctrlRegs, runVars, flagVars, memVars,
       sizeVars, KernelTypes, Disarmed, RegistersSet, FrameInv, Armed, BeforeStart, UntilSent,
       ToCome, Writing, Written, isIdleBit, data, doorbell
  <2> QED
    BY <2>1, <2>2, <2>3 DEF HlsInv
<1>12. ASSUME NEW k \in Kernels, RunEnds(k) PROVE HlsInv'
  <2>1. KernelTypes'
    BY <1>12, <1>0 DEF RunEnds, KernelFrame, ctrlRegs, runVars, flagVars, memVars, sizeVars,
       KernelTypes
  <2>2. Disarmed' /\ RunsOnce'
    BY <1>12, <1>0 DEF RunEnds, KernelFrame, ctrlRegs, runVars, flagVars, memVars, sizeVars,
       KernelTypes, Disarmed, RunsOnce, Armed, isIdleBit
  <2>3. RegistersSet' /\ FrameInv'
    BY <1>12, <1>0, TwoWords DEF RunEnds, KernelFrame, ctrlRegs, runVars, flagVars, memVars,
       sizeVars, KernelTypes, Disarmed, RegistersSet, FrameInv, Armed, BeforeStart, UntilSent,
       ToCome, Writing, Written, isIdleBit, data, doorbell
  <2> QED
    BY <2>1, <2>2, <2>3 DEF HlsInv
<1>13. CASE WriteData
  <2>1. KernelTypes'
    BY <1>13, <1>0, TwoWords DEF WriteData, Store, KernelFrame, ctrlRegs, runVars, flagVars,
       memVars, sizeVars, KernelTypes
  <2>2. Disarmed' /\ RunsOnce'
    BY <1>13, <1>0, <1>a DEF WriteData, Store, KernelFrame, ctrlRegs, runVars, flagVars,
       memVars, sizeVars, KernelTypes, Disarmed, RunsOnce, Armed, isIdleBit
  <2>3. RegistersSet' /\ FrameInv'
    BY <1>13, <1>0, <1>a, TwoWords DEF WriteData, Store, KernelFrame, ctrlRegs, runVars,
       flagVars, memVars, sizeVars, KernelTypes, Disarmed, RegistersSet, FrameInv, Armed,
       BeforeStart, UntilSent, ToCome, Writing, Written, isIdleBit, data, doorbell
  <2> QED
    BY <2>1, <2>2, <2>3 DEF HlsInv
<1>14. CASE WriteDoorbell
  <2>1. KernelTypes'
    BY <1>14, <1>0, TwoWords DEF WriteDoorbell, Store, KernelFrame, ctrlRegs, runVars,
       flagVars, memVars, sizeVars, KernelTypes
  <2>2. Disarmed' /\ RunsOnce'
    BY <1>14, <1>0, <1>a DEF WriteDoorbell, Store, KernelFrame, ctrlRegs, runVars, flagVars,
       memVars, sizeVars, KernelTypes, Disarmed, RunsOnce, Armed, isIdleBit
  <2>3. RegistersSet' /\ FrameInv'
    BY <1>14, <1>0, <1>a, TwoWords DEF WriteDoorbell, Store, KernelFrame, ctrlRegs, runVars,
       flagVars, memVars, sizeVars, KernelTypes, Disarmed, RegistersSet, FrameInv, Armed,
       BeforeStart, UntilSent, ToCome, Writing, Written, isIdleBit, data, doorbell
  <2> QED
    BY <2>1, <2>2, <2>3 DEF HlsInv
<1>15. CASE UNCHANGED hlsVars
  <2>1. KernelTypes'
    BY <1>15, <1>0 DEF hlsVars, ctrlRegs, runVars, flagVars, memVars, sizeVars, KernelTypes
  <2>2. Disarmed' /\ RunsOnce'
    BY <1>15, <1>0 DEF hlsVars, ctrlRegs, runVars, flagVars, memVars, sizeVars, KernelTypes,
       Disarmed, RunsOnce, Armed, isIdleBit
  <2>3. RegistersSet' /\ FrameInv'
    BY <1>15, <1>0, TwoWords DEF hlsVars, ctrlRegs, runVars, flagVars, memVars, sizeVars,
       KernelTypes, Disarmed, RegistersSet, FrameInv, Armed, BeforeStart, UntilSent, ToCome,
       Writing, Written, isIdleBit, data, doorbell
  <2> QED
    BY <2>1, <2>2, <2>3 DEF HlsInv
<1> QED
  BY <1>1, <1>2, <1>3, <1>4, <1>5, <1>6, <1>7, <1>8, <1>9, <1>10, <1>11, <1>12, <1>13, <1>14,
     <1>15 DEF HlsNext, InitializeGpu2Rtds

LEMMA KernelsInOrder == HlsInv => KernelsHonest
<1> USE HlsAssumption DEF Kernels, RegisterNames
<1> SUFFICES ASSUME HlsInv PROVE KernelsHonest
  OBVIOUS
<1>1. FinishedHonest
  BY DEF HlsInv, FinishedHonest, RunsOnce, isIdleBit, KernelTypes
<1>2. life \in Nat /\ (memory = Zeroes => doorbell = 0)
  BY TwoWords DEF HlsInv, KernelTypes, Zeroes, doorbell
<1>3. FrameWhole
  BY <1>2 DEF HlsInv, KernelTypes, FrameWhole, FrameInv, ToCome, Writing, Written
<1> QED
  BY <1>1, <1>3 DEF KernelsHonest

(* A doorbell found by the program announces a frame that is there as a    *)
(* whole and is what Gpu2Rtds sends, and isFinished() is not true before   *)
(* the run that start() asked for has gone - over any number of processes, *)
(* for kernels that were idle at start() (hls.hpp, rtds2gpu.cpp).          *)
THEOREM KernelsKeepOrder == HlsSpec => []KernelsHonest
BY HlsStart, HlsStep, KernelsInOrder, PTL DEF HlsSpec

-----------------------------------------------------------------------------
(* ---- The interrupt controller and the timers ----------------------------- *)

USE TimerFifoAssumption

IntcTypes ==
  /\ efds \in [Irqs -> Nat]
  /\ DOMAIN mask = Irqs
  /\ overlap \in BOOLEAN
  /\ DOMAIN pc = Irqs
  /\ starts \in [Timers -> Nat]
  /\ DOMAIN answer = Timers

(* What is pending for a timer is of an event that it knows of.            *)
Accounted ==
  \A t \in Timers :
    /\ efds[t] > 0 \/ t \in isr => t \in expired \cup leftover
    /\ answer[t] = "true" => t \in expired \cup leftover

(* While no two calls change the mask at the same time, a timer that was   *)
(* started stays enabled until wait() has returned, so that its interrupt  *)
(* goes to the eventfd.                                                    *)
StaysEnabled ==
  \A t \in Timers :
    /\ pc[t] \in {"disable", "disabling"} => answer[t] # "none"
    /\ ~ overlap =>
         /\ pc[t] = "load" => t \in ier
         /\ pc[t] = "idle" /\ answer[t] = "none" =>
              /\ t \in counting => t \in ier
              /\ t \in expired => efds[t] > 0

TimerInv == IntcTypes /\ Accounted /\ StaysEnabled

(* An interrupt is enabled or disabled by two steps of its IP, the second  *)
(* of which changes the mask for this interrupt alone, if no other call    *)
(* has changed it in between.                                              *)
LEMMA ReadIerStep ==
  ASSUME TimerInv, NEW i \in Irqs, EnableReads(i) \/ DisableReads(i)
  PROVE  /\ UNCHANGED <<ier, efds, overlap>>
         /\ isr' \subseteq isr
         /\ DOMAIN mask' = Irqs
BY DEF TimerInv, IntcTypes, EnableReads, DisableReads, ReadIer

LEMMA WriteIerStep ==
  ASSUME TimerInv, NEW i \in Irqs, EnableWrites(i) \/ DisableWrites(i)
  PROVE  /\ ier' = (IF EnableWrites(i) THEN mask[i] \cup {i} ELSE mask[i] \ {i})
         /\ ~ overlap' => ~ overlap /\ mask[i] = ier
         /\ overlap' \in BOOLEAN
         /\ efds' = [j \in Irqs |-> IF j \in ier' \cap isr THEN efds[j] + 1 ELSE efds[j]]
         /\ efds' \in [Irqs -> Nat]
         /\ isr' \subseteq isr
         /\ DOMAIN mask' = Irqs
<1>1. ASSUME NEW new, WriteIer(i, new)
      PROVE  /\ ier' = new
             /\ ~ overlap' => ~ overlap /\ mask[i] = ier
             /\ overlap' \in BOOLEAN
             /\ efds' = [j \in Irqs |-> IF j \in new \cap isr THEN efds[j] + 1 ELSE efds[j]]
             /\ efds' \in [Irqs -> Nat]
             /\ isr' \subseteq isr
             /\ DOMAIN mask' = Irqs
  <2>1. efds \in [Irqs -> Nat] /\ DOMAIN mask = Irqs /\ overlap \in BOOLEAN
    BY DEF TimerInv, IntcTypes
  <2>2. /\ efds' = [j \in Irqs |-> IF j \in new \cap isr THEN efds[j] + 1 ELSE efds[j]]
        /\ efds' \in [Irqs -> Nat]
        /\ DOMAIN mask' = Irqs
    BY <1>1, <2>1 DEF WriteIer
  <2>3. overlap' = (overlap \/ mask[i] # ier)
    BY <1>1 DEF WriteIer
  <2>4. overlap' \in BOOLEAN /\ (~ overlap' => ~ overlap /\ mask[i] = ier)
    BY <2>1, <2>3, Zenon
  <2>5. ier' = new /\ isr' \subseteq isr
    BY <1>1 DEF WriteIer
  <2> QED
    BY <2>2, <2>4, <2>5
<1>2. CASE EnableWrites(i)
  BY <1>1, <1>2, ZenonT(60) DEF EnableWrites
<1>3. CASE DisableWrites(i) /\ ~ EnableWrites(i)
  BY <1>1, <1>3 DEF DisableWrites
<1> QED
  BY <1>2, <1>3

(* A call that ends changes nothing of another timer, while no two of them *)
(* change the mask at the same time.                                       *)
LEMMA TimerStep ==
  ASSUME TimerInv, [TimerFifoNext]_tfVars
  PROVE  TimerInv'
<1> USE DEF TimerInv
<1>1. ASSUME NEW t \in Timers, StartCall(t) \/ WaitDisables(t) PROVE TimerInv'
  <2>1. EnableReads(t) \/ DisableReads(t)
    BY <1>1 DEF StartCall, WaitDisables
  <2>2. UNCHANGED <<starts, counting, expired, answer, leftover>>
    BY <1>1 DEF StartCall, WaitDisables, timerVars
  <2>3. pc' = [pc EXCEPT ![t] = "enable"] \/ (pc' = [pc EXCEPT ![t] = "disabling"] /\ pc[t] = "disable")
    BY <1>1 DEF StartCall, WaitDisables, Goes
  <2> QED
    BY <2>1, <2>2, <2>3, ReadIerStep DEF IntcTypes, Accounted, StaysEnabled
<1>2. ASSUME NEW t \in Timers, StartEnabled(t) \/ WaitDisabled(t) PROVE TimerInv'
  <2>1. EnableWrites(t) \/ DisableWrites(t)
    BY <1>2 DEF StartEnabled, WaitDisabled
  <2>2. UNCHANGED <<starts, counting, expired, answer, leftover>>
    BY <1>2 DEF StartEnabled, WaitDisabled, timerVars
  <2>3. \/ pc' = [pc EXCEPT ![t] = "load"] /\ EnableWrites(t)
        \/ pc' = [pc EXCEPT ![t] = "idle"] /\ pc[t] = "disabling"
    BY <1>2 DEF StartEnabled, WaitDisabled, Goes
  <2>4. IntcTypes'
    BY <2>1, <2>2, <2>3, WriteIerStep DEF IntcTypes
  <2>5. Accounted'
    BY <2>1, <2>2, WriteIerStep DEF IntcTypes, Accounted
  <2>6. StaysEnabled'
    BY <2>1, <2>2, <2>3, WriteIerStep DEF IntcTypes, StaysEnabled
  <2> QED
    BY <2>4, <2>5, <2>6
<1>3. ASSUME NEW t \in Timers, StartCounting(t) PROVE TimerInv'
  BY <1>3 DEF StartCounting, Goes, intcVars, IntcTypes, Accounted, StaysEnabled
<1>4. ASSUME NEW t \in Timers, WaitReturns(t) PROVE TimerInv'
  BY <1>4 DEF WaitReturns, WaitForInterrupt, Goes, IntcTypes, Accounted, StaysEnabled
<1>5. ASSUME NEW t \in Timers, Expire(t) PROVE TimerInv'
  BY <1>5 DEF Expire, Event, IntcTypes, Accounted, StaysEnabled
<1>6. CASE FifoInit \/ FifoStop
  <2>1. EnableReads("fifo") \/ DisableReads("fifo")
    BY <1>6 DEF FifoInit, FifoStop
  <2>2. UNCHANGED <<starts, counting, expired, answer, leftover>>
    BY <1>6 DEF FifoInit, FifoStop, timerVars
  <2>3. \E to : pc' = [pc EXCEPT !["fifo"] = to]
    BY <1>6 DEF FifoInit, FifoStop, Goes
  <2> QED
    BY <2>1, <2>2, <2>3, ReadIerStep DEF IntcTypes, Accounted, StaysEnabled
<1>7. CASE FifoEnabled \/ FifoStopped
  <2>1. EnableWrites("fifo") \/ DisableWrites("fifo")
    BY <1>7 DEF FifoEnabled, FifoStopped
  <2>2. UNCHANGED <<starts, counting, expired, answer, leftover>>
    BY <1>7 DEF FifoEnabled, FifoStopped, timerVars
  <2>3. \E to : pc' = [pc EXCEPT !["fifo"] = to]
    BY <1>7 DEF FifoEnabled, FifoStopped, Goes
  <2>4. IntcTypes'
    BY <2>1, <2>2, <2>3, WriteIerStep DEF IntcTypes
  <2>5. Accounted'
    BY <2>1, <2>2, WriteIerStep DEF IntcTypes, Accounted
  <2>6. StaysEnabled'
    BY <2>1, <2>2, <2>3, WriteIerStep DEF IntcTypes, StaysEnabled
  <2> QED
    BY <2>4, <2>5, <2>6
<1>8. CASE Arrive
  <2>1. UNCHANGED <<pc, starts, counting, expired, answer, leftover>>
    BY <1>8 DEF Arrive, timerVars
  <2>2. UNCHANGED intcVars \/ Event("fifo")
    BY <1>8 DEF Arrive
  <2> QED
    BY <2>1, <2>2 DEF Event, intcVars, IntcTypes, Accounted, StaysEnabled
<1>9. CASE ReadWaits
  BY <1>9 DEF ReadWaits, WaitForInterrupt, timerVars, IntcTypes, Accounted, StaysEnabled
<1>10. CASE FifoWrite \/ ReadCall \/ ReadClears \/ ReadTakes
  <2>1. UNCHANGED <<intcVars, timerVars>>
    BY <1>10 DEF FifoWrite, ReadCall, ReadClears, ReadTakes
  <2>2. UNCHANGED pc \/ \E to : pc' = [pc EXCEPT !["fifo"] = to]
    BY <1>10 DEF FifoWrite, ReadCall, ReadClears, ReadTakes, Goes
  <2>3. DOMAIN pc' = Irqs /\ \A t \in Timers : pc'[t] = pc[t]
    BY <2>2 DEF IntcTypes
  <2> QED
    BY <2>1, <2>3 DEF timerVars, intcVars, IntcTypes, Accounted, StaysEnabled
<1>11. CASE UNCHANGED tfVars
  BY <1>11 DEF tfVars, timerVars, intcVars, IntcTypes, Accounted, StaysEnabled
<1> QED
  BY <1>1, <1>2, <1>3, <1>4, <1>5, <1>6, <1>7, <1>8, <1>9, <1>10, <1>11
  DEF TimerFifoNext, TimerNext, FifoNext

LEMMA TimerInit ==
  ASSUME NEW ips, TimerFifoInit(ips)
  PROVE  TimerInv
<1>1. IntcTypes
  BY DEF TimerFifoInit, IntcInit, IntcTypes
<1>2. Accounted
  BY DEF TimerFifoInit, IntcInit, Accounted
<1>3. StaysEnabled
  BY DEF TimerFifoInit, StaysEnabled
<1> QED
  BY <1>1, <1>2, <1>3 DEF TimerInv

LEMMA TimerInvariance == TimerFifoSpec => []TimerInv
<1>1. (\E ips \in SUBSET Irqs : TimerFifoInit(ips)) => TimerInv
  BY TimerInit
<1>2. TimerInv /\ [TimerFifoNext]_tfVars => TimerInv'
  BY TimerStep
<1> QED
  BY <1>1, <1>2, PTL DEF TimerFifoSpec

LEMMA TimersServed == TimerInv => InterruptWaits /\ TimerHonest
BY DEF TimerInv, StaysEnabled, Accounted, InterruptWaits, TimerHonest

(* The interrupt of a timer that expired since its start() is not lost, as *)
(* long as no two calls change the mask register at the same time          *)
(* (Timer::start() and wait(), lib/ips/timer.cpp; enableInterrupt() and    *)
(* disableInterrupt(), lib/ips/intc.cpp).                                  *)
THEOREM InterruptIsKept == TimerFifoSpec => []InterruptWaits
BY TimersServed, TimerInvariance, PTL

(* wait() returns true only for a timer that has expired since start(),    *)
(* unless start() found an interrupt of an earlier one - also when calls   *)
(* change the mask register at the same time.                              *)
THEOREM WaitIsHonest == TimerFifoSpec => []TimerHonest
BY TimersServed, TimerInvariance, PTL

-----------------------------------------------------------------------------
(* ---- The FIFO ------------------------------------------------------------ *)

Word == Nat \X Nat
FrameOf(w) == w[1]

(* How many words of a sequence come before the frame of the j-th one      *)
Before(s, j) == j - s[j][2]

LEMMA WordParts ==
  ASSUME NEW s, NEW j \in Int, NEW n \in Nat, NEW k \in Nat, s[j] = <<n, k>>
  PROVE  s[j] \in Word /\ FrameOf(s[j]) = n /\ Before(s, j) = j - k
BY DEF Word, FrameOf, Before

LEMMA WordIs ==
  ASSUME NEW s \in Seq(Word), NEW j \in DOMAIN s
  PROVE  /\ FrameOf(s[j]) \in Nat /\ Before(s, j) \in Int
         /\ s[j] = <<FrameOf(s[j]), j - Before(s, j)>>
<1>1. s[j] \in Nat \X Nat /\ j \in Int
  BY DEF Word
<1> QED
  BY <1>1 DEF FrameOf, Before

(* A sequence of words that consists of frames as write() sends them: each *)
(* word comes after the words before it of its frame, and a frame is sent  *)
(* once; the last frame has this number.                                   *)
Sent(s, last) ==
  /\ \A j \in DOMAIN s :
       /\ FrameOf(s[j]) <= last
       /\ Before(s, j) \in 0 .. j - 1
       /\ \A k \in Before(s, j) + 1 .. j : s[k] = <<FrameOf(s[j]), k - Before(s, j)>>
  /\ \A i, j \in DOMAIN s : FrameOf(s[i]) = FrameOf(s[j]) => Before(s, i) = Before(s, j)

(* A sequence of words that consists of frames of given lengths: start[i]  *)
(* of its L words come before the i-th one of m frames, which has the      *)
(* number num[i].                                                          *)
StartsAt(start, L, m, l) ==
  /\ start \in [1 .. m + 1 -> 0 .. L]
  /\ start[1] = 0 /\ start[m + 1] = L
  /\ \A i \in 1 .. m : start[i + 1] = start[i] + l[i]
  /\ \A i, j \in 1 .. m + 1 : i <= j => start[i] <= start[j]

Fills(start, num, m, s) ==
  \A i \in 1 .. m : \A j \in start[i] + 1 .. start[i + 1] : s[j] = <<num[i], j - start[i]>>

Received(s, l) ==
  \E start, num : StartsAt(start, Len(s), Len(l), l) /\ Fills(start, num, Len(l), s)

FifoTypes ==
  /\ DOMAIN pc = Irqs
  /\ frames \in Nat
  /\ sending \in Seq(Word)
  /\ lens \in Seq(Nat \ {0})
  /\ wanted \in Nat
  /\ rc \in BOOLEAN /\ cut \in BOOLEAN /\ crowded \in BOOLEAN

(* How many frames wait, by the bit that announces them and the read()     *)
(* that has cleared it                                                     *)
Announced == (IF rc THEN 1 ELSE 0) + (IF pc["fifo"] = "take" THEN 1 ELSE 0)
Counted == Announced <= Len(lens) /\ (~ crowded => Len(lens) = Announced)

InOrder ==
  /\ Sent(sending, frames)
  /\ ~ cut =>
       /\ words \in Seq(Word) /\ got \in Seq(Word)
       /\ Received(words, lens)
       /\ \A k \in DOMAIN got : got[k] = <<FrameOf(got[1]), k>>

FifoInv == FifoTypes /\ Counted /\ InOrder

(* A frame that is written comes after all others.                         *)
LEMMA SentExtended ==
  ASSUME NEW s \in Seq(Word), NEW t, NEW L \in Nat, NEW n \in Nat, NEW last \in Nat,
         DOMAIN s = 1 .. L, DOMAIN t = 1 .. L + n, Sent(s, last),
         \A j \in 1 .. L : t[j] = s[j],
         \A j \in L + 1 .. L + n : t[j] = <<last + 1, j - L>>
  PROVE  Sent(t, last + 1)
<1>1. ASSUME NEW j \in 1 .. L
      PROVE  /\ FrameOf(t[j]) = FrameOf(s[j]) /\ Before(t, j) = Before(s, j)
             /\ FrameOf(s[j]) <= last /\ FrameOf(s[j]) \in Nat
             /\ Before(s, j) \in 0 .. j - 1
             /\ \A k \in Before(s, j) + 1 .. j : s[k] = <<FrameOf(s[j]), k - Before(s, j)>>
  BY WordIs DEF Sent, Before
<1>2. ASSUME NEW j \in L + 1 .. L + n
      PROVE  FrameOf(t[j]) = last + 1 /\ Before(t, j) = L
  <2>1. j \in Int /\ last + 1 \in Nat /\ j - L \in Nat /\ j - (j - L) = L
    OBVIOUS
  <2> QED
    <3>1. t[j] = <<last + 1, j - L>>
      OBVIOUS
    <3>2. t[j][1] = last + 1 /\ t[j][2] = j - L
      BY <3>1
    <3> QED
      BY <2>1, <3>2 DEF FrameOf, Before
<1>3. ASSUME NEW j \in 1 .. L + n
      PROVE  /\ FrameOf(t[j]) <= last + 1
             /\ Before(t, j) \in 0 .. j - 1
             /\ \A k \in Before(t, j) + 1 .. j : t[k] = <<FrameOf(t[j]), k - Before(t, j)>>
  <2>1. CASE j \in 1 .. L
    <3>1. ASSUME NEW k \in Before(s, j) + 1 .. j
          PROVE  t[k] = <<FrameOf(s[j]), k - Before(s, j)>>
      <4>1. k \in 1 .. L
        BY <1>1, <2>1, SMTT(60)
      <4> QED
        BY <1>1, <2>1, <4>1
    <3> QED
      BY <1>1, <2>1, <3>1, SMTT(60)
  <2>2. CASE j \in L + 1 .. L + n
    BY <1>2, <2>2
  <2> QED
    BY <2>1, <2>2, SMTT(60)
<1>4. ASSUME NEW i \in 1 .. L + n, NEW j \in 1 .. L + n, FrameOf(t[i]) = FrameOf(t[j])
      PROVE  Before(t, i) = Before(t, j)
  <2>1. CASE i \in 1 .. L /\ j \in 1 .. L
    BY <1>1, <1>4, <2>1 DEF Sent
  <2>2. CASE ~ (i \in 1 .. L /\ j \in 1 .. L)
    <3>1. /\ \A k \in 1 .. L : FrameOf(t[k]) <= last /\ FrameOf(t[k]) \in Nat
          /\ \A k \in L + 1 .. L + n : FrameOf(t[k]) = last + 1 /\ Before(t, k) = L
      BY <1>1, <1>2
    <3>2. \A k \in 1 .. L : ~ (FrameOf(t[k]) = last + 1)
      BY <3>1
    <3>3. /\ i \in 1 .. L \/ i \in L + 1 .. L + n
          /\ j \in 1 .. L \/ j \in L + 1 .. L + n
      OBVIOUS
    <3>4. i \in L + 1 .. L + n /\ j \in L + 1 .. L + n
      BY <1>4, <2>2, <3>1, <3>2, <3>3, Zenon
    <3> QED
      BY <3>1, <3>4
  <2> QED
    BY <2>1, <2>2
<1> QED
  BY <1>3, <1>4 DEF Sent

(* The words with the number of the first one are the first frame, in      *)
(* order, and the words after them are made of frames too.                 *)
LEMMA FirstFrame ==
  ASSUME NEW s \in Seq(Word), NEW L \in Nat, NEW n \in 1 .. L, NEW last \in Nat,
         DOMAIN s = 1 .. L, Sent(s, last),
         \A k \in 1 .. L : FrameOf(s[k]) = FrameOf(s[1]) <=> k <= n
  PROVE  \A k \in 1 .. n : s[k] = <<FrameOf(s[1]), k>>
<1>1. Before(s, 1) = 0
  BY DEF Sent
<1>2. ASSUME NEW k \in 1 .. n PROVE s[k] = <<FrameOf(s[1]), k>>
  <2>1. FrameOf(s[k]) = FrameOf(s[1]) /\ k \in 1 .. L /\ 1 \in 1 .. L
    OBVIOUS
  <2>2. Before(s, k) = 0
    BY <1>1, <2>1 DEF Sent
  <2>3. s[k] = <<FrameOf(s[k]), k - Before(s, k)>>
    BY <2>1, WordIs
  <2> QED
    BY <2>1, <2>2, <2>3
<1> QED
  BY <1>2

LEMMA SentShortened ==
  ASSUME NEW s \in Seq(Word), NEW t, NEW L \in Nat, NEW n \in 1 .. L, NEW last \in Nat,
         DOMAIN s = 1 .. L, DOMAIN t = 1 .. L - n, Sent(s, last),
         \A k \in 1 .. L : FrameOf(s[k]) = FrameOf(s[1]) <=> k <= n,
         \A j \in 1 .. L - n : t[j] = s[j + n]
  PROVE  Sent(t, last)
<1>1. ASSUME NEW j \in 1 .. L
      PROVE  /\ FrameOf(s[j]) <= last /\ FrameOf(s[j]) \in Nat
             /\ Before(s, j) \in 0 .. j - 1
             /\ \A k \in Before(s, j) + 1 .. j : s[k] = <<FrameOf(s[j]), k - Before(s, j)>>
  BY WordIs DEF Sent
<1>2. ASSUME NEW j \in n + 1 .. L, Before(s, j) < n
      PROVE  FALSE
  <2>1. j \in 1 .. L /\ n \in Before(s, j) + 1 .. j
    BY <1>1, <1>2
  <2>2. s[n] = <<FrameOf(s[j]), n - Before(s, j)>>
    BY <1>1, <2>1
  <2>3. FrameOf(s[n]) = FrameOf(s[j])
    BY <2>2 DEF FrameOf
  <2> QED
    BY <2>1, <2>3
<1>3. ASSUME NEW j \in 1 .. L - n
      PROVE  \E i \in 1 .. L, b \in n .. L, f \in 0 .. last :
               /\ i = j + n /\ b < i
               /\ b = Before(s, i) /\ Before(t, j) = b - n
               /\ f = FrameOf(s[i]) /\ FrameOf(t[j]) = f
  <2> DEFINE i == j + n
             b == Before(s, i)
             f == FrameOf(s[i])
  <2>1. i \in n + 1 .. L /\ i \in 1 .. L /\ i = j + n
    OBVIOUS
  <2> HIDE DEF i
  <2>2. b \in n .. L /\ b < i /\ f \in 0 .. last
    <3>1. b \in 0 .. i - 1 /\ f <= last /\ f \in Nat
      BY <1>1, <2>1
    <3>2. ~ b < n
      BY <1>2, <2>1
    <3> HIDE DEF b, f
    <3> QED
      BY <2>1, <3>1, <3>2
  <2>3. s[i] = <<f, i - b>>
    BY <2>1, WordIs
  <2>4. t[j] = s[i]
    BY DEF i
  <2> HIDE DEF f, b
  <2>5. t[j] = <<f, i - b>> /\ i - b \in Nat /\ f \in Nat /\ j \in Int
    BY <2>1, <2>2, <2>3, <2>4
  <2>6. FrameOf(t[j]) = f /\ Before(t, j) = j - (i - b)
    BY <2>5 DEF FrameOf, Before
  <2>7. j - (i - b) = b - n
    BY <2>1, <2>2
  <2> QED
    BY <2>1, <2>2, <2>6, <2>7 DEF f, b
<1>4. ASSUME NEW j \in 1 .. L - n
      PROVE  /\ FrameOf(t[j]) <= last
             /\ Before(t, j) \in 0 .. j - 1
             /\ \A k \in Before(t, j) + 1 .. j : t[k] = <<FrameOf(t[j]), k - Before(t, j)>>
  <2>1. PICK i \in 1 .. L, b \in n .. L, f \in 0 .. last :
          /\ i = j + n /\ b < i
          /\ b = Before(s, i) /\ Before(t, j) = b - n
          /\ f = FrameOf(s[i]) /\ FrameOf(t[j]) = f
    BY <1>3
  <2>2. f <= last /\ b - n \in 0 .. j - 1
    BY <2>1, SMTT(60)
  <2>3. ASSUME NEW k \in (b - n) + 1 .. j
        PROVE  t[k] = <<f, k - (b - n)>>
    <3>1. k \in 1 .. L - n /\ k + n \in b + 1 .. i /\ (k + n) - b = k - (b - n)
      BY <2>1, <2>3, SMTT(60)
    <3>2. s[k + n] = <<f, (k + n) - b>>
      BY <1>1, <2>1, <3>1, ZenonT(60)
    <3> QED
      BY <3>1, <3>2
  <2> QED
    BY <2>1, <2>2, <2>3
<1>5. ASSUME NEW j1 \in 1 .. L - n, NEW j2 \in 1 .. L - n, FrameOf(t[j1]) = FrameOf(t[j2])
      PROVE  Before(t, j1) = Before(t, j2)
  <2>1. PICK i1 \in 1 .. L, b1 \in n .. L : b1 = Before(s, i1) /\ Before(t, j1) = b1 - n
                                            /\ FrameOf(s[i1]) = FrameOf(t[j1])
    BY <1>3
  <2>2. PICK i2 \in 1 .. L, b2 \in n .. L : b2 = Before(s, i2) /\ Before(t, j2) = b2 - n
                                            /\ FrameOf(s[i2]) = FrameOf(t[j2])
    BY <1>3
  <2> QED
    BY <1>5, <2>1, <2>2, ZenonT(60) DEF Sent
<1> QED
  BY <1>4, <1>5 DEF Sent

(* b begins with the first m values of a.                                  *)
Prolongs(b, a, m) == \A i \in 1 .. m : b[i] = a[i]

(* b is a without its first n values.                                      *)
Follows(b, a, n, m) == \A i \in 1 .. m - n : b[i] = a[i + n]

(* The n words after the first L are a frame.                              *)
FrameAfter(t, L, n, no) == \A j \in L + 1 .. L + n : t[j] = <<no, j - L>>

(* A frame that is received comes after those that wait.                   *)
LEMMA StartsExtended ==
  ASSUME NEW L \in Nat, NEW m \in Nat, NEW n \in Nat \ {0}, NEW l, NEW e, NEW start, NEW begin,
         StartsAt(start, L, m, l), Prolongs(e, l, m), e[m + 1] = n,
         begin \in [1 .. m + 2 -> 0 .. L + n],
         Prolongs(begin, start, m + 1), begin[m + 2] = L + n
  PROVE  StartsAt(begin, L + n, m + 1, e)
<1>1. \A i \in 1 .. m + 1 : begin[i] = start[i] /\ start[i] \in 0 .. L
  BY DEF StartsAt, Prolongs
<1>2. begin[m + 2] = L + n
  OBVIOUS
<1>3. begin \in [1 .. m + 2 -> 0 .. L + n]
  OBVIOUS
<1>4. begin[1] = 0
  BY <1>1 DEF StartsAt
<1>5. ASSUME NEW i \in 1 .. m + 1 PROVE begin[i + 1] = begin[i] + e[i]
  <2>1. CASE i \in 1 .. m
    BY <1>1, <2>1 DEF StartsAt, Prolongs
  <2>2. CASE i = m + 1
    BY <1>1, <1>2, <2>2 DEF StartsAt
  <2> QED
    BY <2>1, <2>2
<1>6. ASSUME NEW i \in 1 .. m + 2, NEW j \in 1 .. m + 2, i <= j PROVE begin[i] <= begin[j]
  <2>1. CASE j \in 1 .. m + 1
    <3>1. i \in 1 .. m + 1
      BY <1>6, <2>1
    <3>2. start[i] <= start[j]
      BY <1>6, <2>1, <3>1 DEF StartsAt
    <3> QED
      BY <1>1, <2>1, <3>1, <3>2
  <2>2. CASE j = m + 2
    BY <1>2, <1>3, <2>2
  <2> QED
    BY <2>1, <2>2
<1> QED
  BY <1>2, <1>3, <1>4, <1>5, <1>6 DEF StartsAt

LEMMA FillsExtended ==
  ASSUME NEW L \in Nat, NEW m \in Nat, NEW n \in Nat \ {0}, NEW s, NEW t, NEW no, NEW num,
         NEW start \in [1 .. m + 1 -> 0 .. L], start[m + 1] = L,
         NEW begin, NEW name,
         Fills(start, num, m, s), Prolongs(t, s, L), FrameAfter(t, L, n, no),
         Prolongs(begin, start, m + 1), begin[m + 2] = L + n,
         Prolongs(name, num, m), name[m + 1] = no
  PROVE  Fills(begin, name, m + 1, t)
<1>1. \A i \in 1 .. m + 1 : begin[i] = start[i] /\ start[i] \in 0 .. L
  BY DEF Prolongs
<1>2. begin[m + 2] = L + n /\ name[m + 1] = no /\ \A i \in 1 .. m : name[i] = num[i]
  BY DEF Prolongs
<1>t. /\ \A j \in 1 .. L : t[j] = s[j]
      /\ \A j \in L + 1 .. L + n : t[j] = <<no, j - L>>
  BY DEF Prolongs, FrameAfter
<1>3. ASSUME NEW i \in 1 .. m + 1, NEW j \in begin[i] + 1 .. begin[i + 1]
      PROVE  t[j] = <<name[i], j - begin[i]>>
  <2>1. CASE i \in 1 .. m
    <3>1. begin[i] = start[i] /\ begin[i + 1] = start[i + 1] /\ start[i] \in 0 .. L
          /\ start[i + 1] \in 0 .. L /\ name[i] = num[i]
      <4>1. i \in 1 .. m + 1 /\ i + 1 \in 1 .. m + 1
        BY <2>1
      <4> QED
        BY <1>1, <1>2, <2>1, <4>1
    <3>2. j \in 1 .. L /\ j \in start[i] + 1 .. start[i + 1]
      BY <1>3, <3>1, SMTT(60)
    <3>3. s[j] = <<num[i], j - start[i]>>
      BY <2>1, <3>2 DEF Fills
    <3> QED
      BY <1>t, <3>1, <3>2, <3>3
  <2>2. CASE i = m + 1
    <3>1. begin[i] = L /\ begin[i + 1] = L + n /\ name[i] = no
      BY <1>1, <1>2, <2>2
    <3> QED
      BY <1>3, <1>t, <3>1
  <2> QED
    BY <2>1, <2>2, SMTT(60)
<1> QED
  BY <1>3 DEF Fills

LEMMA ReceivedExtended ==
  ASSUME NEW s, NEW t, NEW l, NEW e, NEW n \in Nat \ {0}, NEW no, NEW L \in Nat, NEW m \in Nat,
         Len(s) = L, Len(t) = L + n, Len(l) = m, Len(e) = m + 1,
         Prolongs(t, s, L), FrameAfter(t, L, n, no), Prolongs(e, l, m), e[m + 1] = n,
         Received(s, l)
  PROVE  Received(t, e)
<1>1. PICK start, num : StartsAt(start, L, m, l) /\ Fills(start, num, m, s)
  BY DEF Received
<1>2. start \in [1 .. m + 1 -> 0 .. L] /\ start[m + 1] = L
  BY <1>1 DEF StartsAt
<1>3. PICK begin : /\ begin \in [1 .. m + 2 -> 0 .. L + n]
                   /\ Prolongs(begin, start, m + 1)
                   /\ begin[m + 2] = L + n
  <2> DEFINE b == [i \in 1 .. m + 2 |-> IF i = m + 2 THEN L + n ELSE start[i]]
  <2>1. b \in [1 .. m + 2 -> 0 .. L + n] /\ b[m + 2] = L + n /\ Prolongs(b, start, m + 1)
    BY <1>2 DEF Prolongs
  <2> QED
    BY <2>1
<1>4. PICK name : Prolongs(name, num, m) /\ name[m + 1] = no
  <2> DEFINE b == [i \in 1 .. m + 1 |-> IF i = m + 1 THEN no ELSE num[i]]
  <2>1. b[m + 1] = no /\ Prolongs(b, num, m)
    BY DEF Prolongs
  <2> QED
    BY <2>1
<1>5. StartsAt(begin, L + n, m + 1, e)
  BY <1>1, <1>3, StartsExtended
<1>6. Fills(begin, name, m + 1, t)
  BY <1>1, <1>2, <1>3, <1>4, FillsExtended
<1> QED
  BY <1>5, <1>6 DEF Received

Positive(l, m) == \A i \in 1 .. m : l[i] \in Nat \ {0}
Lowered(begin, start, m, n) == begin = [i \in 1 .. m |-> start[i + 1] - n]
From(start, m, n, L) == \A i \in 1 .. m : start[i + 1] \in n .. L

(* What read() takes when the buffer has room for it is the first frame.   *)
LEMMA StartsShortened ==
  ASSUME NEW L \in Nat, NEW m \in Nat \ {0}, NEW n \in Nat \ {0}, NEW l, NEW r, NEW start,
         NEW begin,
         Positive(l, m), StartsAt(start, L, m, l), l[1] = n, Follows(r, l, 1, m),
         Lowered(begin, start, m, n)
  PROVE  /\ n \in 1 .. L /\ start[2] = n /\ From(start, m, n, L)
         /\ StartsAt(begin, L - n, m - 1, r)
<1>1. start[2] = n
  <2>1. start[1 + 1] = start[1] + l[1]
    BY DEF StartsAt
  <2> QED
    BY <2>1 DEF StartsAt
<1>2. n \in 1 .. L
  BY <1>1 DEF StartsAt
<1>3. \A i \in 1 .. m : start[i + 1] \in n .. L
  <2>1. ASSUME NEW i \in 1 .. m PROVE start[i + 1] \in n .. L
    <3>1. 2 \in 1 .. m + 1 /\ i + 1 \in 1 .. m + 1 /\ 2 <= i + 1
      OBVIOUS
    <3>2. start[2] <= start[i + 1] /\ start[i + 1] \in 0 .. L
      BY <3>1 DEF StartsAt
    <3> QED
      BY <1>1, <3>2
  <2> QED
    BY <2>1
<1>4. \A i \in 1 .. m : begin[i] = start[i + 1] - n
  BY DEF Lowered
<1>5. begin \in [1 .. m -> 0 .. L - n]
  BY <1>2, <1>3 DEF Lowered
<1>6. begin[1] = 0 /\ begin[m] = L - n
  <2>1. begin[1] = start[1 + 1] - n /\ begin[m] = start[m + 1] - n
    BY <1>4
  <2> QED
    BY <1>1, <2>1 DEF StartsAt
<1>7. ASSUME NEW i \in 1 .. m - 1 PROVE begin[i + 1] = begin[i] + r[i]
  <2>1. begin[i] = start[i + 1] - n /\ begin[i + 1] = start[i + 1 + 1] - n /\ r[i] = l[i + 1]
    BY <1>4 DEF Follows
  <2>2. i + 1 \in 1 .. m /\ i \in 1 .. m
    OBVIOUS
  <2>3. start[i + 1 + 1] = start[i + 1] + l[i + 1]
    BY <2>2 DEF StartsAt
  <2>4. start[i + 1] \in Int /\ start[i + 1 + 1] \in Int
    BY <1>3, <2>2
  <2>5. l[i + 1] \in Int
    BY <2>2 DEF Positive
  <2> QED
    BY <2>1, <2>3, <2>4, <2>5
<1>8. ASSUME NEW i \in 1 .. m, NEW j \in 1 .. m, i <= j PROVE begin[i] <= begin[j]
  <2>1. i + 1 \in 1 .. m + 1 /\ j + 1 \in 1 .. m + 1 /\ i + 1 <= j + 1
    BY <1>8
  <2>2. start[i + 1] <= start[j + 1]
    BY <2>1 DEF StartsAt
  <2> QED
    BY <1>3, <1>4, <2>2
<1>9. (m - 1) + 1 = m
  OBVIOUS
<1>10. StartsAt(begin, L - n, m - 1, r)
  BY <1>5, <1>6, <1>7, <1>8, <1>9 DEF StartsAt
<1> QED
  BY <1>1, <1>2, <1>3, <1>10 DEF From

LEMMA FillsShortened ==
  ASSUME NEW L \in Nat, NEW m \in Nat \ {0}, NEW n \in 1 .. L, NEW s, NEW t, NEW num, NEW start,
         NEW begin, NEW name,
         Fills(start, num, m, s), From(start, m, n, L), Follows(t, s, n, L),
         Lowered(begin, start, m, n), Follows(name, num, 1, m)
  PROVE  Fills(begin, name, m - 1, t)
<1>1. ASSUME NEW i \in 1 .. m - 1, NEW j \in begin[i] + 1 .. begin[i + 1]
      PROVE  t[j] = <<name[i], j - begin[i]>>
  <2>1. i + 1 \in 1 .. m /\ i \in 1 .. m
    OBVIOUS
  <2>2. PICK b \in n .. L : b = start[i + 1]
    BY <2>1 DEF From
  <2>3. PICK c \in n .. L : c = start[i + 1 + 1]
    BY <2>1 DEF From
  <2>4. begin[i] = b - n /\ begin[i + 1] = c - n /\ name[i] = num[i + 1]
    BY <2>1, <2>2, <2>3 DEF Lowered, Follows
  <2>5. \A k \in b + 1 .. c : s[k] = <<num[i + 1], k - b>>
    BY <2>1, <2>2, <2>3 DEF Fills
  <2>6. j + n \in b + 1 .. c /\ j \in 1 .. L - n /\ (j + n) - b = j - begin[i]
    BY <1>1, <2>4
  <2> QED
    BY <2>4, <2>5, <2>6 DEF Follows
<1> QED
  BY <1>1 DEF Fills

LEMMA ReceivedShortened ==
  ASSUME NEW s, NEW l, NEW t, NEW r, NEW L \in Nat, NEW m \in Nat \ {0}, NEW n \in Nat \ {0},
         Len(s) = L, Len(l) = m, Positive(l, m), l[1] = n,
         Len(t) = L - n, Follows(t, s, n, L), Len(r) = m - 1, Follows(r, l, 1, m),
         Received(s, l)
  PROVE  /\ n \in 1 .. L
         /\ \A k \in 1 .. n : s[k] = <<FrameOf(s[1]), k>>
         /\ Received(t, r)
<1>1. PICK start, num : StartsAt(start, L, m, l) /\ Fills(start, num, m, s)
  BY DEF Received
<1>2. PICK begin : Lowered(begin, start, m, n)
  BY DEF Lowered
<1>3. PICK name : Follows(name, num, 1, m)
  <2> DEFINE b == [i \in 1 .. m - 1 |-> num[i + 1]]
  <2>1. Follows(b, num, 1, m)
    BY DEF Follows
  <2> QED
    BY <2>1
<1>4. n \in 1 .. L /\ start[2] = n /\ From(start, m, n, L) /\ StartsAt(begin, L - n, m - 1, r)
  BY <1>1, <1>2, StartsShortened
<1>5. Fills(begin, name, m - 1, t)
  BY <1>1, <1>2, <1>3, <1>4, FillsShortened
<1>6. \A k \in 1 .. n : s[k] = <<FrameOf(s[1]), k>>
  <2>1. ASSUME NEW k \in 1 .. n PROVE s[k] = <<num[1], k>>
    <3>1. start[1 + 1] = n /\ start[1] = 0 /\ 1 \in 1 .. m
      BY <1>1, <1>4 DEF StartsAt
    <3>2. k \in start[1] + 1 .. start[1 + 1] /\ k - start[1] = k
      BY <3>1
    <3> QED
      BY <1>1, <3>1, <3>2 DEF Fills
  <2>2. s[1] = <<num[1], 1>>
    BY <1>4, <2>1
  <2>3. FrameOf(s[1]) = num[1]
    BY <2>2 DEF FrameOf
  <2> QED
    BY <2>1, <2>3
<1> QED
  BY <1>4, <1>5, <1>6 DEF Received

-----------------------------------------------------------------------------
(* ---- Every step keeps it ------------------------------------------------- *)

LEMMA Halves ==
  ASSUME NEW S, NEW s \in Seq(S), NEW L \in Nat, L = Len(s), NEW n \in 0 .. L
  PROVE  /\ SubSeq(s, 1, n) \in Seq(S) /\ Len(SubSeq(s, 1, n)) = n
         /\ \A k \in 1 .. n : SubSeq(s, 1, n)[k] = s[k]
         /\ SubSeq(s, n + 1, L) \in Seq(S) /\ Len(SubSeq(s, n + 1, L)) = L - n
         /\ \A k \in 1 .. L - n : SubSeq(s, n + 1, L)[k] = s[k + n]
<1>1. \A k \in 1 .. L : s[k] \in S
  OBVIOUS
<1>2. SubSeq(s, 1, n) = [k \in 1 .. n |-> s[k]]
  OBVIOUS
<1>3. SubSeq(s, n + 1, L) = [k \in 1 .. L - n |-> s[k + n]]
  OBVIOUS
<1>4. \A k \in 1 .. L - n : s[k + n] \in S
  BY <1>1
<1> QED
  BY <1>1, <1>2, <1>3, <1>4, SMTT(60)

(* A step that leaves the FIFO alone                                       *)
LEMMA FifoFrame ==
  ASSUME FifoInv, UNCHANGED fifoVars, DOMAIN pc' = Irqs,
         pc'["fifo"] = "take" <=> pc["fifo"] = "take"
  PROVE  FifoInv'
BY DEF FifoInv, FifoTypes, Counted, Announced, InOrder, fifoVars

LEMMA FifoTimerStep ==
  ASSUME FifoInv, NEW t \in Timers, TimerNext(t)
  PROVE  FifoInv'
<1>1. UNCHANGED fifoVars /\ DOMAIN pc' = Irqs /\ pc'["fifo"] = pc["fifo"]
  BY DEF FifoInv, FifoTypes, TimerNext, Goes, StartCall, StartEnabled, StartCounting, WaitReturns,
         WaitDisables, WaitDisabled, Expire
<1> QED
  BY <1>1, FifoFrame

LEMMA FifoOtherSteps ==
  ASSUME FifoInv, FifoInit \/ FifoEnabled \/ FifoStop \/ FifoStopped \/ ReadWaits
  PROVE  FifoInv'
<1>1. /\ UNCHANGED fifoVars /\ DOMAIN pc' = Irqs
      /\ pc'["fifo"] = "take" <=> pc["fifo"] = "take"
  BY DEF FifoInv, FifoTypes, Goes, FifoInit, FifoEnabled, FifoStop, FifoStopped, ReadWaits
<1> QED
  BY <1>1, FifoFrame

LEMMA WriteStep ==
  ASSUME FifoInv, FifoWrite
  PROVE  FifoInv'
<1>1. PICK len \in FrameLengths :
        sending' = sending \o [k \in 1 .. len |-> <<frames + 1, k>>]
  BY DEF FifoWrite
<1>2. sending \in Seq(Word) /\ frames \in Nat /\ len \in Nat \ {0}
  BY DEF FifoInv, FifoTypes
<1> DEFINE frame == [k \in 1 .. len |-> <<frames + 1, k>>]
<1>3. frame \in Seq(Word) /\ Len(frame) = len
  BY <1>2 DEF Word
<1>4. \A k \in 1 .. len : frame[k] = <<frames + 1, k>>
  OBVIOUS
<1> HIDE DEF frame
<1>5. sending' \in Seq(Word) /\ Len(sending') = Len(sending) + len
  BY <1>1, <1>2, <1>3 DEF frame
<1>6. Sent(sending', frames + 1)
  <2>1. \A j \in 1 .. Len(sending) : sending'[j] = sending[j]
    BY <1>1, <1>2, <1>3 DEF frame
  <2>2. \A j \in Len(sending) + 1 .. Len(sending) + len : sending'[j] = <<frames + 1, j - Len(sending)>>
    <3>1. ASSUME NEW j \in Len(sending) + 1 .. Len(sending) + len
          PROVE  sending'[j] = frame[j - Len(sending)]
      BY <1>1, <1>2, <1>3 DEF frame
    <3> QED
      BY <1>2, <1>4, <3>1
  <2>3. Sent(sending, frames)
    BY DEF FifoInv, InOrder
  <2>4. PICK L \in Nat : L = Len(sending)
    BY <1>2
  <2>5. DOMAIN sending = 1 .. L /\ DOMAIN sending' = 1 .. L + len
    BY <1>2, <1>5, <2>4
  <2> QED
    BY <1>2, <2>1, <2>2, <2>3, <2>4, <2>5, SentExtended
<1>7. frames' = frames + 1 /\ UNCHANGED <<pc, lens, words, rc, wanted, got, cut, crowded>>
  BY DEF FifoWrite
<1>8. FifoTypes' /\ Counted'
  BY <1>2, <1>5, <1>7 DEF FifoInv, FifoTypes, Counted, Announced
<1>9. InOrder'
  BY <1>6, <1>7 DEF FifoInv, InOrder
<1> QED
  BY <1>8, <1>9 DEF FifoInv

LEMMA ArriveStep ==
  ASSUME FifoInv, Arrive
  PROVE  FifoInv'
<1>1. PICK len \in DOMAIN sending :
        /\ \A k \in DOMAIN sending : sending[k][1] = sending[1][1] <=> k <= len
        /\ words' = words \o SubSeq(sending, 1, len)
        /\ lens' = Append(lens, len)
        /\ sending' = SubSeq(sending, len + 1, Len(sending))
  BY DEF Arrive
<1>2. /\ sending \in Seq(Word) /\ lens \in Seq(Nat \ {0})
      /\ frames \in Nat /\ Sent(sending, frames)
  BY DEF FifoInv, FifoTypes, InOrder
<1>3. PICK L \in Nat : L = Len(sending) /\ DOMAIN sending = 1 .. L
  BY <1>2
<1>4. len \in 1 .. L /\ len \in Nat \ {0}
  BY <1>3
<1>5. \A k \in 1 .. L : FrameOf(sending[k]) = FrameOf(sending[1]) <=> k <= len
  BY <1>1, <1>3 DEF FrameOf
<1> DEFINE frame == SubSeq(sending, 1, len)
<1>6. /\ frame \in Seq(Word) /\ Len(frame) = len
      /\ \A k \in 1 .. len : frame[k] = sending[k]
  BY <1>2, <1>3, <1>4, Halves
<1>7. /\ sending' \in Seq(Word) /\ Len(sending') = L - len
      /\ \A k \in 1 .. L - len : sending'[k] = sending[k + len]
  <2>1. len \in 0 .. L /\ sending' = SubSeq(sending, len + 1, L)
    BY <1>1, <1>3, <1>4
  <2> QED
    BY <1>2, <1>3, <2>1, Halves, SMTT(60)
<1>8. Sent(sending', frames)
  <2>1. DOMAIN sending' = 1 .. L - len
    BY <1>7
  <2> QED
    BY <1>2, <1>3, <1>4, <1>5, <1>7, <2>1, SentShortened
<1>9. \A k \in 1 .. len : sending[k] = <<FrameOf(sending[1]), k>>
  BY <1>2, <1>3, <1>4, <1>5, FirstFrame
<1> HIDE DEF frame
<1>10. PICK m \in Nat : m = Len(lens)
  BY <1>2
<1>11. /\ lens' \in Seq(Nat \ {0}) /\ Len(lens') = m + 1
       /\ Prolongs(lens', lens, m) /\ lens'[m + 1] = len
  BY <1>1, <1>2, <1>4, <1>10 DEF Prolongs
<1>12. /\ rc' = TRUE /\ crowded' = (crowded \/ rc)
       /\ UNCHANGED <<pc, frames, wanted, got, cut>>
  BY DEF Arrive
<1>13. ASSUME ~ cut PROVE words' \in Seq(Word) /\ Received(words', lens')
  <2>1. Received(words, lens) /\ words \in Seq(Word)
    BY <1>13 DEF FifoInv, InOrder
  <2>2. PICK n \in Nat : n = Len(words)
    BY <2>1
  <2>3. words' = words \o frame
    BY <1>1 DEF frame
  <2>4. words' \in Seq(Word) /\ Len(words') = n + len /\ Prolongs(words', words, n)
    <3>1. words \o frame \in Seq(Word) /\ Len(words \o frame) = Len(words) + Len(frame)
      BY <1>6, <2>1
    <3>2. \A k \in 1 .. Len(words) : (words \o frame)[k] = words[k]
      BY <1>6, <2>1
    <3> QED
      BY <1>6, <2>2, <2>3, <3>1, <3>2 DEF Prolongs
  <2>5. FrameAfter(words', n, len, FrameOf(sending[1]))
    <3>1. ASSUME NEW j \in n + 1 .. n + len
          PROVE  words'[j] = <<FrameOf(sending[1]), j - n>>
      <4>1. words'[j] = frame[j - n]
        BY <1>4, <1>6, <2>1, <2>2, <2>3
      <4>2. j - n \in 1 .. len
        BY <1>4
      <4> QED
        BY <1>6, <1>9, <4>1, <4>2
    <3> QED
      BY <3>1 DEF FrameAfter
  <2> QED
    BY <1>4, <1>10, <1>11, <2>1, <2>2, <2>4, <2>5, ReceivedExtended
<1>14. FifoTypes'
  BY <1>2, <1>7, <1>11, <1>12 DEF FifoInv, FifoTypes
<1>15. Counted'
  BY <1>10, <1>11, <1>12 DEF FifoInv, FifoTypes, Counted, Announced
<1>16. InOrder'
  BY <1>8, <1>12, <1>13 DEF FifoInv, InOrder
<1> QED
  BY <1>14, <1>15, <1>16 DEF FifoInv

LEMMA CallStep ==
  ASSUME FifoInv, ReadCall
  PROVE  FifoInv'
<1>1. /\ got' = <<>> /\ wanted' \in Nat /\ DOMAIN pc' = Irqs
      /\ pc["fifo"] # "take" /\ pc'["fifo"] # "take"
      /\ UNCHANGED <<frames, sending, lens, words, rc, cut, crowded>>
  BY DEF ReadCall, Goes, FifoInv, FifoTypes
<1>2. FifoTypes'
  BY <1>1 DEF FifoInv, FifoTypes
<1>3. Counted'
  BY <1>1 DEF FifoInv, Counted, Announced
<1>4. InOrder'
  BY <1>1 DEF FifoInv, InOrder
<1> QED
  BY <1>2, <1>3, <1>4 DEF FifoInv

LEMMA ClearsStep ==
  ASSUME FifoInv, ReadClears
  PROVE  FifoInv'
<1>1. /\ rc /\ rc' = FALSE /\ DOMAIN pc' = Irqs
      /\ pc["fifo"] # "take" /\ pc'["fifo"] = "take"
      /\ UNCHANGED <<frames, sending, lens, words, wanted, got, cut, crowded>>
  BY DEF ReadClears, Goes, FifoInv, FifoTypes
<1>2. FifoTypes'
  BY <1>1 DEF FifoInv, FifoTypes
<1>3. Counted'
  BY <1>1 DEF FifoInv, Counted, Announced
<1>4. InOrder'
  BY <1>1 DEF FifoInv, InOrder
<1> QED
  BY <1>2, <1>3, <1>4 DEF FifoInv

LEMMA TakesStep ==
  ASSUME FifoInv, ReadTakes
  PROVE  FifoInv'
<1> DEFINE len == Head(lens)
           nextlen == Least(len, wanted)
<1>1. /\ lens # <<>> /\ lens' = Tail(lens)
      /\ got' = SubSeq(words, 1, nextlen)
      /\ words' = SubSeq(words, nextlen + 1, Len(words))
      /\ cut' = (cut \/ nextlen < len)
      /\ UNCHANGED <<frames, sending, rc, wanted, crowded>>
  BY DEF ReadTakes
<1>2. pc["fifo"] = "take" /\ pc'["fifo"] # "take" /\ DOMAIN pc' = Irqs
  BY DEF ReadTakes, Goes, FifoInv, FifoTypes
<1>3. /\ lens \in Seq(Nat \ {0}) /\ wanted \in Nat
      /\ rc \in BOOLEAN /\ cut \in BOOLEAN /\ crowded \in BOOLEAN
  BY DEF FifoInv, FifoTypes
<1>4. PICK m \in Nat \ {0} : m = Len(lens)
  BY <1>1, <1>3
<1>5. len \in Nat \ {0} /\ lens[1] = len
  BY <1>1, <1>3
<1>6. nextlen \in Nat /\ nextlen <= len /\ (nextlen < len \/ nextlen = len)
  BY <1>3, <1>5 DEF Least
<1> HIDE DEF nextlen, len
<1>7. lens' \in Seq(Nat \ {0}) /\ Len(lens') = m - 1 /\ Follows(lens', lens, 1, m)
  BY <1>1, <1>3, <1>4 DEF Follows
<1>8. ASSUME ~ cut'
      PROVE  /\ words' \in Seq(Word) /\ got' \in Seq(Word)
             /\ Received(words', lens')
             /\ \A k \in DOMAIN got' : got'[k] = <<FrameOf(got'[1]), k>>
  <2>1. /\ ~ cut
        /\ got' = SubSeq(words, 1, len)
        /\ words' = SubSeq(words, len + 1, Len(words))
    BY <1>1, <1>3, <1>6, <1>8
  <2>2. words \in Seq(Word) /\ Received(words, lens)
    BY <2>1 DEF FifoInv, InOrder
  <2>3. PICK L \in Nat : L = Len(words)
    BY <2>2
  <2>4. Positive(lens, m)
    BY <1>3, <1>4 DEF Positive
  <2>5. len <= L
    <3>1. PICK start : StartsAt(start, L, m, lens)
      BY <1>4, <2>2, <2>3 DEF Received
    <3>2. start[1 + 1] = start[1] + lens[1] /\ start[1] = 0 /\ start[1 + 1] \in 0 .. L
      BY <3>1 DEF StartsAt
    <3> QED
      BY <1>5, <3>2
  <2>6. len \in 0 .. L
    BY <1>5, <2>5
  <2>7. /\ words' \in Seq(Word) /\ Len(words') = L - len /\ Follows(words', words, len, L)
        /\ got' \in Seq(Word) /\ Len(got') = len
        /\ \A k \in 1 .. len : got'[k] = words[k]
    <3>1. words' = SubSeq(words, len + 1, L)
      BY <2>1, <2>3
    <3> QED
      BY <2>1, <2>2, <2>3, <2>6, <3>1, Halves DEF Follows
  <2>8. /\ \A k \in 1 .. len : words[k] = <<FrameOf(words[1]), k>>
        /\ Received(words', lens')
    <3>1. Len(words) = L /\ Len(lens) = m
      BY <1>4, <2>3
    <3>2. L \in Nat /\ m \in Nat \ {0} /\ len \in Nat \ {0} /\ lens[1] = len
      BY <1>4, <1>5, <2>3
    <3>3. Len(words') = L - len /\ Follows(words', words, len, L)
      BY <2>7
    <3>4. Len(lens') = m - 1 /\ Follows(lens', lens, 1, m)
      BY <1>7
    <3>5. Received(words, lens)
      BY <2>2
    <3> QED
      BY <2>4, <3>1, <3>2, <3>3, <3>4, <3>5, ReceivedShortened, SMTT(60)
  <2>9. DOMAIN got' = 1 .. len /\ 1 \in 1 .. len
    BY <1>5, <2>7
  <2> QED
    BY <2>7, <2>8, <2>9
<1>9. FifoTypes'
  <2>1. cut' \in BOOLEAN /\ frames' \in Nat /\ sending' \in Seq(Word)
    <3>1. (nextlen < len) \in BOOLEAN
      BY <1>5, <1>6
    <3> QED
      BY <1>1, <1>3, <3>1 DEF FifoInv, FifoTypes
  <2> QED
    BY <1>1, <1>2, <1>3, <1>7, <2>1 DEF FifoTypes
<1>10. Counted'
  BY <1>1, <1>2, <1>3, <1>4, <1>7 DEF FifoInv, Counted, Announced
<1>11. InOrder'
  BY <1>1, <1>8 DEF FifoInv, InOrder
<1> QED
  BY <1>9, <1>10, <1>11 DEF FifoInv

LEMMA FifoStart == \A ips : TimerFifoInit(ips) => FifoInv
<1> SUFFICES ASSUME NEW ips, TimerFifoInit(ips)
             PROVE  FifoInv
  OBVIOUS
<1>1. FifoTypes
  <2>1. <<>> \in Seq(Word) /\ <<>> \in Seq(Nat \ {0})
    OBVIOUS
  <2>2. /\ pc = [i \in Irqs |-> IF i = "fifo" THEN "init" ELSE "idle"]
        /\ frames = 0 /\ sending = <<>> /\ lens = <<>> /\ wanted = 0
        /\ rc = FALSE /\ cut = FALSE /\ crowded = FALSE
    BY DEF TimerFifoInit
  <2> QED
    BY <2>1, <2>2 DEF FifoTypes
<1>2. Counted
  BY DEF TimerFifoInit, Counted, Announced
<1>3. Sent(<<>>, 0)
  BY DEF Sent
<1>4. Received(<<>>, <<>>)
  <2> DEFINE start == [i \in 1 .. 1 |-> 0]
  <2>1. StartsAt(start, 0, 0, <<>>)
    BY DEF StartsAt
  <2>2. Fills(start, <<>>, 0, <<>>)
    BY DEF Fills
  <2> QED
    BY <2>1, <2>2 DEF Received
<1> QED
  BY <1>1, <1>2, <1>3, <1>4 DEF TimerFifoInit, FifoInv, InOrder

LEMMA FifoStep == FifoInv /\ [TimerFifoNext]_tfVars => FifoInv'
<1> SUFFICES ASSUME FifoInv, [TimerFifoNext]_tfVars
             PROVE  FifoInv'
  OBVIOUS
<1>1. CASE UNCHANGED tfVars
  <2>1. UNCHANGED fifoVars /\ UNCHANGED pc /\ DOMAIN pc' = Irqs
    BY <1>1 DEF tfVars, FifoInv, FifoTypes
  <2> QED
    BY <2>1, FifoFrame
<1>2. CASE \E t \in Timers \cap present : TimerNext(t)
  BY <1>2, FifoTimerStep
<1>3. CASE FifoNext
  BY <1>3, FifoOtherSteps, WriteStep, ArriveStep, CallStep, ClearsStep, TakesStep DEF FifoNext
<1> QED
  BY <1>1, <1>2, <1>3 DEF TimerFifoNext

LEMMA FifoServed == FifoInv => FifoHonest
<1> SUFFICES ASSUME FifoInv PROVE FifoHonest
  OBVIOUS
<1>1. FrameThere
  BY DEF FifoInv, FifoTypes, Counted, Announced, FrameThere
<1>2. FrameAligned
  BY DEF FifoInv, InOrder, FrameAligned, FrameOf
<1>3. FrameAnnounced
  BY DEF FifoInv, FifoTypes, Counted, Announced, FrameAnnounced
<1> QED
  BY <1>1, <1>2, <1>3 DEF FifoHonest

(* read() of the FIFO finds the length of a frame when it looks for one;   *)
(* it returns the words of one frame, from the first on, as long as no     *)
(* frame was longer than its buffer; and a frame waits unannounced only if *)
(* it came while the bit of an earlier one was set.                        *)
THEOREM ReadsWholeFrames == TimerFifoSpec => []FifoHonest
<1>1. (\E ips \in SUBSET Irqs : TimerFifoInit(ips)) => FifoInv
  BY FifoStart
<1> QED
  BY <1>1, FifoServed, FifoStep, PTL DEF TimerFifoSpec

-----------------------------------------------------------------------------
(* ---- All of them on one card ------------------------------------------------ *)

DevicesInv ==
  /\ FlashInv /\ RegistersInv /\ SimpleInv /\ HlsInv /\ TimerInv /\ FifoInv
  /\ IF "streams" \in present THEN RouteInv ELSE stage = "create"

LEMMA SamePresent == TimerFifoNext => present' = present
<1> SUFFICES ASSUME TimerFifoNext PROVE present' = present
  OBVIOUS
<1>1. ASSUME NEW t, TimerNext(t) PROVE present' = present
  BY <1>1 DEF TimerNext, StartCall, StartEnabled, StartCounting, WaitReturns, WaitDisables,
     WaitDisabled, Expire
<1>2. ASSUME FifoNext PROVE present' = present
  BY <1>2 DEF FifoNext, FifoInit, FifoEnabled, FifoStop, FifoStopped, FifoWrite, Arrive,
     ReadCall, ReadWaits, ReadClears, ReadTakes
<1> QED
  BY <1>1, <1>2 DEF TimerFifoNext

LEMMA DevicesStart == DevicesInit => DevicesInv
<1> SUFFICES ASSUME DevicesInit PROVE DevicesInv
  OBVIOUS
<1>1. TimerInv /\ FifoInv
  BY TimerInit, FifoStart DEF DevicesInit
<1>2. FlashInv
  BY FlashStart DEF DevicesInit
<1>3. RegistersInv
  <2>1. Sound \in Interfaces
    BY RegistersAssumption DEF Sound, Interfaces, Regs
  <2>2. RegistersInit(Interfaces) \/ RegistersInit({Sound})
    BY DEF DevicesInit
  <2>3. RegistersInit({Sound}) => RegistersInit(Interfaces)
    BY <2>1, Zenon DEF RegistersInit
  <2> QED
    BY <2>2, <2>3, RegistersStart
<1>4. SimpleInv /\ HlsInv
  BY SimpleStart, HlsStart DEF DevicesInit
<1>5. IF "streams" \in present THEN RouteInv ELSE stage = "create"
  <2>1. CASE "streams" \in present
    BY <2>1, RouteInit DEF DevicesInit
  <2>2. CASE "streams" \notin present
    BY <2>2 DEF DevicesInit, RoutingInit
  <2> QED
    BY <2>1, <2>2
<1> QED
  BY <1>1, <1>2, <1>3, <1>4, <1>5 DEF DevicesInv

(* A step is one of one of the parts, and of a part that is present.       *)
LEMMA OneAtATime ==
  ASSUME [DevicesNext]_deviceVars
  PROVE  /\ [TimerFifoNext]_tfVars /\ [SimpleNext]_simpleVars /\ [HlsNext]_hlsVars
         /\ [FlashNext]_flashVars /\ [RegistersNext]_registersVars
         /\ (RoutingNext /\ "streams" \in present) \/ UNCHANGED routingVars
         /\ present' = present
<1>1. [TimerFifoNext]_tfVars
  BY Zenon DEF DevicesNext, deviceVars
<1>2. present' = present
  BY <1>1, SamePresent DEF tfVars
<1> QED
  BY <1>1, <1>2, Zenon DEF DevicesNext, deviceVars

LEMMA DevicesStep == DevicesInv /\ [DevicesNext]_deviceVars => DevicesInv'
<1> SUFFICES ASSUME DevicesInv, [DevicesNext]_deviceVars PROVE DevicesInv'
  OBVIOUS
<1>1. FlashInv' /\ RegistersInv' /\ SimpleInv' /\ HlsInv'
  BY OneAtATime, FlashStep, RegistersStep, SimpleStep, HlsStep, Zenon DEF DevicesInv
<1>2. TimerInv' /\ FifoInv'
  BY OneAtATime, TimerStep, FifoStep, Zenon DEF DevicesInv
<1>3. CASE "streams" \in present
  <2>1. RouteInv /\ [RoutingNext]_routingVars /\ present' = present
    BY <1>3, OneAtATime, Zenon DEF DevicesInv
  <2>2. RouteInv'
    BY <2>1, RouteStep, Zenon
  <2> QED
    BY <1>1, <1>2, <1>3, <2>1, <2>2, Zenon DEF DevicesInv
<1>4. CASE "streams" \notin present
  <2>1. stage = "create" /\ UNCHANGED routingVars /\ present' = present
    BY <1>4, OneAtATime, Zenon DEF DevicesInv
  <2>2. stage' = "create"
    BY <2>1 DEF routingVars
  <2> QED
    BY <1>1, <1>2, <1>4, <2>1, <2>2, Zenon DEF DevicesInv
<1> QED
  BY <1>3, <1>4

(* A card keeps what each of its parts promises, whichever of them the     *)
(* hardware definition has.                                                *)
THEOREM DevicesKeepPromises ==
  DevicesSpec => [](/\ FlashHonest /\ RegistersHonest /\ SimpleHonest /\ KernelsHonest
                    /\ InterruptWaits /\ TimerHonest /\ FifoHonest /\ RoutesAsWired)
<1>1. FlashInv => FlashHonest
  BY DEF FlashInv
<1>2. (IF "streams" \in present THEN RouteInv ELSE stage = "create") => RoutesAsWired
  BY AsWired DEF RouteInv, Served
<1>3. DevicesInv => /\ FlashHonest /\ RegistersHonest /\ SimpleHonest /\ KernelsHonest
                    /\ InterruptWaits /\ TimerHonest /\ FifoHonest /\ RoutesAsWired
  BY <1>1, <1>2, RegistersRead, SimpleServed, KernelsInOrder, TimersServed, FifoServed, Zenon
     DEF DevicesInv
<1> QED
  BY <1>3, DevicesStart, DevicesStep, PTL DEF DevicesSpec
=============================================================================
