--------------------------------- MODULE Hls ---------------------------------
(***************************************************************************)
(* The kernels Rtds2Gpu and Gpu2Rtds (lib/ips/rtds2gpu/*.cpp on            *)
(* ips/hls.hpp) and a program that runs them in turn: each frame from the  *)
(* RTDS is written to memory, followed by a doorbell word, copied to the   *)
(* registers of the other kernel and sent back.  Where the data and the    *)
(* doorbell go is written to four registers first.                         *)
(*                                                                         *)
(* Their control register is changed by reading and writing it as a whole, *)
(* while the kernel clears its ap_start bit.  The kernels outlive the      *)
(* process: the next one finds them as they are.                           *)
(***************************************************************************)
EXTENDS Naturals

CONSTANTS
  WaitFor,      \* what the program waits for: "doorbell" or "finished"
  MaxRtdsFrames,\* a bound for model checking: frames from the RTDS
  MaxLives      \* a bound for model checking: processes

ASSUME HlsAssumption ==
  /\ WaitFor \subseteq {"doorbell", "finished"}
  /\ MaxRtdsFrames \in Nat /\ MaxLives \in Nat

Kernels == {"rtds2gpu", "gpu2rtds"}

VARIABLES
  waitFor,
  ap_start, auto_restart,  \* per kernel, bits of its control register
  inRun,     \* per kernel, it is between the start and the end of a run
  registers, \* of Rtds2Gpu, each as the process that has set it
  target,    \* their values that the current run has taken over
  phase,     \* what the current run of Rtds2Gpu does next
  unfinished,\* per kernel, the flag "running" of its driver
  early,     \* per kernel, no start() yet, or it was not idle at the last
  lost,      \* per kernel, no run has begun since the last start()
  place,     \* where the process is
  word,      \* the control register as the process has read it
  life,      \* processes so far
  seq,       \* frames from the RTDS so far
  memory,          \* two words, the memory of this process; 0 is not valid
  stale,           \* Rtds2Gpu was not idle when the memory was cleared
  registerFrames,  \* what was copied to Gpu2Rtds
  registerFrameSize, status_ap_vld  \* of Gpu2Rtds

ctrlRegs == <<ap_start, auto_restart>>
runVars == <<inRun, target, phase>>
flagVars == <<unfinished, early, lost>>
sizeVars == <<registerFrameSize, status_ap_vld>>
memVars == <<seq, memory, stale, registerFrames>>
hlsVars ==
  <<waitFor, ctrlRegs, runVars, registers, flagVars, place, word, life, memVars, sizeVars>>

Blank == [ap_start |-> FALSE, auto_restart |-> FALSE]

RegisterNames == {"baseaddr", "doorbell_offset", "data_offset", "frame_size"}
NeverSet == [r \in RegisterNames |-> 0]

(* The words that a process has chosen for data and doorbell: no two agree.*)
DataAt(process) == process % 2
DoorbellAt(process) == 1 - DataAt(process)

Zeroes == [w \in 0 .. 1 |-> 0]
data == memory[DataAt(life)]
doorbell == memory[DoorbellAt(life)]

(* A process before may have left either kernel restarting on its own.     *)
HlsInit ==
  /\ waitFor \in WaitFor
  /\ auto_restart \in [Kernels -> BOOLEAN]
  /\ ap_start = auto_restart
  /\ inRun = [k \in Kernels |-> FALSE]
  /\ registers = NeverSet /\ target = NeverSet
  /\ phase = "data"
  /\ unfinished = [k \in Kernels |-> FALSE]
  /\ early = [k \in Kernels |-> TRUE] /\ lost = [k \in Kernels |-> FALSE]
  /\ place = "initR"
  /\ word = Blank
  /\ life = 1
  /\ seq = 0 /\ memory = Zeroes /\ registerFrames = 0
  /\ stale = FALSE
  /\ registerFrameSize = 0 /\ status_ap_vld = FALSE

isIdleBit(k) == ~ ap_start[k] /\ ~ inRun[k]

GoesTo(from, to) == place = from /\ place' = to

(* The two halves of an assignment to a bit of the control register        *)
ReadCtrl(k) ==
  /\ word' = [ap_start |-> ap_start[k], auto_restart |-> auto_restart[k]]
  /\ UNCHANGED <<waitFor, ctrlRegs, runVars, registers, flagVars, life, memVars, sizeVars>>

WriteCtrl(k, w) ==
  /\ ap_start' = [ap_start EXCEPT ![k] = @ \/ w.ap_start]
  /\ auto_restart' = [auto_restart EXCEPT ![k] = w.auto_restart]
  /\ word' = Blank

SetAutoRestart(k) ==
  /\ WriteCtrl(k, [word EXCEPT !.auto_restart = FALSE])
  /\ UNCHANGED <<waitFor, runVars, registers, flagVars, life, memVars, sizeVars>>

(* start(): the bit, then "running".  early and lost are for the           *)
(* properties.                                                             *)
Start(k) ==
  /\ WriteCtrl(k, [word EXCEPT !.ap_start = TRUE])
  /\ unfinished' = [unfinished EXCEPT ![k] = TRUE]
  /\ early' = [early EXCEPT ![k] = ~ isIdleBit(k)]
  /\ lost' = [lost EXCEPT ![k] = TRUE]
  /\ UNCHANGED <<waitFor, runVars, registers, life, memVars, sizeVars>>

(* isFinished() returns true                                               *)
Finished(k) ==
  /\ unfinished[k] => isIdleBit(k)
  /\ unfinished' = [unfinished EXCEPT ![k] = FALSE]
  /\ UNCHANGED <<waitFor, ctrlRegs, runVars, registers, early, lost, word, life, memVars, sizeVars>>

(* ---- The program -------------------------------------------------------- *)

(* The frame size for the next run of Gpu2Rtds                             *)
SetFrameSize(from, to, size) ==
  /\ GoesTo(from, to)
  /\ registerFrameSize' = size
  /\ UNCHANGED <<waitFor, ctrlRegs, runVars, registers, flagVars, word, life, memVars, status_ap_vld>>

(* Hls::init()                                                             *)
Initialize(k, from, between, to) ==
  \/ GoesTo(from, between) /\ ReadCtrl(k)
  \/ GoesTo(between, to) /\ SetAutoRestart(k)

InitializeRtds2Gpu == Initialize("rtds2gpu", "initR", "initR2", "initG")

(* It runs the kernel once and waits for a status, which is cleared as it  *)
(* is read.                                                                *)
getMaxFrameSize ==
  \/ SetFrameSize("frameSize", "size", 0)
  \/ GoesTo("size", "size2") /\ ReadCtrl("gpu2rtds")
  \/ GoesTo("size2", "sized") /\ Start("gpu2rtds")
  \/ GoesTo("sized", "status") /\ Finished("gpu2rtds")
  \/ /\ status_ap_vld
     /\ GoesTo("status", "loop")
     /\ status_ap_vld' = FALSE
     /\ UNCHANGED <<waitFor, ctrlRegs, runVars, registers, flagVars, word, life, memVars,
                    registerFrameSize>>

InitializeGpu2Rtds == Initialize("gpu2rtds", "initG", "initG2", "frameSize") \/ getMaxFrameSize

(* Rtds2Gpu::startOnce(): one by one the registers are set, and the memory *)
(* is cleared, before the kernel starts.                                   *)
XRtds2gpu_Set(r) ==
  /\ registers' = [registers EXCEPT ![r] = life]
  /\ UNCHANGED <<waitFor, ctrlRegs, runVars, flagVars, word, life, memVars, sizeVars>>

SetRegisters ==
  \/ GoesTo("loop", "doorbell_offset") /\ XRtds2gpu_Set("baseaddr")
  \/ GoesTo("doorbell_offset", "data_offset") /\ XRtds2gpu_Set("doorbell_offset")
  \/ GoesTo("data_offset", "frame_size") /\ XRtds2gpu_Set("data_offset")
  \/ GoesTo("frame_size", "memset") /\ XRtds2gpu_Set("frame_size")

(* It refuses a frame size beyond the maximum before that, and the program *)
(* ends.                                                                   *)
FrameTooLarge ==
  /\ GoesTo("loop", "refused")
  /\ UNCHANGED <<waitFor, ctrlRegs, runVars, registers, flagVars, word, life, memVars, sizeVars>>

ClearMemory ==
  /\ GoesTo("memset", "start")
  /\ memory' = Zeroes
  /\ stale' = ~ isIdleBit("rtds2gpu")
  /\ UNCHANGED <<waitFor, ctrlRegs, runVars, registers, flagVars, word, life, seq, registerFrames,
                 sizeVars>>

(* Variant: the memory is cleared when the kernel was started.             *)
StartThenClear ==
  \/ GoesTo("start", "start2") /\ ReadCtrl("rtds2gpu")
  \/ GoesTo("start2", "clear") /\ Start("rtds2gpu")
  \/ /\ GoesTo("clear", "wait")
     /\ memory' = Zeroes
     /\ UNCHANGED <<waitFor, ctrlRegs, runVars, registers, flagVars, word, life, seq, stale,
                    registerFrames, sizeVars>>

StartRtds2Gpu ==
  \/ GoesTo("start", "start2") /\ ReadCtrl("rtds2gpu")
  \/ GoesTo("start2", "wait") /\ Start("rtds2gpu")

AwaitFrame ==
  \/ /\ waitFor = "doorbell" /\ doorbell > 0
     /\ GoesTo("wait", "copy")
     /\ UNCHANGED <<waitFor, ctrlRegs, runVars, registers, flagVars, word, life, memVars, sizeVars>>
  \/ /\ waitFor = "finished"
     /\ GoesTo("wait", "copy")
     /\ Finished("rtds2gpu")

CopyFrame ==
  /\ GoesTo("copy", "send")
  /\ registerFrames' = data
  /\ UNCHANGED <<waitFor, ctrlRegs, runVars, registers, flagVars, word, life, seq, memory, stale,
                 sizeVars>>

(* "Waiting for gpu2rtds is not strictly required"                         *)
StartGpu2Rtds ==
  \/ SetFrameSize("send", "send1", 1)
  \/ GoesTo("send1", "send2") /\ ReadCtrl("gpu2rtds")
  \/ GoesTo("send2", "loop") /\ Start("gpu2rtds")

(* The process dies, and another one begins with memory of its own.        *)
Dies ==
  /\ life < MaxLives
  /\ life' = life + 1
  /\ place' = "initR"
  /\ unfinished' = [k \in Kernels |-> FALSE]
  /\ early' = [k \in Kernels |-> TRUE] /\ lost' = [k \in Kernels |-> FALSE]
  /\ word' = Blank
  /\ memory' = Zeroes
  /\ UNCHANGED <<waitFor, ctrlRegs, runVars, registers, seq, stale, registerFrames, sizeVars>>

(* ---- The kernels -------------------------------------------------------- *)

KernelFrame == <<waitFor, registers, unfinished, early, place, word, life, registerFrameSize>>

(* A word to the memory of the process whose address the run has taken; if *)
(* it has died, that is not modelled.                                      *)
Store(w, value) ==
  memory' = IF target["baseaddr"] = life THEN [memory EXCEPT ![w] = value] ELSE memory

RunBegins(k) ==
  /\ ap_start[k] /\ ~ inRun[k]
  /\ inRun' = [inRun EXCEPT ![k] = TRUE]
  /\ target' = IF k = "rtds2gpu" THEN registers ELSE target
  /\ phase' = IF k = "rtds2gpu" THEN "data" ELSE phase
  /\ lost' = [lost EXCEPT ![k] = FALSE]
  /\ UNCHANGED <<KernelFrame, ctrlRegs, memVars, status_ap_vld>>

(* Rtds2Gpu writes what came from the RTDS, then the doorbell.             *)
WriteData ==
  /\ inRun["rtds2gpu"] /\ phase = "data"
  /\ seq < MaxRtdsFrames
  /\ seq' = seq + 1
  /\ Store(DataAt(target["data_offset"]), seq')
  /\ phase' = "doorbell"
  /\ UNCHANGED <<KernelFrame, ctrlRegs, inRun, target, lost, stale, registerFrames, status_ap_vld>>

WriteDoorbell ==
  /\ inRun["rtds2gpu"] /\ phase = "doorbell"
  /\ Store(DoorbellAt(target["doorbell_offset"]), seq)
  /\ phase' = "end"
  /\ UNCHANGED <<KernelFrame, ctrlRegs, inRun, target, lost, seq, stale, registerFrames, status_ap_vld>>

(* At its end a run clears ap_start, whenever that was set.                *)
RunEnds(k) ==
  /\ inRun[k]
  /\ k = "rtds2gpu" => phase = "end"
  /\ inRun' = [inRun EXCEPT ![k] = FALSE]
  /\ ap_start' = [ap_start EXCEPT ![k] = auto_restart[k]]
  /\ status_ap_vld' = (status_ap_vld \/ k = "gpu2rtds")
  /\ UNCHANGED <<KernelFrame, auto_restart, target, phase, lost, memVars>>

HlsNext ==
  \/ InitializeRtds2Gpu \/ InitializeGpu2Rtds
  \/ SetRegisters \/ FrameTooLarge \/ ClearMemory \/ StartRtds2Gpu \/ AwaitFrame \/ CopyFrame \/ StartGpu2Rtds
  \/ Dies
  \/ \E k \in Kernels : RunBegins(k) \/ RunEnds(k)
  \/ WriteData \/ WriteDoorbell

HlsSpec == HlsInit /\ [][HlsNext]_hlsVars

-----------------------------------------------------------------------------
(* Parts of what the kernels promise.  When the program looks for it, a    *)
(* doorbell means that the data of its frame is in memory, and it is what  *)
(* goes to Gpu2Rtds, unless the kernel was still running when the memory   *)
(* was cleared for its next run.                                           *)
FrameWhole ==
  ~ stale =>
    /\ place \in {"wait", "copy"} /\ doorbell > 0 => data = doorbell
    /\ place = "send" => registerFrames = doorbell /\ doorbell > 0

(* isFinished() is not true before the run that start() asked for has come *)
(* and gone, unless the kernel was not idle at start(): then the end of    *)
(* its run takes the start bit away, and there is no such run.             *)
FinishedHonest ==
  \A k \in Kernels : ~ unfinished[k] /\ ~ early[k] => ~ lost[k] /\ ~ inRun[k]

(* The two of them: hls.hpp's start() and isFinished() as rtds2gpu.cpp and *)
(* gpu2rtds.cpp use them, over any number of processes.                    *)
KernelsHonest == FrameWhole /\ FinishedHonest
=============================================================================
