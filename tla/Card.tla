--------------------------------- MODULE Card --------------------------------
(***************************************************************************)
(* The life of a card: PCIeCardFactory::make() (lib/pcie_card.cpp) finds   *)
(* it and has CoreFactory::make() initialize its IPs, a program maps its   *)
(* memory for the DMA engines of the card, and ~Card() (lib/card.cpp)      *)
(* takes everything down - also when make() gives up half way, where the   *)
(* exception destructs whatever exists by then.                            *)
(*                                                                         *)
(* The IPs are initialized by the actions of CoreFactory; Dma::init(),     *)
(* which maps two rings and holds hwLock on the way, and ~Dma() are        *)
(* modelled here.  What a failing step leaves behind is state; the C++     *)
(* rules of what is destructed, and in which order, are the actions.       *)
(***************************************************************************)
EXTENDS CoreFactory

CONSTANTS
  Dmas,        (* the IPs that are DMA engines                               *)
  SgDmas,      (* those with scatter-gather, which own two rings             *)
  UserBlocks,  (* the memory blocks that a program may allocate              *)
  Programs,    (* what has the card made: "ctrl", "pipe", or "api", a        *)
               (* program that uses the C API                                *)
  MaxPaths     (* a bound for model checking: static paths of a card         *)

ASSUME CardAssumption ==
  /\ Dmas \subseteq IPs /\ SgDmas \subseteq Dmas
  /\ Programs \subseteq {"ctrl", "pipe", "api"}
  /\ UserBlocks \cap (Dmas \X {"rx", "tx"}) = {}
  /\ MaxPaths \in Nat

VARIABLES
  life,        \* where the card is between make() and the end of ~Card()
  made,        \* what make() has returned: a "card", "null" or an "error"
  process,     \* it "runs", or how it ended before its time
  doomed,      \* the IPs that are still to be destructed, in order
  dma,         \* per DMA engine, the driver's own state
  memoryBlocksMapped,
  pinned,      \* the blocks that the IOMMU translates for the card
  held,        \* the blocks that the program has a pointer to
  paths,       \* how many static paths are still to be configured
  reader,      \* is the thread of ctrl that reads from the Dma running
  mapping,     \* per thread, the block in the middle of mapMemoryBlock()
  posted       \* per DMA engine, the program's blocks that it was handed

makeVars == <<made, process, doomed, dma, memoryBlocksMapped, pinned, paths>>
programVars == <<held, reader, mapping, posted>>
ownVars == <<makeVars, programVars>>
cardVars == <<life, ownVars>>

(* Per engine: is xDma initialized, is hwLock held, do sgRingRx and        *)
(* sgRingTx point to a block.                                              *)
DmaState == [engine : BOOLEAN, hwLock : BOOLEAN, rx : BOOLEAN, tx : BOOLEAN]

NewDma == [engine |-> FALSE, hwLock |-> FALSE, rx |-> FALSE, tx |-> FALSE]

Ring(d, side) == <<d, side>>
Rings == {Ring(d, side) : d \in SgDmas, side \in {"rx", "tx"}}

Threads == {"main", "reader"}

CardInit ==
  /\ Init
  /\ life = "find"
  /\ made = "none"
  /\ process = "runs"
  /\ doomed = <<>>
  /\ dma = [d \in Dmas |-> NewDma]
  /\ memoryBlocksMapped = {}
  /\ pinned = {}
  /\ held = {}
  /\ paths = 0
  /\ reader = FALSE
  /\ mapping = [t \in Threads |-> {}]
  /\ posted = [d \in Dmas |-> {}]

(* unmapMemoryBlock(): the entry goes, and the IOMMU's mapping unless      *)
(* memoryUnmap() fails, whose result nobody looks at.                      *)
Unmap(blocks) ==
  /\ memoryBlocksMapped' = memoryBlocksMapped \ blocks
  /\ \E unpinned \in SUBSET blocks : pinned' = pinned \ unpinned

(* ---- make() -------------------------------------------------------------- *)

Runs(phase) == process = "runs" /\ life = phase

(* No such device, the device cannot be enabled or reset, or the           *)
(* definition of the IPs cannot be loaded.                                 *)
NotFound ==
  /\ Runs("find")
  /\ made' \in {"null", "error"}
  /\ life' = "stop"
  /\ UNCHANGED <<vars, process, doomed, dma, memoryBlocksMapped, pinned, paths, programVars>>

Found ==
  /\ Runs("find")
  /\ life' = "cores"
  /\ UNCHANGED <<vars, ownVars>>

CoreStep ==
  /\ Runs("cores")
  /\ Pick \/ Skip \/ NextVlnv \/ Splice \/ Unsupported \/ Configure \/ Configured \/ Initialized
  /\ UNCHANGED cardVars

CoreCrash ==
  /\ Runs("cores")
  /\ Crash
  /\ process' = "segv"
  /\ UNCHANGED <<life, made, doomed, dma, memoryBlocksMapped, pinned, paths, programVars>>

(* An exception: of CoreFactory::make(), the IP that is being configured   *)
(* and the list of those that are not yet in the card are destructed first.*)
Unwind(cores) ==
  /\ doomed' = cores
  /\ made' = "error"
  /\ life' = "unwind"

CoreConfigError ==
  /\ Runs("cores")
  /\ ConfigError
  /\ Unwind(<<orderedIps[it]>> \o configuredIps)
  /\ UNCHANGED <<process, dma, memoryBlocksMapped, pinned, paths, programVars>>

Current == configuredIps[it]
Pending == SubSeq(configuredIps, it, Len(configuredIps))

OtherInit ==
  /\ Runs("cores") /\ Initializing /\ Current \notin Dmas
  /\ Initialize
  /\ UNCHANGED cardVars

OtherInitError ==
  /\ Runs("cores") /\ Initializing /\ Current \notin Dmas
  /\ InitError
  /\ Unwind(Pending)
  /\ UNCHANGED <<process, dma, memoryBlocksMapped, pinned, paths, programVars>>

(* Dma::init() and setupScatterGather(): both rings, and hwLock released.  *)
DmaInit ==
  /\ Runs("cores") /\ Initializing /\ Current \in Dmas
  /\ Initialize
  /\ LET d == Current
         sg == d \in SgDmas
     IN /\ dma' = [dma EXCEPT ![d] = [engine |-> TRUE, hwLock |-> FALSE, rx |-> sg, tx |-> sg]]
        /\ LET rings == IF sg THEN {Ring(d, "rx"), Ring(d, "tx")} ELSE {}
           IN /\ memoryBlocksMapped' = memoryBlocksMapped \cup rings
              /\ pinned' = pinned \cup rings
  /\ UNCHANGED <<life, made, process, doomed, paths, programVars>>

(* Where Dma::init() may give up: before it locks, then at the engine      *)
(* itself, and for each ring before the IOMMU maps it, at createMapping(), *)
(* when it is mapped but not listed yet, and at its creation; no error     *)
(* path after the lock() releases hwLock.                                  *)
Locked(rx, tx) == [engine |-> TRUE, hwLock |-> TRUE, rx |-> rx, tx |-> tx]

Failure(state, pins, maps) == [state |-> state, pinned |-> pins, mapped |-> maps]

DmaFailures(d) ==
  LET rx == Ring(d, "rx")
      tx == Ring(d, "tx")
  IN {Failure(NewDma, {}, {}), Failure(Locked(FALSE, FALSE), {}, {})}
     \cup IF d \notin SgDmas THEN {} ELSE
     {Failure(Locked(TRUE, FALSE), {}, {}), Failure(Locked(TRUE, FALSE), {rx}, {}),
      Failure(Locked(TRUE, FALSE), {rx}, {rx}), Failure(Locked(TRUE, TRUE), {rx}, {rx}),
      Failure(Locked(TRUE, TRUE), {rx, tx}, {rx}), Failure(Locked(TRUE, TRUE), {rx, tx}, {rx, tx})}

DmaInitError ==
  /\ Runs("cores") /\ Initializing /\ Current \in Dmas
  /\ InitError
  /\ Unwind(Pending)
  /\ \E failure \in IF NoTranslation(Current) THEN {Failure(NewDma, {}, {})}
                    ELSE DmaFailures(Current) :
       /\ dma' = [dma EXCEPT ![Current] = failure.state]
       /\ pinned' = pinned \cup failure.pinned
       /\ memoryBlocksMapped' = memoryBlocksMapped \cup failure.mapped
  /\ UNCHANGED <<process, paths, programVars>>

NoIPs ==
  /\ Runs("cores") /\ pc = "done"
  /\ ips = <<>>
  /\ made' = "error"
  /\ life' = "stop"
  /\ UNCHANGED <<vars, process, doomed, dma, memoryBlocksMapped, pinned, paths, programVars>>

CoresDone ==
  /\ Runs("cores") /\ pc = "done"
  /\ ips # <<>>
  /\ life' = "paths"
  /\ paths' \in 0 .. MaxPaths
  /\ UNCHANGED <<vars, made, process, doomed, dma, memoryBlocksMapped, pinned, programVars>>

PathConnected ==
  /\ Runs("paths") /\ paths > 0
  /\ paths' = paths - 1
  /\ UNCHANGED <<vars, life, made, process, doomed, dma, memoryBlocksMapped, pinned, programVars>>

(* An IP that is unknown, or no streaming node, or cannot be connected.    *)
PathFails ==
  /\ Runs("paths") /\ paths > 0
  /\ made' = "error"
  /\ life' = "stop"
  /\ UNCHANGED <<vars, process, doomed, dma, memoryBlocksMapped, pinned, paths, programVars>>

Made ==
  /\ Runs("paths") /\ paths = 0
  /\ made' = "card"
  /\ life' \in Programs
  /\ UNCHANGED <<vars, process, doomed, dma, memoryBlocksMapped, pinned, paths, programVars>>

(* ---- A program with a card ----------------------------------------------- *)

Using == process = "runs" /\ life \in {"ctrl", "pipe"}

Active(t) == Using /\ (t = "reader" => reader)

useVars == <<made, doomed, dma, paths>>

(* main() leaves the scope of its blocks and, last, of the card.           *)
Unwinds ==
  /\ held' = {}
  /\ life' = "stop"
  /\ UNCHANGED process

(* std::terminate(): nothing is unwound.                                   *)
Terminates ==
  /\ process' = "terminated"
  /\ UNCHANGED <<life, held>>

(* An exception in the reader thread, one in main() that destroys the      *)
(* joinable reader thread, and one that pipe does not catch terminate the  *)
(* process; any other leaves main().                                       *)
Throws(kind) ==
  IF reader \/ (kind = "other" /\ life = "pipe") THEN Terminates ELSE Unwinds

Kinds == {"RuntimeError", "other"}

(* ctrl starts the thread before main() allocates a block.                 *)
StartReader ==
  /\ Using /\ life = "ctrl"
  /\ ~ reader /\ held = {}
  /\ reader' = TRUE
  /\ UNCHANGED <<vars, life, useVars, process, memoryBlocksMapped, pinned, held, mapping, posted>>

Allocate(b) ==
  /\ Using /\ b \notin held
  /\ held' = held \cup {b}
  /\ UNCHANGED <<vars, life, makeVars, reader, mapping, posted>>

(* Dma::makeAccesibleFromVA() and mapMemoryBlock(): the IOMMU maps the     *)
(* block, unless it is accessible already.                                 *)
Pin(t, b) ==
  /\ Active(t) /\ mapping[t] = {}
  /\ b \in held \ pinned
  /\ pinned' = pinned \cup {b}
  /\ mapping' = [mapping EXCEPT ![t] = {b}]
  /\ UNCHANGED <<vars, life, useVars, process, memoryBlocksMapped, held, reader, posted>>

(* createMapping() throws: the block stays pinned, and nobody knows.       *)
CreateMappingThrows(t) ==
  /\ Active(t) /\ mapping[t] # {}
  /\ \E kind \in Kinds : Throws(kind)
  /\ mapping' = [mapping EXCEPT ![t] = {}]
  /\ UNCHANGED <<vars, useVars, memoryBlocksMapped, pinned, reader, posted>>

Racing(t) == \E u \in Threads \ {t} : mapping[u] # {}

(* Variant: the block is not remembered.                                   *)
InsertNothing(t) ==
  /\ Active(t) /\ mapping[t] # {}
  /\ mapping' = [mapping EXCEPT ![t] = {}]
  /\ UNCHANGED <<vars, life, useVars, process, memoryBlocksMapped, pinned, held, reader, posted>>

(* The block is accessible and remembered.  Nothing locks the map: if the  *)
(* other thread is at it too, the entry may get lost or the process die.   *)
Insert(t) ==
  /\ Active(t) /\ mapping[t] # {}
  /\ mapping' = [mapping EXCEPT ![t] = {}]
  /\ \/ process' = process /\ memoryBlocksMapped' = memoryBlocksMapped \cup mapping[t]
     \/ Racing(t) /\ process' \in {"runs", "segv"} /\ UNCHANGED memoryBlocksMapped
  /\ UNCHANGED <<vars, life, useVars, pinned, held, reader, posted>>

(* read() or write() of a block that is accessible                         *)
Post(d, b) ==
  /\ Using
  /\ d \in ToSet(ips) /\ b \in held \cap pinned
  /\ \A t \in Threads : b \notin mapping[t]
  /\ posted' = [posted EXCEPT ![d] = @ \cup {b}]
  /\ UNCHANGED <<vars, life, makeVars, held, reader, mapping>>

(* The end of main(), which does not come while the reader is to be joined *)
Leave ==
  /\ Using /\ ~ reader /\ mapping["main"] = {}
  /\ Unwinds
  /\ UNCHANGED <<vars, useVars, memoryBlocksMapped, pinned, reader, mapping, posted>>

(* An exception of a thread elsewhere, also of mapMemoryBlock() where there*)
(* is no IOMMU or no address left                                          *)
Fails(t) ==
  /\ Active(t) /\ mapping[t] = {}
  /\ \E kind \in Kinds : Throws(kind)
  /\ UNCHANGED <<vars, useVars, memoryBlocksMapped, pinned, reader, mapping, posted>>

(* villasfpga_alloc() registers the block with handle->dma, which nothing  *)
(* ever assigns; the calls that transfer data use it as well.              *)
ApiCall ==
  /\ Runs("api")
  /\ process' = "segv"
  /\ UNCHANGED <<vars, life, useVars, memoryBlocksMapped, pinned, programVars>>

(* villasfpga_init() catches what configCrossBar() throws and returns no   *)
(* handle; the one it created, and the card with it, is leaked.            *)
ApiInitFails ==
  /\ Runs("api")
  /\ life' = "leaked"
  /\ UNCHANGED <<vars, ownVars>>

(* villasfpga_destroy()                                                    *)
ApiDestroy ==
  /\ Runs("api")
  /\ life' = "stop"
  /\ UNCHANGED <<vars, ownVars>>

(* exit(1) in the handler of SIGINT: nothing is unwound.                   *)
ControlC ==
  /\ Using \/ Runs("api")
  /\ process' = "exited"
  /\ UNCHANGED <<vars, life, useVars, memoryBlocksMapped, pinned, programVars>>

(* ---- Destruction ---------------------------------------------------------- *)

(* A plain IP, or a Dma that is still as "new Dma" left it: its xDma is    *)
(* uninitialized memory, where ~Dma() may find pointers to free, and the   *)
(* address of an engine to reset.                                          *)
DestructPlain ==
  /\ Head(doomed) \in Dmas => ~ dma[Head(doomed)].engine
  /\ process' \in {"runs"} \cup IF Head(doomed) \in Dmas THEN {"segv"} ELSE {}
  /\ UNCHANGED <<dma, memoryBlocksMapped, pinned>>

Owned(d) ==
  {Ring(d, side) : side \in (IF dma[d].rx THEN {"rx"} ELSE {}) \cup (IF dma[d].tx THEN {"tx"} ELSE {})}

(* ~Dma(): unmapping a ring that is not listed throws, out of a destructor;*)
(* then reset() locks hwLock.                                              *)
DestructDma ==
  LET d == Head(doomed)
  IN /\ d \in Dmas /\ dma[d].engine
     /\ IF Owned(d) \subseteq memoryBlocksMapped
          THEN /\ Unmap(Owned(d))
               /\ process' = IF dma[d].hwLock THEN "hung" ELSE "runs"
               /\ dma' = [dma EXCEPT ![d] = NewDma]
          ELSE /\ process' = "terminated"
               /\ UNCHANGED <<dma, memoryBlocksMapped, pinned>>

Destruct ==
  /\ Runs("unwind") \/ Runs("clear")
  /\ doomed # <<>>
  /\ DestructPlain \/ DestructDma
  /\ doomed' = Tail(doomed)
  /\ UNCHANGED <<vars, life, made, paths, programVars>>

Unwound ==
  /\ Runs("unwind") /\ doomed = <<>>
  /\ life' = "stop"
  /\ UNCHANGED <<vars, ownVars>>

(* Variant: ~Card() leaves its IPs to the member's destructor, after it    *)
(* has unmapped the memory.                                                *)
StopLeavesIps ==
  /\ Runs("stop")
  /\ life' = "clear"
  /\ doomed' = ips
  /\ Unmap(memoryBlocksMapped)
  /\ UNCHANGED <<vars, made, process, dma, paths, programVars>>

(* ~Card(): stop() of all IPs, whatever it returns, then ips.clear()       *)
Stop ==
  /\ Runs("stop")
  /\ life' = "clear"
  /\ doomed' = ips
  /\ UNCHANGED <<vars, made, process, dma, memoryBlocksMapped, pinned, paths, programVars>>

(* The loop over memoryBlocksMapped, which then is destructed.             *)
UnmapRest ==
  /\ Runs("clear") /\ doomed = <<>>
  /\ Unmap(memoryBlocksMapped)
  /\ life' = "gone"
  /\ UNCHANGED <<vars, made, process, doomed, dma, paths, programVars>>

(* The factory and the destructors go on by themselves.                    *)
Machinery ==
  \/ NotFound \/ Found
  \/ CoreStep \/ CoreCrash \/ CoreConfigError
  \/ OtherInit \/ OtherInitError \/ DmaInit \/ DmaInitError
  \/ NoIPs \/ CoresDone
  \/ PathConnected \/ PathFails \/ Made
  \/ Destruct \/ Unwound \/ Stop \/ UnmapRest

UserStep ==
  \/ StartReader
  \/ \E b \in UserBlocks : Allocate(b) \/ (\E d \in Dmas : Post(d, b))
  \/ \E t \in Threads :
       \/ \E b \in UserBlocks : Pin(t, b)
       \/ CreateMappingThrows(t) \/ Insert(t) \/ Fails(t)
  \/ Leave \/ ApiCall \/ ApiInitFails \/ ApiDestroy \/ ControlC

CardNext == Machinery \/ UserStep

CardSpec == CardInit /\ [][CardNext]_<<vars, cardVars>>

CardFairSpec == CardSpec /\ WF_<<vars, cardVars>>(Machinery)

-----------------------------------------------------------------------------
(* The types of the card's variables, and those of CoreFactory.            *)
CardTypeOK ==
  /\ TypeOK
  /\ life \in {"find", "cores", "paths", "ctrl", "pipe", "api", "leaked",
               "unwind", "stop", "clear", "gone"}
  /\ made \in {"none", "card", "null", "error"}
  /\ process \in {"runs", "exited", "segv", "hung", "terminated"}
  /\ doomed \in Seq(IPs)
  /\ dma \in [Dmas -> DmaState]
  /\ memoryBlocksMapped \subseteq Rings \cup UserBlocks
  /\ pinned \subseteq Rings \cup UserBlocks
  /\ held \subseteq UserBlocks
  /\ paths \in 0 .. MaxPaths
  /\ reader \in BOOLEAN
  /\ mapping \in [Threads -> SUBSET UserBlocks]
  /\ posted \in [Dmas -> SUBSET UserBlocks]

(* An engine never writes to memory that is gone: until ~Dma() has reset   *)
(* it, each block of the program that it was handed is mapped by the IOMMU,*)
(* and kept alive by the program or by the card's list ("Ensure IP         *)
(* destructors are called before memory is unmapped", card.cpp:22).        *)
NoStrayDma ==
  \A d \in Dmas :
    dma[d].engine => posted[d] \subseteq pinned \cap (held \cup memoryBlocksMapped)

(* Whichever way a program lets go of a card that came up, ~Card() neither *)
(* blocks in the lock of an engine nor throws.                             *)
CleanTeardown ==
  made = "card" /\ life \in {"stop", "clear", "gone"} => process = "runs"


(* "If something goes wrong with initialization, the shared_ptr will take  *)
(* care to desctruct the Core again" (core.cpp:113): a failed              *)
(* initialization ends neither in a deadlock nor in the termination of the *)
(* process, but in the exception that reports it.                          *)
FailedCoreDestructed == pc = "failed" => process \notin {"hung", "terminated"}
=============================================================================
