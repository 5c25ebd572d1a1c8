-------------------------------- MODULE Flash --------------------------------
(***************************************************************************)
(* The flash memory that configures the FPGA, as EMC::flash() of           *)
(* lib/ips/emc.cpp programs it: reset, unlock, erase whole blocks, write,  *)
(* read back and compare.                                                  *)
(*                                                                         *)
(* The flash library is external.  A call that fails has done any part of  *)
(* its work, a programmed cell may hold something else although the call   *)
(* succeeds, and the process may die in any call; the flash keeps its      *)
(* contents.                                                               *)
(***************************************************************************)
EXTENDS Integers, Sequences, FiniteSets

CONSTANTS
  FlashBlocks, BlockSize,  \* the geometry: blocks, and the cells of each
  Images,                  \* the contents of files to program
  Locking,                 \* the library has the Intel command set: a subset of BOOLEAN
  MaxFlashes               \* a bound for model checking: calls of flash()

ASSUME FlashAssumption ==
  /\ FlashBlocks \in Nat \ {0} /\ BlockSize \in Nat \ {0}
  /\ \A file \in Images : file \in Seq({file[i] : i \in DOMAIN file}) \ {<<>>}
  /\ Locking \subseteq BOOLEAN
  /\ MaxFlashes \in Nat

Cells == 0 .. FlashBlocks * BlockSize - 1
Block(c) == c \div BlockSize
AllBlocks == 0 .. FlashBlocks - 1

(* What a file that cannot be opened amounts to: tellg() returns -1, which *)
(* as a uint32_t is a length far beyond the flash.                         *)
NoFile == <<"no file">>

VARIABLES
  locking,   \* the command set is one of Intel's
  flashStep, \* what flash() does next
  offset, image,  \* its arguments
  cells,     \* the contents of the flash
  locked,    \* the blocks that are locked
  flashed,   \* what the last call returned, or "none"
  flashes,   \* calls so far
  promised   \* for the properties: what a cell has to hold, or "open"

callVars == <<offset, image>>
flashVars == <<locking, flashStep, callVars, cells, locked, flashed, flashes, promised>>

FlashInit(lock) ==
  /\ locking \in lock
  /\ flashStep = "idle"
  /\ offset = 0 /\ image = <<>>
  /\ cells = [c \in Cells |-> "old"]
  /\ locked = IF locking THEN AllBlocks ELSE {}
  /\ flashed = "none"
  /\ flashes = 0
  /\ promised = cells

(* The cells that a call is for, the blocks of those that exist, and       *)
(* whether all of them do                                                  *)
Extent == IF image = NoFile THEN Cells ELSE offset .. offset + Len(image) - 1
Touched == {Block(c) : c \in Extent \cap Cells}
Fits == image # NoFile /\ Extent \subseteq Cells

Return(result) ==
  /\ flashStep' = "idle"
  /\ flashed' = result

(* A library call succeeds, and flash() goes on.                           *)
GoOn(step) == flashStep' = step /\ UNCHANGED flashed

(* It fails, or the process dies in it.                                    *)
Fails == Return("false") \/ Return("none")

(* flash(offset, filename) has read the file and calls the other flash().  *)
BeginFlash ==
  /\ flashStep = "idle" /\ flashes < MaxFlashes
  /\ flashes' = flashes + 1
  /\ offset' \in Cells
  /\ image' \in Images \cup {NoFile}
  /\ GoOn("reset")
  /\ UNCHANGED <<locking, cells, locked, promised>>

Reset ==
  /\ flashStep = "reset"
  /\ GoOn(IF locking THEN "unlock" ELSE "erase") \/ Fails
  /\ UNCHANGED <<locking, callVars, cells, locked, flashes, promised>>

(* XFlash_Unlock(offset, 0): the block of the offset, if not others        *)
Unlock ==
  /\ flashStep = "unlock"
  /\ \E blocks \in SUBSET locked :
       /\ locked' = locked \ blocks
       /\ \/ Block(offset) \notin locked' /\ GoOn("erase")
          \/ Fails
  /\ UNCHANGED <<locking, callVars, cells, flashes, promised>>

(* XFlash_Erase(): the blocks of the range, unless one of them is locked   *)
Erase ==
  /\ flashStep = "erase"
  /\ \E erased \in SUBSET (Touched \ locked) :
       /\ cells' = [c \in Cells |-> IF Block(c) \in erased THEN "erased" ELSE cells[c]]
       /\ \/ Fits /\ erased = Touched /\ GoOn("write")
          \/ Fails
  /\ promised' = [c \in Cells |-> IF Block(c) \in Touched THEN "open" ELSE promised[c]]
  /\ UNCHANGED <<locking, callVars, locked, flashes>>

(* XFlash_Write(): cells may get a wrong value.                            *)
Write ==
  /\ flashStep = "write"
  /\ \E written \in SUBSET Extent, wrong \in SUBSET Extent :
       /\ cells' = [c \in Cells |-> IF c \in wrong THEN "wrong"
                                    ELSE IF c \in written THEN image[c - offset + 1] ELSE cells[c]]
       /\ \/ written = Extent /\ GoOn("verify")
          \/ Fails
  /\ UNCHANGED <<locking, callVars, locked, flashes, promised>>

(* Variant: the last cell is not compared.                                 *)
MatchesShort == \A i \in 1 .. Len(image) - 1 : cells[offset + i - 1] = image[i]

Matches == \A i \in DOMAIN image : cells[offset + i - 1] = image[i]

(* XFlash_Read() and the comparison                                        *)
Verify ==
  /\ flashStep = "verify"
  /\ \/ /\ Return(IF Matches THEN "true" ELSE "false")
        /\ promised' = IF flashed' = "true"
                         THEN [c \in Cells |-> IF c \in Extent THEN image[c - offset + 1] ELSE promised[c]]
                         ELSE promised
     \/ Fails /\ UNCHANGED promised
  /\ UNCHANGED <<locking, callVars, cells, locked, flashes>>

(* read() resets the flash and reads; it returns false also on success.    *)
Read ==
  /\ flashStep = "idle"
  /\ Return("false")
  /\ UNCHANGED <<locking, callVars, cells, locked, flashes, promised>>

FlashNext ==
  BeginFlash \/ Reset \/ Unlock \/ Erase \/ Write \/ Verify \/ Read

FlashSpec == FlashInit(Locking) /\ [][FlashNext]_flashVars

-----------------------------------------------------------------------------
(* What flash() has reported as programmed stays in the flash, and so does *)
(* what was there before, until another call begins to erase a block of    *)
(* it: through failures, wrong cells, dead processes and calls for ranges  *)
(* that share nothing but the block size with it.                          *)
FlashHonest == \A c \in Cells : promised[c] \in {"open", cells[c]}
=============================================================================
