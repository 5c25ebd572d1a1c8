------------------------------ MODULE Registers ------------------------------
(***************************************************************************)
(* The register interface of the Dino boards, lib/ips/register.cpp: its    *)
(* check() writes a pattern, reads it back, resets the registers and sets  *)
(* the rate, the scale and the offset, and a user changes them later.      *)
(*                                                                         *)
(* The faults that such a check is for are of the hardware: two addresses  *)
(* that lead to one cell, and a cell that does not change.  The bits of the*)
(* reset register may go through the same decoding, or to any cells.       *)
(***************************************************************************)
EXTENDS Integers

CONSTANTS
  registerNum,   (* how many there are                                       *)
  MaxUses        (* a bound for model checking: calls of a user              *)

ASSUME RegistersAssumption == registerNum \in Nat /\ registerNum > 2 /\ MaxUses \in Nat

Regs == 0 .. registerNum - 1

(* The values that differ from the pattern: rate, scale and offset, which  *)
(* check() configures, and what a user sets                                *)
Configured(r) == registerNum + r
UserValue == registerNum + 3

VARIABLES
  decode,    \* the cell that an address leads to
  stuck,     \* the cells that keep what they hold
  sharedReset, \* the reset bit of a register clears the cell of its address
  held,      \* the contents of the cells
  checkStep, \* what check() does next
  nextReg,   \* the register it has come to
  checked,   \* what check() returned, or "running"
  uses,      \* calls of a user so far
  set,       \* for the properties: what a register was last set to,
  fresh,     \* and those that were set since the last reset
  rangeError \* the last call of a user threw out_of_range

faultVars == <<decode, stuck, sharedReset>>
registersVars == <<faultVars, held, checkStep, nextReg, checked, uses, set, fresh, rangeError>>

Sound == <<[r \in Regs |-> r], {}, [c \in Regs |-> 0], TRUE>>

(* Any decoding, and at most one cell that does not change; the registers  *)
(* are as after a reset, or a check() that returned false has left its     *)
(* pattern; and either wiring of the reset bits.                           *)
Interfaces ==
  [Regs -> Regs] \X ({{}} \cup {{c} : c \in Regs}) \X {[c \in Regs |-> 0], [c \in Regs |-> c]}
    \X BOOLEAN

RegistersInit(interfaces) ==
  /\ \E i \in interfaces : decode = i[1] /\ stuck = i[2] /\ held = i[3] /\ sharedReset = i[4]
  /\ checkStep = "write" /\ nextReg = 1
  /\ checked = "running"
  /\ uses = 0
  /\ set = held /\ fresh = {}
  /\ rangeError = FALSE

getRegister(r) == held[decode[r]]

Put(r, value) == held' = IF decode[r] \in stuck THEN held ELSE [held EXCEPT ![decode[r]] = value]

(* A write to the reset register, with the bits of a set of registers:     *)
(* which cells the hardware clears is up to its wiring.                    *)
ResetCells(rs) ==
  /\ \E cells \in IF sharedReset THEN {{decode[r] : r \in rs}} ELSE SUBSET Regs :
       held' = [c \in Regs |-> IF c \in cells \ stuck THEN 0 ELSE held[c]]
  /\ fresh' = {}

(* Variant: each register is read as soon as it is written.                *)
WriteAndRead ==
  /\ checkStep = "write"
  /\ Put(nextReg, nextReg)
  /\ IF held'[decode[nextReg]] # nextReg
       THEN checkStep' = "idle" /\ checked' = "false" /\ UNCHANGED nextReg
       ELSE /\ nextReg' = nextReg + 1
            /\ checkStep' = IF nextReg = registerNum - 1 THEN "reset" ELSE "write"
            /\ UNCHANGED checked
  /\ UNCHANGED <<faultVars, uses, set, fresh, rangeError>>

(* check(): register 0, the rate, is left out of the pattern.              *)
WritePattern ==
  /\ checkStep = "write"
  /\ Put(nextReg, nextReg)
  /\ IF nextReg = registerNum - 1
       THEN checkStep' = "read" /\ nextReg' = 1
       ELSE UNCHANGED checkStep /\ nextReg' = nextReg + 1
  /\ UNCHANGED <<faultVars, checked, uses, set, fresh, rangeError>>

(* A register that reads something else ends it, with the pattern in place.*)
ReadPattern ==
  /\ checkStep = "read"
  /\ IF getRegister(nextReg) # nextReg
       THEN checkStep' = "idle" /\ checked' = "false" /\ UNCHANGED nextReg
       ELSE /\ nextReg' = nextReg + 1
            /\ checkStep' = IF nextReg = registerNum - 1 THEN "reset" ELSE "read"
            /\ UNCHANGED checked
  /\ UNCHANGED <<faultVars, held, uses, set, fresh, rangeError>>

(* All are reset, the rate too; then the first three are set, and what     *)
(* they read is logged but not compared.                                   *)
resetAllRegisters ==
  /\ checkStep = "reset"
  /\ ResetCells(Regs)
  /\ set' = [r \in Regs |-> 0]
  /\ checkStep' = "configure" /\ nextReg' = 0
  /\ UNCHANGED <<faultVars, checked, uses, rangeError>>

Configure ==
  /\ checkStep = "configure"
  /\ Put(nextReg, Configured(nextReg))
  /\ set' = [set EXCEPT ![nextReg] = Configured(nextReg)]
  /\ fresh' = fresh \cup {nextReg}
  /\ IF nextReg = 2 THEN checkStep' = "idle" /\ checked' = "true" ELSE UNCHANGED <<checkStep, checked>>
  /\ nextReg' = nextReg + 1
  /\ UNCHANGED <<faultVars, uses, rangeError>>

(* ---- A user, after a check that returned true ---------------------------- *)

Using == checked = "true" /\ uses < MaxUses /\ uses' = uses + 1

setRegister(r) ==
  /\ Using
  /\ rangeError' = (r \notin Regs)
  /\ IF r \in Regs
       THEN Put(r, UserValue) /\ set' = [set EXCEPT ![r] = UserValue] /\ fresh' = fresh \cup {r}
       ELSE UNCHANGED <<held, set, fresh>>
  /\ UNCHANGED <<faultVars, checkStep, nextReg, checked>>

resetRegister(r) ==
  /\ Using
  /\ rangeError' = (r \notin Regs)
  /\ IF r \in Regs
       THEN ResetCells({r}) /\ set' = [set EXCEPT ![r] = 0]
       ELSE UNCHANGED <<held, set, fresh>>
  /\ UNCHANGED <<faultVars, checkStep, nextReg, checked>>

RegistersNext ==
  \/ WritePattern \/ ReadPattern \/ resetAllRegisters \/ Configure
  \/ \E r \in 0 .. registerNum : setRegister(r) \/ resetRegister(r)

RegistersSpec == RegistersInit(Interfaces) /\ [][RegistersNext]_registersVars

-----------------------------------------------------------------------------
(* What check() may be relied on for: if it returned true, no two of the   *)
(* registers that it tests share a cell, and so each register that has a   *)
(* cell of its own, that changes, reads what it was last set to, however   *)
(* the others are used.  A register other than the rate is without a cell  *)
(* of its own only because of the rate, which check() does not test.  What *)
(* a reset did is known only where its bits go through the same decoding:  *)
(* check() does not test them either.                                      *)
RegistersHonest ==
  checked = "true" =>
    \A r \in Regs \ {0} :
      decode[r] \notin stuck \cup {decode[0]} /\ (sharedReset \/ r \in fresh) =>
        getRegister(r) = set[r]
=============================================================================
