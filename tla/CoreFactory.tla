----------------------------- MODULE CoreFactory -----------------------------
(***************************************************************************)
(* CoreFactory::make(), lib/core.cpp: the IPs of a hardware definition are *)
(* put in the order of their initialization, configured one by one, and    *)
(* then initialized one by one, each with what the ones before it offer:   *)
(* an interrupt controller that is configured, an I2C master that is       *)
(* initialized.                                                            *)
(***************************************************************************)
EXTENDS Identifiers

CONSTANTS
  IPs, NoIp,
  VlnvOf,         (* per IP, its VLNV                                        *)
  IrqOf,          (* per IP, the controller its "irqs" name, or NoIp         *)
  I2cUsers,       (* the IPs whose init() looks for an I2C master            *)
  InitFirst,      (* vlnvInitializationOrder                                 *)
  I2cVlnv,        (* "xilinx.com:ip:axi_iic:", see Dino::init()              *)
  BridgeVlnv,     (* "xilinx.com:ip:axi_pcie:", see AxiPciExpressBridge      *)
  MemoryMapped,   (* the IPs with memory blocks, see getMemoryBlocks()       *)
  Factories,      (* the sequence of the VLNVs that factories handle         *)
  Configs         (* the sequences of IPs that hardware definitions list     *)

ASSUME FactoryAssumption ==
  /\ NoIp \notin IPs
  /\ IrqOf \in [IPs -> IPs \cup {NoIp}]
  /\ I2cUsers \subseteq IPs
  /\ MemoryMapped \subseteq IPs
  /\ InitFirst \in Seq(ToSet(InitFirst)) /\ InitFirst # <<>>
  /\ \A c \in Configs : c \in Seq(IPs) /\ IsInjective(c)

VARIABLES
  config,        \* the hardware definition
  pc,
  vi,            \* the position in InitFirst, from its end to its front
  it,            \* the position in allIps; one behind the last is end()
  allIps, orderedIps,
  configuredIps,
  irqs,          \* per configured IP, the controller it found, or NoIp
  ips            \* the IPs of the card

vars == <<config, pc, vi, it, allIps, orderedIps, configuredIps, irqs, ips>>

Init ==
  /\ config \in Configs
  /\ pc = "order"
  /\ vi = Len(InitFirst)
  /\ it = 1
  /\ allIps = config
  /\ orderedIps = <<>>
  /\ configuredIps = <<>>
  /\ irqs = [ip \in IPs |-> NoIp]
  /\ ips = <<>>

(* ---- The order of initialization ---------------------------------------- *)

Matches(ip) == VlnvEq(InitFirst[vi], VlnvOf[ip])

(* "it = allIps.erase(it)", then "++it", which skips the successor.  If    *)
(* the last element was erased, it increments end(): the list is circular, *)
(* and the walk starts again at its front.                                 *)
AfterErase(len) == IF it <= len THEN it + 1 ELSE 1

(* Variant: push_back.                                                     *)
PickToBack ==
  /\ pc = "order" /\ it <= Len(allIps)
  /\ Matches(allIps[it])
  /\ orderedIps' = Append(orderedIps, allIps[it])
  /\ allIps' = RemoveAt(allIps, it)
  /\ it' = AfterErase(Len(allIps) - 1)
  /\ UNCHANGED <<config, pc, vi, configuredIps, irqs, ips>>

(* Variant: nothing is erased.                                             *)
PickTwice ==
  /\ pc = "order" /\ it <= Len(allIps)
  /\ Matches(allIps[it])
  /\ orderedIps' = <<allIps[it]>> \o orderedIps
  /\ it' = it + 1
  /\ UNCHANGED <<config, pc, vi, allIps, configuredIps, irqs, ips>>

Pick ==
  /\ pc = "order" /\ it <= Len(allIps)
  /\ Matches(allIps[it])
  /\ orderedIps' = <<allIps[it]>> \o orderedIps
  /\ allIps' = RemoveAt(allIps, it)
  /\ it' = AfterErase(Len(allIps) - 1)
  /\ UNCHANGED <<config, pc, vi, configuredIps, irqs, ips>>

Skip ==
  /\ pc = "order" /\ it <= Len(allIps)
  /\ ~ Matches(allIps[it])
  /\ it' = it + 1
  /\ UNCHANGED <<config, pc, vi, allIps, orderedIps, configuredIps, irqs, ips>>


(* end(): the next VLNV                                                    *)
NextVlnv ==
  /\ pc = "order" /\ it = Len(allIps) + 1
  /\ vi > 1
  /\ vi' = vi - 1
  /\ it' = 1
  /\ UNCHANGED <<config, pc, allIps, orderedIps, configuredIps, irqs, ips>>

(* Variant: the others are spliced in at the front.                        *)
SpliceFront ==
  /\ pc = "order" /\ it = Len(allIps) + 1
  /\ vi = 1
  /\ orderedIps' = allIps \o orderedIps
  /\ allIps' = <<>>
  /\ pc' = "configure"
  /\ it' = 1
  /\ UNCHANGED <<config, vi, configuredIps, irqs, ips>>

(* "Insert all other IPs at the end"; it now walks orderedIps.             *)
Splice ==
  /\ pc = "order" /\ it = Len(allIps) + 1
  /\ vi = 1
  /\ orderedIps' = orderedIps \o allIps
  /\ allIps' = <<>>
  /\ pc' = "configure"
  /\ it' = 1
  /\ UNCHANGED <<config, vi, configuredIps, irqs, ips>>

(* ---- Configuration ------------------------------------------------------- *)

Configuring == pc = "configure" /\ it <= Len(orderedIps)

Supported == {ip \in IPs : lookupFactory(Factories, VlnvOf[ip]) # 0}

(* "No plugin found": the IP is left out.                                  *)
Unsupported ==
  /\ Configuring
  /\ orderedIps[it] \notin Supported
  /\ it' = it + 1
  /\ UNCHANGED <<config, pc, vi, allIps, orderedIps, configuredIps, irqs, ips>>

(* A controller that is not configured yet is only complained about.       *)
Configure ==
  /\ Configuring
  /\ orderedIps[it] \in Supported
  /\ LET ip == orderedIps[it]
     IN irqs' = [irqs EXCEPT ![ip] = IF IrqOf[ip] \in ToSet(configuredIps) THEN IrqOf[ip]
                                     ELSE NoIp]
  /\ configuredIps' = Append(configuredIps, orderedIps[it])
  /\ it' = it + 1
  /\ UNCHANGED <<config, pc, vi, allIps, orderedIps, ips>>

(* Errors in the definition are exceptions.                                *)
ConfigError ==
  /\ Configuring
  /\ orderedIps[it] \in Supported
  /\ pc' = "failed"
  /\ UNCHANGED <<config, vi, it, allIps, orderedIps, configuredIps, irqs, ips>>

Configured ==
  /\ pc = "configure" /\ it = Len(orderedIps) + 1
  /\ pc' = "init"
  /\ it' = 1
  /\ UNCHANGED <<config, vi, allIps, orderedIps, configuredIps, irqs, ips>>

(* ---- Initialization ------------------------------------------------------ *)

Initializing == pc = "init" /\ it <= Len(configuredIps)

(* init() of an IP with an interrupt calls irqs[...].irqController, which  *)
(* is a null pointer where none was found.                                 *)
NullController(ip) == IrqOf[ip] # NoIp /\ irqs[ip] = NoIp

Ids(list) == [i \in DOMAIN list |-> [vlnv |-> VlnvOf[list[i]], name |-> list[i]]]

Offered(vlnv) == lookupByVlnv(Ids(ips), vlnv) # 0

NoI2c(ip) == ip \in I2cUsers /\ ~ Offered(I2cVlnv)

(* The memory blocks of an IP are translated before its init(); it is the  *)
(* bridge that connects the process to the card's address space.           *)
NoTranslation(ip) == ip \in MemoryMapped /\ ~ Offered(BridgeVlnv)

Crash ==
  /\ Initializing
  /\ ~ NoTranslation(configuredIps[it]) /\ NullController(configuredIps[it])
  /\ pc' = "crashed"
  /\ UNCHANGED <<config, vi, it, allIps, orderedIps, configuredIps, irqs, ips>>

Initialize ==
  /\ Initializing
  /\ ~ NoTranslation(configuredIps[it])
  /\ ~ NullController(configuredIps[it]) /\ ~ NoI2c(configuredIps[it])
  /\ ips' = Append(ips, configuredIps[it])
  /\ it' = it + 1
  /\ UNCHANGED <<config, pc, vi, allIps, orderedIps, configuredIps, irqs>>

(* init() or check() fails, or throws, or a block has no translation.      *)
InitError ==
  /\ Initializing
  /\ pc' = "failed"
  /\ UNCHANGED <<config, vi, it, allIps, orderedIps, configuredIps, irqs, ips>>

Initialized ==
  /\ pc = "init" /\ it = Len(configuredIps) + 1
  /\ pc' = "done"
  /\ UNCHANGED <<config, vi, it, allIps, orderedIps, configuredIps, irqs, ips>>

Next ==
  \/ Pick \/ Skip \/ NextVlnv \/ Splice
  \/ Unsupported \/ Configure \/ ConfigError \/ Configured
  \/ Crash \/ Initialize \/ InitError \/ Initialized

-----------------------------------------------------------------------------
(* The position and the lists stay within their bounds, also where the     *)
(* iterator runs over the end of the list.                                 *)
TypeOK ==
  /\ pc \in {"order", "configure", "init", "done", "failed", "crashed"}
  /\ vi \in 1 .. Len(InitFirst)
  /\ it \in 1 .. Len(config) + 1
  /\ pc = "order" => it <= Len(allIps) + 1
  /\ {allIps, orderedIps, configuredIps, ips} \subseteq Seq(IPs)
  /\ irqs \in [IPs -> IPs \cup {NoIp}]

(* The entries of InitFirst that are meant for an IP                       *)
Rank == [ip \in IPs |-> {r \in DOMAIN InitFirst : VlnvEq(InitFirst[r], VlnvOf[ip])}]

(* "Will be initialized in the same order as they appear in this list"     *)
(* (core.cpp:29): the IPs of the list first, in its order, then all others.*)
InitializedInOrder ==
  pc # "order" =>
    \A i, j \in DOMAIN orderedIps :
      \A r \in Rank[orderedIps[j]] :
        i < j => \E q \in Rank[orderedIps[i]] : q <= r

(* So it is if each entry is meant for one IP of the definition at most,   *)
(* and each IP by one entry, whatever the order of the definition, although*)
(* the walk skips an IP for each one it picks.                             *)
SinglesInOrder ==
  (\A i, j \in DOMAIN config :
     \A q \in Rank[config[i]], r \in Rank[config[j]] : q = r <=> i = j)
    => InitializedInOrder

(* An IP that the definition lists, that has a factory, and an entry of    *)
(* InitFirst to itself, in front of any that is meant for the other one    *)
ComesBefore(x, ip) ==
  /\ x \in ToSet(config) \cap Supported
  /\ \E r \in Rank[x] :
       /\ Rank[x] = {r}
       /\ \A y \in ToSet(config) : r \in Rank[y] => y = x
       /\ \A q \in Rank[ip] : q > r

SameOrder(s, o) ==
  \A i, j \in DOMAIN s, k, l \in DOMAIN o : i < j /\ s[i] = o[k] /\ s[j] = o[l] => k < l

(* The walk that erases from the list it walks over loses no IP and takes  *)
(* none twice; after a success the card holds all that are supported, in   *)
(* order.  And what an IP needs of others when it is initialized is there  *)
(* if the list of the order puts it first: its interrupt controller, an    *)
(* I2C master, and the bridge through which its registers are reached.     *)
DependenciesMet ==
  LET OneBefore(vlnv, ip) == \E x \in IPs : VlnvEq(VlnvOf[x], vlnv) /\ ComesBefore(x, ip)
  IN /\ IsInjective(orderedIps \o allIps) /\ ToSet(orderedIps \o allIps) = ToSet(config)
     /\ pc = "done" => /\ ToSet(ips) = ToSet(orderedIps) \cap Supported
                       /\ SameOrder(ips, orderedIps)
     /\ Initializing =>
          LET ip == configuredIps[it]
          IN /\ NullController(ip) => ~ ComesBefore(IrqOf[ip], ip)
             /\ NoI2c(ip) => ~ OneBefore(I2cVlnv, ip)
             /\ NoTranslation(ip) => ~ OneBefore(BridgeVlnv, ip)
=============================================================================
