----------------------------- MODULE AxisSwitch ------------------------------
(***************************************************************************)
(* The AXI stream switch: its driver (lib/ips/switch.cpp), the routing     *)
(* through it that Node::connect() finds (lib/node.cpp), and the connect   *)
(* strings of the command line (lib/utils.cpp) that ask for links.         *)
(*                                                                         *)
(* In every hardware definition the switch is the centre of a star: each   *)
(* endpoint's master port is wired to one slave port of the switch and its *)
(* slave port to one master port, so both ports of the switch are named by *)
(* the endpoint.  The Dino board is one endpoint: its ADC is the master    *)
(* and its DAC the slave.                                                  *)
(*                                                                         *)
(* The process may die at any point; the registers of the switch keep      *)
(* their values until the next process initializes it.                     *)
(***************************************************************************)
EXTENDS Sequences

CONSTANTS
  Channels,      (* the Aurora channels that getAuroraChannels() collects    *)
  PortNumbers,   (* the port numbers that portStringToInt() accepts          *)
  Wired,         (* the endpoints that the hardware definition wires up      *)
  Disabled       (* PORT_DISABLED, and the disable bit of a mux register     *)

Others == {"dma", "dino"}
Endpoint == Channels \cup Others

ASSUME SwitchAssumption ==
  /\ Channels \subseteq PortNumbers
  /\ PortNumbers \cap Others = {}
  /\ Wired \subseteq Endpoint
  /\ Disabled \notin Endpoint

VARIABLES
  mux,           \* the mux registers as last committed: what the switch does
  staged,        \* the mux registers as last written
  portMapping,   \* the driver's copy, for each master port
  pc,            \* where the process is
  todo,          \* the links that the running request has still to set up
  victim,        \* the master port that is being disabled
  request        \* the last request since the process started

vars == <<mux, staged, portMapping, pc, todo, victim, request>>

Setting == [Wired -> Wired \cup {Disabled}]
AllDisabled == [m \in Wired |-> Disabled]

Link == [slave : Wired, master : Wired]

Request == [src : Endpoint, dst : Endpoint, bidirectional : BOOLEAN]
NoRequest == [src |-> Disabled, dst |-> Disabled, bidirectional |-> FALSE]

-----------------------------------------------------------------------------
(* The FPGA was just configured, and no process runs.                      *)
Init ==
  /\ mux = AllDisabled
  /\ staged = AllDisabled
  /\ portMapping = AllDisabled
  /\ pc = "down"
  /\ todo = <<>>
  /\ victim = Disabled
  /\ request = NoRequest

(* ---- AxiStreamSwitch::init() ------------------------------------------- *)

(* Variant: the mux registers are left as they are.                        *)
StartKeeping ==
  /\ pc = "down"
  /\ pc' = "init"
  /\ UNCHANGED <<mux, staged, portMapping, todo, victim, request>>

(* RegUpdateDisable and MiPortDisableAll                                   *)
Start ==
  /\ pc = "down"
  /\ staged' = AllDisabled
  /\ pc' = "init"
  /\ UNCHANGED <<mux, portMapping, todo, victim, request>>

(* RegUpdateEnable, and the driver's copy                                  *)
Started ==
  /\ pc = "init"
  /\ mux' = staged
  /\ portMapping' = AllDisabled
  /\ pc' = "idle"
  /\ UNCHANGED <<staged, todo, victim, request>>

(* The process is killed, by Ctrl-C or by an exception.                    *)
Die ==
  /\ pc # "down"
  /\ portMapping' = AllDisabled
  /\ pc' = "down"
  /\ todo' = <<>>
  /\ victim' = Disabled
  /\ request' = NoRequest
  /\ UNCHANGED <<mux, staged>>

(* ---- ConnectString::configCrossBar(), Node::connect() ------------------ *)

(* The calls of Node::connect() for "src->dst" or for "src<->dst", in      *)
(* their order; "loopback" is dma->dma, and so is the connectLoopback() of *)
(* a memcpy.  A path exists between endpoints that are wired to the switch,*)
(* in both directions; configCrossBar() ignores that there is none.        *)
Links(src, dst, bidirectional) ==
  LET there == [slave |-> src, master |-> dst]
      back  == [slave |-> dst, master |-> src]
  IN IF ~ {src, dst} \subseteq Wired THEN <<>>
     ELSE IF bidirectional THEN <<there, back>> ELSE <<there>>

Configure(src, dst, bidirectional) ==
  /\ pc = "idle"
  /\ todo' = Links(src, dst, bidirectional)
  /\ request' = [src |-> src, dst |-> dst, bidirectional |-> bidirectional]
  /\ pc' = IF todo' = <<>> THEN "idle" ELSE "connect"
  /\ UNCHANGED <<mux, staged, portMapping, victim>>

(* The vector of the channels is indexed with the number of the port,      *)
(* whatever its size.                                                      *)
ConfigureUnknown ==
  /\ pc = "idle"
  /\ PortNumbers # Channels
  /\ pc' = "undefined"
  /\ UNCHANGED <<mux, staged, portMapping, todo, victim, request>>

(* ---- AxiStreamSwitch::connectInternal() -------------------------------- *)

Slave == Head(todo).slave
Master == Head(todo).master

(* Variant: the last link is taken for one of several.                     *)
ConnectedNotLast ==
  /\ todo' = Tail(todo)
  /\ pc' = "connect"

Connected ==
  /\ todo' = Tail(todo)
  /\ pc' = IF Tail(todo) = <<>> THEN "idle" ELSE "connect"

(* Variant: a slave that feeds any master counts as connected.             *)
AlreadyConnectedElsewhere ==
  /\ pc = "connect"
  /\ \E m \in Wired : portMapping[m] = Slave
  /\ Connected
  /\ UNCHANGED <<mux, staged, portMapping, victim, request>>

AlreadyConnected ==
  /\ pc = "connect"
  /\ portMapping[Master] = Slave
  /\ Connected
  /\ UNCHANGED <<mux, staged, portMapping, victim, request>>

Reconfigure ==
  /\ pc = "connect"
  /\ portMapping[Master] # Slave
  /\ pc' = "scan"
  /\ UNCHANGED <<mux, staged, portMapping, todo, victim, request>>

(* Variant: MiPortDisableAll instead of MiPortDisable.                     *)
StageDisableAll(m) ==
  /\ pc = "scan"
  /\ portMapping[m] = Slave
  /\ staged' = AllDisabled
  /\ victim' = m
  /\ pc' = "disable"
  /\ UNCHANGED <<mux, portMapping, todo, request>>

(* A master that the slave feeds already: RegUpdateDisable, MiPortDisable  *)
StageDisable(m) ==
  /\ pc = "scan"
  /\ portMapping[m] = Slave
  /\ staged' = [staged EXCEPT ![m] = Disabled]
  /\ victim' = m
  /\ pc' = "disable"
  /\ UNCHANGED <<mux, portMapping, todo, request>>

(* RegUpdateEnable, and the driver's copy                                  *)
CommitDisable ==
  /\ pc = "disable"
  /\ mux' = staged
  /\ portMapping' = [portMapping EXCEPT ![victim] = Disabled]
  /\ victim' = Disabled
  /\ pc' = "scan"
  /\ UNCHANGED <<staged, todo, request>>

(* Variant: the masters that the slave feeds already are left enabled.     *)
StageEnableAtOnce ==
  /\ pc = "scan"
  /\ staged' = [staged EXCEPT ![Master] = Slave]
  /\ pc' = "enable"
  /\ UNCHANGED <<mux, portMapping, todo, victim, request>>

(* RegUpdateDisable, MiPortEnable                                          *)
StageEnable ==
  /\ pc = "scan"
  /\ \A m \in Wired : portMapping[m] # Slave
  /\ staged' = [staged EXCEPT ![Master] = Slave]
  /\ pc' = "enable"
  /\ UNCHANGED <<mux, portMapping, todo, victim, request>>

(* RegUpdateEnable, and the driver's copy                                  *)
CommitEnable ==
  /\ pc = "enable"
  /\ mux' = staged
  /\ portMapping' = [portMapping EXCEPT ![Master] = Slave]
  /\ Connected
  /\ UNCHANGED <<staged, victim, request>>

Next ==
  \/ Start
  \/ Started
  \/ Die
  \/ \E src, dst \in Endpoint, bidirectional \in BOOLEAN :
       Configure(src, dst, bidirectional)
  \/ ConfigureUnknown
  \/ AlreadyConnected
  \/ Reconfigure
  \/ \E m \in Wired : StageDisable(m)
  \/ CommitDisable
  \/ StageEnable
  \/ CommitEnable

Spec == Init /\ [][Next]_vars

-----------------------------------------------------------------------------
(* The types, and what the control points imply about the locals.          *)
TypeOK ==
  /\ {mux, staged, portMapping} \subseteq Setting
  /\ pc \in {"down", "init", "idle", "undefined", "connect", "scan", "disable", "enable"}
  /\ todo \in Seq(Link)
  /\ pc \in {"connect", "scan", "disable", "enable"} => todo # <<>>
  /\ victim \in Wired \cup {Disabled}
  /\ pc = "disable" => victim # Disabled
  /\ request \in Request \cup {NoRequest}

(* The driver's copy, on which it bases all its decisions, is what the     *)
(* hardware does, whenever the driver looks at it: in particular in the    *)
(* first call after a restart, when the registers still hold the settings  *)
(* of a process that died half-way through a reconfiguration.              *)
ShadowExact ==
  pc \in {"idle", "connect", "scan"} => portMapping = mux /\ staged = mux

(* What was asked for is routed when configCrossBar() returns; in a        *)
(* bidirectional request the second direction does not take down the first.*)
RequestServed ==
  pc = "idle" /\ {request.src, request.dst} \subseteq Wired =>
    /\ mux[request.dst] = request.src
    /\ request.bidirectional => mux[request.src] = request.dst

(* A link is only ever taken down by a request that needs one of its ends. *)
(* A new process takes down all.                                           *)
OthersUndisturbed ==
  [][\A m \in Wired :
       mux[m] # Disabled /\ mux'[m] # mux[m] =>
         \/ pc = "init"
         \/ pc \in {"disable", "enable"} /\ (m = Master \/ mux[m] = Slave)]_vars

(* The promise: no stream is duplicated, not even for a moment.            *)
Abstract == INSTANCE Crossbar WITH Ins <- Wired, Outs <- Wired, route <- mux
ImplementsCrossbar == Abstract!Spec
=============================================================================
