------------------------------- MODULE Routing -------------------------------
(***************************************************************************)
(* From a configuration file to routed streams: setupFpgaCard() and the    *)
(* ConnectString of lib/utils.cpp, the ports and paths of lib/node.cpp,    *)
(* and main() of villas-fpga-ctrl and of villas-fpga-pipe up to where they *)
(* begin to stream.                                                        *)
(*                                                                         *)
(* The ports of the IPs of all cards are vertices of one static graph,     *)
(* named by instance and port.  A vertex is <<instance, port, isMaster>>,  *)
(* an IP a record of its name, its vlnv and its ports, a port in turn one  *)
(* of its name, isMaster and the target <<instance, port>>.                *)
(***************************************************************************)
EXTENDS Identifiers, Integers

CONSTANTS
  Configurations,  (* of "fpgas": sequences of [name, interface, ips]        *)
  FpgaName,        (* the card that the program asks for                     *)
  ConnectLists,    (* the sequences of connect strings to consider           *)
  NodeFactories,   (* the factories of streaming IPs: [vlnv, class]          *)
  MaxPortNum,      (* the maxPortNum of ConnectString                        *)
  Channels,        (* the names of the four Aurora IPs, in order             *)
  PipeChannels     (* the names by which villas-fpga-pipe looks for them     *)

Classes == {"switch", "dma", "aurora", "dinoAdc", "dinoDac"}

ASSUME RoutingAssumption ==
  /\ MaxPortNum \in Nat
  /\ Channels \in Seq(STRING) /\ Len(Channels) = 4 /\ "" \notin ToSet(Channels)
  /\ PipeChannels \in Seq(STRING) /\ Len(PipeChannels) = 4
  /\ \A i \in DOMAIN NodeFactories : NodeFactories[i].class \in Classes

VARIABLES
  program,                           \* "ctrl" or "pipe"
  configuration, connectStr, noDma,  \* its arguments
  stage,          \* of main(): create, route, serve, or how it ended
  streamGraph,    \* the edges of the static graph
  cards,          \* the cards created so far
  card,           \* the one that setupFpgaCard() returned
  at,             \* the position in configuration, then in connectStr
  links,          \* <<switch, slave port, master port>> that are connected
  readFromStdin, writeToStdout

argVars == <<program, configuration, connectStr, noDma>>
graphVars == <<streamGraph, cards, card>>
routingVars ==
  <<argVars, stage, graphVars, at, links, readFromStdin, writeToStdout>>

NoCard == [name |-> "none", interface |-> "none", ips |-> <<>>]

CtrlArguments == {"ctrl"} \X Configurations \X ConnectLists \X BOOLEAN

(* villas-fpga-pipe has no connect strings; it is taken to be given the    *)
(* one that asks for what it connects.                                     *)
PipeString ==
  [form |-> "ports", left |-> [word |-> "", num |-> 3], arrow |-> "<->",
   right |-> [word |-> "dma", num |-> -1]]
PipeArguments == {"pipe"} \X Configurations \X {<<PipeString>>} \X {FALSE}

RoutingInit(arguments) ==
  /\ \E a \in arguments :
       program = a[1] /\ configuration = a[2] /\ connectStr = a[3] /\ noDma = a[4]
  /\ stage = "create"
  /\ streamGraph = {}
  /\ cards = <<>>
  /\ card = NoCard
  /\ at = 1
  /\ links = {}
  /\ readFromStdin = FALSE /\ writeToStdout = FALSE

(* ---- The graph ----------------------------------------------------------- *)

(* The class of the object that a factory creates for an IP, which the     *)
(* dynamic casts ask for                                                   *)
ClassOf(ip) ==
  LET f == lookupFactory([i \in DOMAIN NodeFactories |-> NodeFactories[i].vlnv], ip.vlnv)
  IN IF f = 0 THEN "none" ELSE NodeFactories[f].class

Masters(ip) == {p \in ip.ports : p.isMaster}
Slaves(ip) == ip.ports \ Masters(ip)

HasPort(ip, name, isMaster) == \E p \in ip.ports : p.name = name /\ p.isMaster = isMaster

Vertex(ip, p) == <<ip.name, p.name, p.isMaster>>

(* NodeFactory::parse(): the edges that an IP adds are those of its masters*)
Parse(ip) == {<<Vertex(ip, p), <<p.target[1], p.target[2], FALSE>>>> : p \in Masters(ip)}

(* AxiStreamSwitch::init(): each slave port may be routed to each master.  *)
Internal(ip) ==
  IF ClassOf(ip) # "switch" THEN {}
  ELSE {<<Vertex(ip, s), Vertex(ip, m)>> : s \in Slaves(ip), m \in Masters(ip)}

Successors(v) == {e[2] : e \in {d \in streamGraph : d[1] = v}}

(* There is a path: edges lead out of an endpoint, through a switch, and   *)
(* into an endpoint, so that no path has more than three of them.          *)
Reaches(v, to) ==
  \/ v = to
  \/ \E a \in Successors(v) :
       \/ a = to
       \/ \E b \in Successors(a) : b = to \/ to \in Successors(b)

(* The first hops of the paths that StreamGraph::getPath() may return      *)
Hops(from, to) == {v \in Successors(from) : Reaches(v, to)}

(* ---- Node::connect() ----------------------------------------------------- *)

(* AxiStreamSwitch::connectInternal(), which first takes down what the     *)
(* slave port was connected to; other IPs have no internal connections.    *)
CanConnectInternal(ip, slave, master) ==
  ClassOf(ip) = "switch" /\ HasPort(ip, slave, FALSE) /\ HasPort(ip, master, TRUE)

connectInternal(lk, ip, slave, master) ==
  {l \in lk : l[1] = ip.name => l[2] # slave /\ l[3] # master} \cup {<<ip.name, slave, master>>}

(* What an IP does for a path, and the call of the next IP, which is looked*)
(* up by its name on this card: the links that may result.  Where it fails *)
(* they stay as they are by then.                                          *)
ConnectAt(lk, ip, from, to, Next(_, _, _, _)) ==
  LET Onward(lk1, hop) ==
        LET i == lookupByName(card.ips, hop[1])
        IN IF i = 0 THEN {lk1} ELSE Next(lk1, card.ips[i], hop, to)
      Internally(hop) ==
        IF ~ CanConnectInternal(ip, from[2], hop[2]) THEN {lk}
        ELSE LET lk1 == connectInternal(lk, ip, from[2], hop[2])
             IN IF hop = to THEN {lk1}
                ELSE UNION {Onward(lk1, second) : second \in Hops(hop, to)}
  IN IF Hops(from, to) = {} THEN {lk}
     ELSE UNION {IF hop[1] = ip.name THEN Internally(hop) ELSE Onward(lk, hop)
                 : hop \in Hops(from, to)}

(* A call of the source calls a switch, which calls the sink; that one has *)
(* no path to go on.                                                       *)
AtSink(lk, ip, from, to) == {lk}
AtSwitch(lk, ip, from, to) == ConnectAt(lk, ip, from, to, AtSink)
Connect(lk, ip, from, to) == ConnectAt(lk, ip, from, to, AtSwitch)

(* ---- ConnectString ------------------------------------------------------- *)

(* A connect string is "" or "loopback" or of two ports and an arrow; a    *)
(* port is a word, and then its num is -1, or a number.                    *)
StreamWords == {"stdin", "stdout", "pipe", "dma", "dino"}

TypeOf(port) ==
  IF port.num # -1 THEN "AURORA" ELSE IF port.word = "dino" THEN "DINO" ELSE "DMA"

Valid(str) ==
  str.form = "ports" =>
    \A port \in {str.left, str.right} :
      IF port.num = -1 THEN port.word \in StreamWords ELSE port.num <= MaxPortNum

(* Variant: an arrow to the left is not told from one to the right.        *)
parseStringRight(str) ==
  IF str.form # "ports"
    THEN [bidirectional |-> str.form = "loopback", srcType |-> "LOOPBACK", dstType |-> "LOOPBACK",
          srcAsInt |-> -1, dstAsInt |-> -1]
    ELSE [bidirectional |-> str.arrow = "<->",
          srcType |-> TypeOf(str.left), dstType |-> TypeOf(str.right),
          srcAsInt |-> str.left.num, dstAsInt |-> str.right.num]

(* The empty string leaves what the constructor set; all arrows but two    *)
(* mean "->".                                                              *)
parseString(str) ==
  LET invert == str.form = "ports" /\ str.arrow = "<-"
      src == IF invert THEN str.right ELSE str.left
      dst == IF invert THEN str.left ELSE str.right
  IN IF str.form # "ports"
       THEN [bidirectional |-> str.form = "loopback",
             srcType |-> "LOOPBACK", dstType |-> "LOOPBACK", srcAsInt |-> -1, dstAsInt |-> -1]
       ELSE [bidirectional |-> str.arrow = "<->",
             srcType |-> TypeOf(src), dstType |-> TypeOf(dst),
             srcAsInt |-> src.num, dstAsInt |-> dst.num]

isDmaLoopback(cs) == cs.srcType = "LOOPBACK"
isSrcStdin(cs) == cs.srcType = "DMA"
isDstStdout(cs) == cs.dstType = "DMA"

(* The IP of a card, or NoIP: a lookup and the cast to a class             *)
NoIP == [name |-> "none", vlnv |-> getWildcard, ports |-> {}]
Cast(i, class) == IF i # 0 /\ ClassOf(card.ips[i]) \in class THEN card.ips[i] ELSE NoIP

XilinxTag(library, name) == Vlnv(<<"xilinx.com", library, name>>)

dma == Cast(lookupByVlnv(card.ips, XilinxTag("ip", "axi_dma")), {"dma"})
dinoDac == Cast(lookupByVlnv(card.ips, XilinxTag("module_ref", "dinoif_dac")), {"dinoDac"})
dinoAdc == Cast(lookupByVlnv(card.ips, XilinxTag("module_ref", "dinoif_fast")), {"dinoAdc"})

ChannelIPs(names, classes) ==
  [i \in 0 .. 3 |->
     Cast(lookupById(card.ips, [vlnv |-> XilinxTag("ip", "aurora_8b10b"), name |-> names[i + 1]]),
          classes)]

(* getAuroraChannels(): any streaming IP of the name will do; the pipe     *)
(* looks for other names, and for Aurora IPs.                              *)
getAuroraChannels == ChannelIPs(Channels, Classes)
pipeChannels == ChannelIPs(PipeChannels, {"aurora"})

auroraChannels == IF program = "pipe" THEN pipeChannels ELSE getAuroraChannels
HasChannels == \A i \in 0 .. 3 : auroraChannels[i] # NoIP

Source(type, num) ==
  IF type = "DINO" THEN dinoAdc ELSE IF type = "DMA" THEN dma ELSE auroraChannels[num]
Sink(type, num) ==
  IF type = "DINO" THEN dinoDac ELSE IF type = "DMA" THEN dma ELSE auroraChannels[num]

(* getDefaultMasterPort(), getDefaultSlavePort() of the classes            *)
DmaPort(isMaster) == IF isMaster THEN "MM2S" ELSE "S2MM"
AuroraPort(isMaster) == IF isMaster THEN "USER_DATA_M_AXI_RX" ELSE "USER_DATA_S_AXI_TX"
DinoPort(isMaster) == IF isMaster THEN "M00_AXIS" ELSE "S00_AXIS"

DefaultPort(ip, isMaster) ==
  CASE ClassOf(ip) = "dma" -> DmaPort(isMaster)
    [] ClassOf(ip) = "aurora" -> AuroraPort(isMaster)
    [] ClassOf(ip) \in {"dinoAdc", "dinoDac"} -> DinoPort(isMaster)
    [] OTHER -> "none"

(* The directions that a string asks for, as <<source, sink>>              *)
Directions(cs) ==
  <<<<Source(cs.srcType, cs.srcAsInt), Sink(cs.dstType, cs.dstAsInt)>>>>
    \o IF cs.bidirectional
         THEN <<<<Source(cs.dstType, cs.dstAsInt), Sink(cs.srcType, cs.srcAsInt)>>>> ELSE <<>>

(* A port that the definition does not list is an exception.               *)
PortsExist(dirs) ==
  \A i \in DOMAIN dirs :
    HasPort(dirs[i][1], DefaultPort(dirs[i][1], TRUE), TRUE)
      /\ HasPort(dirs[i][2], DefaultPort(dirs[i][2], FALSE), FALSE)

(* src->connect() for each of the directions, of which there are one or    *)
(* two; nobody looks at what it returns.                                   *)
ConnectPair(lk, pair) ==
  Connect(lk, pair[1], <<pair[1].name, DefaultPort(pair[1], TRUE), TRUE>>,
          <<pair[2].name, DefaultPort(pair[2], FALSE), FALSE>>)

Route(lk, dirs) ==
  IF Len(dirs) = 1 THEN ConnectPair(lk, dirs[1])
  ELSE UNION {ConnectPair(lk1, dirs[2]) : lk1 \in ConnectPair(lk, dirs[1])}

(* getLoopbackPorts(): a master port of the IP that reaches a slave port   *)
LoopbackPorts(ip) ==
  {pair \in Masters(ip) \X Slaves(ip) : Reaches(Vertex(ip, pair[1]), Vertex(ip, pair[2]))}

(* ---- How cards are wired ------------------------------------------------- *)

StreamPort == [name : STRING, isMaster : BOOLEAN, target : STRING \X STRING]

IpsOf(file) == UNION {ToSet(file[i].ips) : i \in DOMAIN file}

(* A master port leads to one slave port, which no other one leads to.     *)
PointToPoint(ips) ==
  \A ip, other \in ips : \A p \in Masters(ip) :
    /\ \A q \in Masters(ip) : p.name = q.name => p = q
    /\ \A q \in Masters(other) : p.target = q.target => ip = other /\ p = q
    /\ other.name = p.target[1] => HasPort(other, p.target[2], FALSE)

(* No switch leads to a switch.                                            *)
OneSwitch(ips) ==
  \A sw, other \in ips : \A p \in Masters(sw) :
    ClassOf(sw) = "switch" /\ other.name = p.target[1] => ClassOf(other) # "switch"

(* The files in etc/, and any that scripts/hwdef-parse.py reads from a     *)
(* block design: the ports of an endpoint are wired to a switch, and only  *)
(* Aurora IPs have the names of the channels.                              *)
ASSUME WiringAssumption ==
  \A file \in Configurations :
    /\ file \in Seq(ToSet(file)) /\ OneSwitch(IpsOf(file))
    /\ \A d \in ToSet(file) : d.ips \in Seq(ToSet(d.ips)) /\ PointToPoint(ToSet(d.ips))
    /\ \A ip \in IpsOf(file) :
         /\ ip.name \in STRING \ {""} /\ ip.ports \subseteq StreamPort
         /\ ip.name \in ToSet(Channels) => ClassOf(ip) = "aurora"
         /\ ClassOf(ip) = "dma" => \A p \in ip.ports : p.name = DmaPort(p.isMaster)

(* ---- The cards ----------------------------------------------------------- *)

Creating == stage = "create" /\ at <= Len(configuration)

(* createCard() of a PCIe card that is found and comes up: the ports of    *)
(* its IPs are parsed, then its switch is initialized.                     *)
CreateCard ==
  /\ Creating /\ configuration[at].interface = "pcie"
  /\ LET ips == configuration[at].ips
     IN streamGraph' = streamGraph \cup UNION {Parse(ips[i]) \cup Internal(ips[i]) : i \in DOMAIN ips}
  /\ cards' = Append(cards, configuration[at])
  /\ at' = at + 1
  /\ UNCHANGED <<argVars, stage, card, links, readFromStdin, writeToStdout>>

(* It is not found: a null pointer, and on to the next.                    *)
NoSuchDevice ==
  /\ Creating /\ configuration[at].interface = "pcie"
  /\ at' = at + 1
  /\ UNCHANGED <<argVars, stage, graphVars, links, readFromStdin, writeToStdout>>

(* It does not come up, or has an interface other than "pcie": main()      *)
(* ends, also when it is not the card that was asked for.                  *)
CreateThrows ==
  /\ Creating
  /\ stage' = "error"
  /\ UNCHANGED <<argVars, graphVars, at, links, readFromStdin, writeToStdout>>

(* The first card of the name, and its channels, which are dumped          *)
ChooseCard ==
  /\ stage = "create" /\ at = Len(configuration) + 1
  /\ LET i == SelectInSeq(cards, LAMBDA c : c.name = FpgaName)
     IN IF i = 0 THEN stage' = "error" /\ UNCHANGED card
        ELSE stage' = "dump" /\ card' = cards[i]
  /\ at' = 1
  /\ UNCHANGED <<argVars, streamGraph, cards, links, readFromStdin, writeToStdout>>

DumpChannels ==
  /\ stage = "dump"
  /\ stage' = IF HasChannels THEN "route" ELSE "error"
  /\ UNCHANGED <<argVars, graphVars, at, links, readFromStdin, writeToStdout>>

(* ---- The connect strings ------------------------------------------------- *)

Connecting == program = "ctrl" /\ stage = "route" /\ at <= Len(connectStr)

(* What main() notes of a string that has been configured                  *)
Note(cs) ==
  /\ readFromStdin' = (readFromStdin \/ isSrcStdin(cs) \/ (isDstStdout(cs) /\ cs.bidirectional))
  /\ writeToStdout' = (writeToStdout \/ isDstStdout(cs) \/ (isSrcStdin(cs) /\ cs.bidirectional))

ConnectLoopback ==
  /\ Connecting /\ Valid(connectStr[at])
  /\ isDmaLoopback(parseString(connectStr[at]))
  /\ dma # NoIP
  /\ \E ports \in LoopbackPorts(dma) :
       links' \in Connect(links, dma, Vertex(dma, ports[1]), Vertex(dma, ports[2]))
  /\ at' = at + 1
  /\ Note(parseString(connectStr[at]))
  /\ UNCHANGED <<argVars, stage, graphVars>>

(* connectLoopback() dereferences the null pointer that it finds for "".   *)
LoopbackCrash ==
  /\ Connecting /\ Valid(connectStr[at])
  /\ isDmaLoopback(parseString(connectStr[at]))
  /\ dma # NoIP /\ LoopbackPorts(dma) = {}
  /\ stage' = "crashed"
  /\ UNCHANGED <<argVars, graphVars, at, links, readFromStdin, writeToStdout>>

HasAll == dma # NoIP /\ HasChannels /\ dinoDac # NoIP /\ dinoAdc # NoIP

ExistingChannels(cs) == {cs.srcAsInt, cs.dstAsInt} \subseteq -1 .. 3

ConfigCrossBar ==
  /\ Connecting /\ Valid(connectStr[at])
  /\ LET cs == parseString(connectStr[at])
     IN /\ ~ isDmaLoopback(cs)
        /\ HasAll /\ ExistingChannels(cs) /\ PortsExist(Directions(cs))
        /\ links' \in Route(links, Directions(cs))
        /\ Note(cs)
  /\ at' = at + 1
  /\ UNCHANGED <<argVars, stage, graphVars>>

(* The vector of channels is read past its end.                            *)
NoSuchChannel ==
  /\ Connecting /\ Valid(connectStr[at])
  /\ LET cs == parseString(connectStr[at])
     IN ~ isDmaLoopback(cs) /\ HasAll /\ ~ ExistingChannels(cs)
  /\ stage' = "crashed"
  /\ UNCHANGED <<argVars, graphVars, at, links, readFromStdin, writeToStdout>>

(* The string is not valid, or an IP or a default port is missing; if it   *)
(* is one of the second direction, the first one is connected.             *)
ConfigThrows ==
  /\ Connecting
  /\ LET cs == parseString(connectStr[at])
         loop == isDmaLoopback(cs)
     IN IF ~ Valid(connectStr[at]) \/ (loop /\ dma = NoIP) \/ (~ loop /\ ~ HasAll)
          THEN UNCHANGED links
          ELSE /\ ~ loop /\ ExistingChannels(cs) /\ ~ PortsExist(Directions(cs))
               /\ LET first == SubSeq(Directions(cs), 1, 1)
                  IN links' \in IF PortsExist(first) THEN Route(links, first) ELSE {links}
  /\ stage' = "error"
  /\ UNCHANGED <<argVars, graphVars, at, readFromStdin, writeToStdout>>

(* villas-fpga-pipe connects the last channel and the DMA, both ways.      *)
PipeDirections == <<<<auroraChannels[3], dma>>, <<dma, auroraChannels[3]>>>>

ConnectPipe ==
  /\ program = "pipe" /\ stage = "route" /\ at = 1
  /\ dma # NoIP /\ PortsExist(PipeDirections)
  /\ links' \in Route(links, PipeDirections)
  /\ at' = at + 1
  /\ readFromStdin' = TRUE /\ writeToStdout' = TRUE
  /\ UNCHANGED <<argVars, stage, graphVars>>

PipeFails ==
  /\ program = "pipe" /\ stage = "route" /\ at = 1
  /\ LET first == SubSeq(PipeDirections, 1, 1)
     IN IF dma = NoIP \/ ~ PortsExist(first) THEN UNCHANGED links
        ELSE ~ PortsExist(PipeDirections) /\ links' \in Route(links, first)
  /\ stage' = "error"
  /\ UNCHANGED <<argVars, graphVars, at, readFromStdin, writeToStdout>>

(* The threads of CtrlStream start, if one is wanted, or the loop of Pipe. *)
Serve ==
  /\ stage = "route" /\ at = Len(connectStr) + 1
  /\ stage' = IF (readFromStdin \/ writeToStdout) /\ ~ noDma THEN "serve" ELSE "end"
  /\ UNCHANGED <<argVars, graphVars, at, links, readFromStdin, writeToStdout>>

(* getBufferedSampleFormatter() does not know the output format.           *)
UnknownFormat ==
  /\ program = "ctrl" /\ stage = "route" /\ at = Len(connectStr) + 1
  /\ writeToStdout /\ ~ noDma
  /\ stage' = "error"
  /\ UNCHANGED <<argVars, graphVars, at, links, readFromStdin, writeToStdout>>

RoutingNext ==
  \/ CreateCard \/ NoSuchDevice \/ CreateThrows \/ ChooseCard \/ DumpChannels
  \/ ConnectLoopback \/ LoopbackCrash \/ ConfigCrossBar \/ NoSuchChannel \/ ConfigThrows
  \/ ConnectPipe \/ PipeFails
  \/ Serve \/ UnknownFormat

RoutingSpec == RoutingInit(CtrlArguments \cup PipeArguments) /\ [][RoutingNext]_routingVars

-----------------------------------------------------------------------------
(* What a connect string means, independently of the code above: the pairs *)
(* of ports between which it asks for a stream.                            *)
Meaning(str) ==
  IF str.form # "ports" THEN {<<[word |-> "dma", num |-> -1], [word |-> "dma", num |-> -1]>>}
  ELSE (IF str.arrow = "<-" THEN {} ELSE {<<str.left, str.right>>})
         \cup (IF str.arrow \in {"<-", "<->"} THEN {<<str.right, str.left>>} ELSE {})

(* The links from an IP to another by the ports that the card lists        *)
Between(src, dest) ==
  LET Into(sw) == {p \in Masters(src) : p.name = DefaultPort(src, TRUE) /\ p.target[1] = sw.name}
      Out(sw) == {p \in Masters(sw) : p.target = <<dest.name, DefaultPort(dest, FALSE)>>}
      Switches == {ip \in ToSet(card.ips) : ClassOf(ip) = "switch"}
  IN UNION {{<<sw.name, in.target[2], out.name>> : in \in Into(sw), out \in Out(sw)} : sw \in Switches}

Wired(ports) == Between(Source(TypeOf(ports[1]), ports[1].num), Sink(TypeOf(ports[2]), ports[2].num))

WiredFor(str) == UNION {Wired(ports) : ports \in Meaning(str)}

(* IPs of one name are the same on all cards that were created.            *)
NamesAgree ==
  \A c, d \in ToSet(cards) : \A ip \in ToSet(c.ips), other \in ToSet(d.ips) :
    ip.name = other.name => ip = other

(* If the cards of a configuration agree in what they call the same, each  *)
(* connect string has routed exactly its streams, by the wiring of the     *)
(* card that was asked for, when the next one is looked at; nothing is     *)
(* connected that no string asked for; and the threads that are started    *)
(* are those whose stream some string has routed to or from the DMA.       *)
RoutesAsWired ==
  NamesAgree /\ stage \in {"route", "serve", "end"} =>
    LET Processed == {connectStr[i] : i \in 1 .. at - 1}
        ForDma(side) ==
          \E str \in Processed : str.form = "ports" /\ \E pair \in Meaning(str) : TypeOf(pair[side]) = "DMA"
    IN /\ at > 1 => WiredFor(connectStr[at - 1]) \subseteq links
       /\ links \subseteq UNION {WiredFor(str) : str \in Processed}
       /\ readFromStdin = ForDma(1) /\ writeToStdout = ForDma(2)
=============================================================================
