------------------------------ MODULE MCDevices ------------------------------
EXTENDS Devices

(* Two timers, a timer next to the FIFO, and each of the others alone      *)
Cards == {{"timer0", "timer1"}, {"timer0", "fifo"}} \cup {{ip} : ip \in Alone}

TwoTimers == {"timer0", "timer1"}

Interrupts == TwoTimers \cup {"fifo"}

(* Within a block of two cells, as long as one, and across three of them   *)
Bitstreams == {<<"a">>, <<"a", "b">>, <<"b", "a", "a", "b">>}

-----------------------------------------------------------------------------
(* Streaming IPs around one switch: each source is a master port that leads*)
(* to a slave port of the switch, each sink the reverse.                   *)
SlavePorts == <<"S00", "S01", "S02", "S03", "S04", "S05">>
MasterPorts == <<"M00", "M01", "M02", "M03", "M04", "M05">>

Port(name, isMaster, peer) == [name |-> name, isMaster |-> isMaster, target |-> peer]

Switch(name, sources, sinks) ==
  [name |-> name, vlnv |-> Vlnv(<<"xilinx.com", "ip", "axis_switch", "1.1">>),
   ports |-> {Port(SlavePorts[i], FALSE, sources[i]) : i \in DOMAIN sources}
               \cup {Port(MasterPorts[i], TRUE, sinks[i]) : i \in DOMAIN sinks}]

Endpoint(name, vlnv, switch, sources, sinks) ==
  [name |-> name, vlnv |-> vlnv,
   ports |-> {Port(sources[i][2], TRUE, <<switch, SlavePorts[i]>>) :
                i \in {j \in DOMAIN sources : sources[j][1] = name}}
               \cup {Port(sinks[i][2], FALSE, <<switch, MasterPorts[i]>>) :
                       i \in {j \in DOMAIN sinks : sinks[j][1] = name}}]

Star(switch, endpoints, sources, sinks) ==
  <<Switch(switch, sources, sinks)>>
    \o [i \in DOMAIN endpoints |->
          Endpoint(endpoints[i][1], endpoints[i][2], switch, sources, sinks)]

Aurora == Vlnv(<<"xilinx.com", "ip", "aurora_8b10b", "11.1">>)

ChannelNames == <<"ch0", "ch1", "ch2", "ch3">>
PipeNames == <<"lane0", "lane1", "lane2", "lane3">>

Endpoints ==
  <<<<"dma", Vlnv(<<"xilinx.com", "ip", "axi_dma", "7.1">>)>>,
    <<"ch0", Aurora>>, <<"ch1", Aurora>>, <<"ch2", Aurora>>, <<"ch3", Aurora>>,
    <<"adc", Vlnv(<<"xilinx.com", "module_ref", "dinoif_fast", "1.0">>)>>,
    <<"dac", Vlnv(<<"xilinx.com", "module_ref", "dinoif_dac", "1.0">>)>>>>

Rx(name) == <<name, "USER_DATA_M_AXI_RX">>
Tx(name) == <<name, "USER_DATA_S_AXI_TX">>
SourcePorts ==
  <<Rx("ch0"), Rx("ch1"), <<"dma", "MM2S">>, <<"adc", "M00_AXIS">>, Rx("ch2"), Rx("ch3")>>
SinkPorts ==
  <<<<"dma", "S2MM">>, Tx("ch0"), Tx("ch1"), <<"dac", "S00_AXIS">>, Tx("ch2"), Tx("ch3")>>

Card(name, interface, ips) == [name |-> name, interface |-> interface, ips |-> ips]

Asked == Card("asked", "pcie", Star("xbar", Endpoints, SourcePorts, SinkPorts))

(* A second card of the same design, of one with other connections, of one *)
(* whose switch has another name, and of one without streams in common     *)
Twin == [Asked EXCEPT !.name = "second"]
Rewired == Card("second", "pcie", Star("xbar", Endpoints, Reverse(SourcePorts), SinkPorts))
Renamed == Card("second", "pcie", Star("xbar2", Endpoints, SourcePorts, Reverse(SinkPorts)))
Another == Card("second", "pcie", Star("xbar3", <<<<"link", Aurora>>>>, <<Rx("link")>>, <<Tx("link")>>))

(* Cards that lack the sinks of the DMA and of a channel, the Dino boards, *)
(* or a channel                                                            *)
Unwired ==
  Card("asked", "pcie", Star("xbar", Endpoints, SourcePorts, SubSeq(SinkPorts, 2, 5)))
NoDino == Card("asked", "pcie", Star("xbar", SubSeq(Endpoints, 1, 5), SourcePorts, SinkPorts))
NoChannel == Card("asked", "pcie", Star("xbar", SubSeq(Endpoints, 1, 4), SourcePorts, SinkPorts))

(* A design for the other program, also next to one that claims its switch,*)
(* and without one of the four ports that it needs                         *)
LaneEndpoints ==
  <<Endpoints[1]>> \o [i \in 1 .. 4 |-> <<PipeNames[i], Aurora>>]
LaneSources == <<<<"dma", "MM2S">>>> \o [i \in 1 .. 4 |-> Rx(PipeNames[i])]
LaneSinks == [i \in 1 .. 4 |-> Tx(PipeNames[i])] \o <<<<"dma", "S2MM">>>>
Lanes(sources, sinks) == Card("asked", "pcie", Star("xbar", LaneEndpoints, sources, sinks))

LaneFiles ==
  {<<Lanes(LaneSources, LaneSinks)>>, <<Rewired, Lanes(LaneSources, LaneSinks)>>,
   <<Lanes(LaneSources, Tail(LaneSinks))>>, <<Lanes(Tail(LaneSources), LaneSinks)>>,
   <<Lanes(LaneSources, SubSeq(LaneSinks, 1, 4))>>}

ConfigFiles ==
  {<<Asked>>, <<Twin, Asked>>, <<Asked, Rewired>>, <<Renamed, Asked>>, <<Another, Asked>>,
   <<Asked, Card("second", "platform", <<>>)>>, <<Unwired>>, <<NoDino>>, <<NoChannel>>}
    \cup LaneFiles

StreamPlugins ==
  <<[vlnv |-> Vlnv(<<"xilinx.com", "ip", "axis_switch">>), class |-> "switch"],
    [vlnv |-> Vlnv(<<"xilinx.com", "ip", "aurora_8b10b">>), class |-> "aurora"],
    [vlnv |-> Vlnv(<<"xilinx.com", "ip", "axi_dma">>), class |-> "dma"],
    [vlnv |-> Vlnv(<<"xilinx.com", "module_ref", "dinoif_fast">>), class |-> "dinoAdc"],
    [vlnv |-> Vlnv(<<"xilinx.com", "module_ref", "dinoif_dac">>), class |-> "dinoDac"]>>

Word(w) == [word |-> w, num |-> -1]
Number(n) == [word |-> "", num |-> n]
Ports(left, arrow, right) == [form |-> "ports", left |-> left, arrow |-> arrow, right |-> right]
Plain(form) == [form |-> form, left |-> Word(""), arrow |-> "", right |-> Word("")]

Strings ==
  {Plain(""), Plain("loopback"),
   Ports(Number(0), "->", Number(1)), Ports(Number(1), "<->", Word("dino")),
   Ports(Word("dino"), "<-", Word("stdin")), Ports(Word("stdout"), "<-", Number(0)),
   Ports(Number(3), "<->", Word("pipe")), Ports(Word("dino"), "->>", Word("dma")),
   Ports(Number(4), "->", Number(0)), Ports(Number(8), "->", Number(0)),
   Ports(Word("disk"), "->", Number(0))}

StringLists == {<<>>} \cup {<<s>> : s \in Strings} \cup (Strings \X Strings)
=============================================================================
