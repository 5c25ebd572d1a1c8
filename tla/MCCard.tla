------------------------------- MODULE MCCard --------------------------------
EXTENDS Card

Xilinx(library, name, version) == Vlnv(<<"xilinx.com", library, name, version>>)

BridgeTag == Vlnv(<<"xilinx.com", "ip", "axi_pcie">>)
IntcTag == Vlnv(<<"xilinx.com", "module_ref", "axi_pcie_intc">>)
SwitchTag == Vlnv(<<"xilinx.com", "ip", "axis_switch">>)
IicTag == Vlnv(<<"xilinx.com", "ip", "axi_iic">>)

Order == <<BridgeTag, IntcTag, SwitchTag, IicTag>>

(* The IPs of a hardware definition with a Dino board; "other" has no      *)
(* factory, and the two switches are of different versions.                *)
Vlnvs ==
  [pcie |-> Xilinx("ip", "axi_pcie", "2.8"),
   intc |-> Xilinx("module_ref", "axi_pcie_intc", "1.0"),
   switch |-> Xilinx("ip", "axis_switch", "1.1"), switch2 |-> Xilinx("ip", "axis_switch", "1.0"),
   i2c |-> Xilinx("ip", "axi_iic", "2.0"),
   dma |-> Xilinx("ip", "axi_dma", "7.1"),
   dino |-> Xilinx("module_ref", "dinoif_dac", "1.0"),
   other |-> Xilinx("ip", "axi_quad_spi", "3.2")]

Plugins ==
  <<IntcTag, Vlnv(<<"xilinx.com", "ip", "axi_dma">>), BridgeTag, IicTag,
    Vlnv(<<"xilinx.com", "module_ref", "dinoif_dac">>), SwitchTag>>

Irqs ==
  [ip \in DOMAIN Vlnvs |-> IF ip \in {"i2c", "dma"} THEN "intc" ELSE "no IP"]

Usual == {"pcie", "intc", "switch", "i2c", "dma", "dino"}

(* Every order of the IPs that come first with one of their users, of any  *)
(* four IPs of a complete definition, and of four with one that nothing    *)
(* supports; and two definitions that offer no IP at all                   *)
Single ==
  UNION {SetToSeqs({"pcie", "intc", "switch", "i2c", user}) : user \in {"dma", "dino"}}
    \cup UNION {SetToSeqs(s) : s \in {t \in SUBSET Usual : Cardinality(t) = 4}}
    \cup SetToSeqs({"other", "pcie", "intc", "dma"}) \cup {<<>>, <<"other">>}

(* Every order of a few IPs with two switches.                             *)
Double == SetToSeqs({"pcie", "switch", "switch2", "i2c", "dino"})

Both == Single \cup Double

MappedIps == DOMAIN Vlnvs \ {"pcie", "dino", "other"}

(* One for main() and one for the reader                                   *)
TwoBlocks == {<<"main", "block">>, <<"reader", "block">>}
=============================================================================
