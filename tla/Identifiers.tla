----------------------------- MODULE Identifiers -----------------------------
(***************************************************************************)
(* What IPs are found by: the tag of vendor, library, name and version     *)
(* (lib/vlnv.cpp), the identifier of an instance (core.hpp), and the       *)
(* lookups of a card (lib/card.cpp) and of the factories (lib/core.cpp).   *)
(***************************************************************************)
EXTENDS Naturals, SequencesExt

(* Vlnv::parseFromString() of the text between the colons: a field that is *)
(* missing is empty, as is one with an asterisk, and an empty field is a   *)
(* wildcard.                                                               *)
Vlnv(tokens) ==
  LET Field(f) == IF f > Len(tokens) THEN "" ELSE IF tokens[f] = "*" THEN "" ELSE tokens[f]
  IN <<Field(1), Field(2), Field(3), Field(4)>>

getWildcard == Vlnv(<<>>)

(* Vlnv::operator==, which is no equivalence: a wildcard equals both of    *)
(* two tags that differ.                                                   *)
VlnvEq(a, b) == \A f \in 1 .. 4 : a[f] = "" \/ b[f] = "" \/ a[f] = b[f]

(* IpIdentifier::operator==: its test for a wildcard uses the operator     *)
(* above, by which every tag equals the wildcard; so the tags of two       *)
(* identifiers do not matter, only their names do.                         *)
IpIdentifierEq(this, other) ==
  LET vlnvWildcard == VlnvEq(other.vlnv, getWildcard)
      nameWildcard == this.name = "" \/ other.name = ""
  IN /\ vlnvWildcard \/ VlnvEq(this.vlnv, other.vlnv)
     /\ nameWildcard \/ this.name = other.name

(* Card::lookupIp(): the position of the first that matches, or 0          *)
lookupByName(ips, name) == SelectInSeq(ips, LAMBDA ip : ip.name = name)
lookupByVlnv(ips, vlnv) == SelectInSeq(ips, LAMBDA ip : VlnvEq(ip.vlnv, vlnv))
lookupById(ips, id) == SelectInSeq(ips, LAMBDA ip : IpIdentifierEq(ip, id))

(* CoreFactory::lookup(): "the first suitable factory will be used"        *)
lookupFactory(factories, vlnv) == SelectInSeq(factories, LAMBDA f : VlnvEq(f, vlnv))
=============================================================================
