----------------------------- MODULE MCServices -----------------------------
(***************************************************************************)
(* Instances of Services for TLC.  The packetizer's configurations give    *)
(* different fields, the last an empty host; those of ET lack the name or  *)
(* the sources, or have no source; the port of one is that which the       *)
(* assembler has instead of port 80.  The assembler's other port is 2000,  *)
(* too; its configurations differ in the address, or lack one of the two.  *)
(***************************************************************************)
EXTENDS Services

SomeConfigs == << [host |-> "b", mtu |-> 0, interface |-> ""],
                  [mtu |-> 9000],
                  [host |-> ""] >>
SomeFields == {"host", "interface", "mtu"}

SomeAsmConfigs == << [port |-> 80],
                     [interface |-> "", port |-> 80],
                     [interface |-> "lo"],
                     [interface |-> "lo", port |-> 65536 + 2000] >>

SomeEtConfigs == << [port |-> 3000, ids |-> 1],
                    [etName |-> "et", ids |-> 2, port |-> 65536 + 2000],
                    [port |-> 3000, etName |-> "et"],
                    [etName |-> "et", ids |-> 1],
                    [etName |-> "et", ids |-> 0] >>

EachOrBoth == {{"packetize"}, {"assemble", "assembleEt"}, {"hipoToFile"}, {"hipoReader"}}
AssembleOnly == {{"assemble"}}
=============================================================================
