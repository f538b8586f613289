--------------------------- MODULE MCConfigStore ---------------------------
(***************************************************************************)
(* Small instances of ConfigStore: the values a host writes.               *)
(***************************************************************************)
EXTENDS ConfigStore

(* 0x0302: 115200 baud, address 2;  0x0101: 4800 baud, address 1. *)
MCReg0 == {[hi |-> 3, lo |-> 2], [hi |-> 1, lo |-> 1]}
MCReg1 == {[hi |-> 0, lo |-> 5]}
MCIds  == {[hi |-> 1, lo |-> 2]}

(* One request per write, two parameters at once, a restart on its own and  *)
(* with a parameter, whose bit is in the other byte of the register.        *)
MCFlags == {{0}, {1}, {0, 1}, {3}, {15}, {0, 15}}

MCNone == {}
MCParamFlags == {{0}, {15}}
=============================================================================
