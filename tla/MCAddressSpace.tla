--------------------------- MODULE MCAddressSpace ---------------------------
(* AddressSpace for TLC: tables of two entries on two levels, so that the  *)
(* two pages of a user lie in different tables; a page for the kernel; and *)
(* containers of two slots.                                                *)
EXTENDS AddressSpace

MCRegion == [v \in Vmms |-> IF v = Kernel THEN {1} ELSE {1, 2}]
MCFlags == [v \in Vmms |-> IF v = Kernel THEN {{"write"}} ELSE {{"exec"}, {"write"}}]
=============================================================================
