---------------------------- MODULE MCDiscovery ----------------------------
(***************************************************************************)
(* A small instance of Discovery for TLC.                                  *)
(***************************************************************************)
EXTENDS Discovery

CONSTANTS m1, m2, i1

\* One machine is in the inventory, the other device is new.
SmallInventory == [m \in Machine |-> IF m = m1 THEN i1 ELSE Nowhere]
=============================================================================
