---------------------------- MODULE MCInventory ----------------------------
(* A small instance of the inventory service.  Without administrator rights *)
(* get_snapshot takes every path there is, the privileged one included.     *)
EXTENDS Inventory

CONSTANTS t1, t2
=============================================================================
