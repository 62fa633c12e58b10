-------------------------- MODULE MCAddrLocalSubnet --------------------------
(* AddrLocalSubnet on the instance of MCAddrManager.                       *)
EXTENDS MCAddrManager, AddrLocalSubnet
=============================================================================
