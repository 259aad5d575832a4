--------------------------- MODULE MCMupgradeNode ---------------------------
(* One receiving device under every order of requests and packets.          *)
EXTENDS MupgradeNode

CONSTANTS A, B, SizeOfA, SizeOfB

MCPacketNum == [f \in Firmware |-> IF f = A THEN SizeOfA ELSE SizeOfB]
MCPacketSet == 0 .. MaxPacket - 1
=============================================================================
