----------------------------- MODULE MCMupgrade -----------------------------
(* Whole upgrades of a few devices; the environment has a budget.           *)
EXTENDS Mupgrade, TLC

CONSTANTS Size, Sends, Losses, Repeats, Restarts, Halts, Stops

MCPacketNum == [f \in Firmware |-> Size]
MCKept == 0 .. MaxPacket - 1
MCBudget == [send |-> Sends, lose |-> Losses, repeat |-> Repeats,
             restart |-> Restarts, halt |-> Halts, stop |-> Stops]
Symmetry == Permutations(Node \ RootNode)
=============================================================================
