------------------------------- MODULE MCMwifi -------------------------------
(***************************************************************************)
(* Bounds for the modules of mwifi, which share no state: a behaviour      *)
(* shows one of them, the part chosen in its first state, and the others   *)
(* stay as they are.                                                       *)
(***************************************************************************)
EXTENDS MwifiTransfer, MwifiMulticast, MwifiMesh

CONSTANTS Parts, r, a, b, c

VARIABLE part

mwifiVars == <<part, transferVars, multicastVars, meshVars>>

\* Two children of the root, and one node below the first of them.
Tree == [n \in Node |-> CASE n = r -> {}
                          [] n \in {a, b} -> {r}
                          [] n = c -> {r, a}]

MCTopology == {Tree}

MwifiInit == part \in Parts /\ TransferInit /\ MulticastInit /\ MeshInit

MwifiNext ==
  /\ UNCHANGED part
  /\ \/ part = "transfer" /\ TransferNext /\ UNCHANGED <<multicastVars, meshVars>>
     \/ part = "multicast" /\ MulticastNext /\ UNCHANGED <<transferVars, meshVars>>
     \/ part = "mesh" /\ MeshNext /\ UNCHANGED <<transferVars, multicastVars>>

\* A part that is not shown never starts, and none of its fair steps is ever enabled.
MwifiSpec == MwifiInit /\ [][MwifiNext]_mwifiVars /\ MulticastFairness /\ MeshFairness

\* Every module's variables have their types.
MwifiTypeOK == TransferTypeOK /\ MulticastTypeOK /\ MeshTypeOK
=============================================================================
