----------------------------- MODULE MCLocalNetwork -----------------------------
(* Three strangers: a silent program, the node of another chain and that of a
   chain whose ID agrees with the local one in the lower bits. *)
EXTENDS LocalNetwork, TLC

CONSTANTS mute, other, wrapped

StrangerChains == (mute :> Silent) @@ (other :> 3) @@ (wrapped :> 1 + Word)
=============================================================================
