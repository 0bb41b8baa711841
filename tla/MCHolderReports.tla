---------------------------- MODULE MCHolderReports ----------------------------
(* Two texts and a metric, of which a text that quotes the hash of the metric
   has its binding. *)
EXTENDS HolderReports, TLC

CONSTANTS j1, j2

QuotedBinding == ("text" :> j2) @@ ("quote" :> j1) @@ ("metric" :> j1)

(* Wallets are interchangeable. *)
Symmetry == Permutations(Holders)
=============================================================================
