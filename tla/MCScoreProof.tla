------------------------------ MODULE MCScoreProof ------------------------------
(* Every integer from below zero to beyond 32 bytes. *)
EXTENDS ScoreProof

(* A hash under which different scores share a commitment, as in any field
   they must. *)
SmallHash == [pair \in Field \X Field |-> (pair[1] + pair[2]) % Modulus]

AroundTheBounds == -1..(Bytes32 + 1)
=============================================================================
